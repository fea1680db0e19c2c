------------------------------ MODULE MCAesdChar ------------------------------
(* Values for the constants of AesdChar that a .cfg cannot write down.      *)
EXTENDS AesdChar

a == CHOOSE c \in Byte \ {EOL, ZERO} : TRUE

\* A piece of a line and a line; a piece, the end of a line, and the end of
\* one with the start of the next in one write.
Lines  == {<<a>>, <<a, EOL>>}
Pieces == {<< >>, <<a>>, <<EOL>>, <<EOL, a>>}
OneLine1  == {<<a, EOL>>}
WithEmpty == Lines \cup {<< >>}

Offsets == -1 .. 1

Nowhere == [write_cmd : {}, write_cmd_offset : {}]
OnePlace == [write_cmd : {0}, write_cmd_offset : {0}]
Places  == [write_cmd : {0, 1, 300}, write_cmd_offset : {0, 1}]

\* What has no influence on what follows: what a call returned, and the
\* bytes of blocks nothing points to any more.
Forget(fr) == IF fr.at = "user" THEN [at |-> "user"] ELSE fr
Reachable  == RingPtrs \cup {entry.buffptr}
                \cup {frame[f].buffptr : f \in {g \in File : frame[g].at = "copied"}}
Relevant   == <<loaded, dev, lock, alloc, [b \in Reachable |-> Bytes(b)], f_pos,
                [f \in File |-> Forget(frame[f])]>>

BlockSymmetry == Permutations(Block) \cup Permutations(File)
===============================================================================
