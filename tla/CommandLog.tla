------------------------------ MODULE CommandLog ------------------------------
(***************************************************************************)
(* What the character device promises its writers: bytes are collected     *)
(* until they form a command, that is until the last byte is the first     *)
(* newline; the last Capacity commands are kept, oldest first.  A write of *)
(* no bytes while none are collected counts as a command.                  *)
(***************************************************************************)
EXTENDS Naturals, Sequences

CONSTANTS
  Capacity,    \* how many commands are kept
  Byte,        \* the bytes
  EOL, ZERO,   \* the one that ends a command, and the one that fills gaps
  Payload,     \* the byte strings written
  Faults       \* may a write fault?

VARIABLES recent,   \* the commands kept, oldest first
          partial   \* the bytes of the command being collected

Kept == INSTANCE RecentWrites WITH Item <- Seq(Byte)

Complete(s) ==
  Len(s) = 0 \/ (s[Len(s)] = EOL /\ \A i \in 1 .. Len(s) - 1 : s[i] # EOL)

Init == Kept!Init /\ partial = << >>

Write(d) ==
  LET s == partial \o d
  IN  \/ Complete(s)  /\ Kept!Push(s) /\ partial' = << >>
      \/ ~Complete(s) /\ partial' = s /\ UNCHANGED recent

\* A write that faults after k bytes has no effect on a command that has begun;
\* otherwise a new one has begun, with zero bytes where nothing was copied.
Torn(d) ==
  /\ Faults /\ partial = << >>
  /\ \E k \in 0 .. Len(d) - 1 :
       partial' = [i \in 1 .. Len(d) |-> IF i <= k THEN d[i] ELSE ZERO]
  /\ UNCHANGED recent

\* The device is removed: everything is gone.
Reset == recent' = << >> /\ partial' = << >>

Next == (\E d \in Payload : Write(d) \/ Torn(d)) \/ Reset

Spec == Init /\ [][Next]_<<recent, partial>>
===============================================================================
