---------------------------- MODULE MCDeviceServer ----------------------------
(* Values for the constants of DeviceServer that a .cfg cannot write down.  *)
EXTENDS DeviceServer

a == CHOOSE b \in Byte \ {EOL, ZERO} : TRUE

Files == {fd(c) : c \in Conn} \cup {stream(c) : c \in Conn}

\* An empty line and a line of one byte; a line that fputs cuts short, and two
\* lines in one chunk.
Plain  == {<<EOL>>, <<a, EOL>>}
Uneven == {<<EOL>>, <<a, ZERO, EOL>>, <<EOL, EOL>>}
Written  == {fputs(l) : l \in Line}

Nowhere    == [write_cmd : {}, write_cmd_offset : {}]
SecondByte == [write_cmd : {0}, write_cmd_offset : {1}]

Interchangeable == Permutations(Block) \cup Permutations(Conn)
===============================================================================
