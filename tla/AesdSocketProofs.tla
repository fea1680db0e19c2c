--------------------------- MODULE AesdSocketProofs ---------------------------
(***************************************************************************)
(* Proofs about the server, for any number of connections: its mutex, its  *)
(* list of threads, its descriptors and its joins.                         *)
(***************************************************************************)
EXTENDS AesdSocket, SequenceTheorems, TLAPS

\* What SLIST_REMOVE leaves: the elements before the one removed, and those after
\* it, one place further to the front.
LEMMA RemoveAtFacts ==
  ASSUME NEW S, NEW s \in Seq(S), NEW i \in 1 .. Len(s)
  PROVE  /\ RemoveAt(s, i) \in Seq(S)
         /\ Len(RemoveAt(s, i)) = Len(s) - 1
         /\ \A j \in 1 .. Len(s) - 1 : RemoveAt(s, i)[j] = IF j < i THEN s[j] ELSE s[j + 1]
<1> DEFINE a == SubSeq(s, 1, i - 1)
           b == SubSeq(s, i + 1, Len(s))
<1>1. a \in Seq(S) /\ Len(a) = i - 1 /\ \A j \in 1 .. i - 1 : a[j] = s[j]
  OBVIOUS
<1>2. b \in Seq(S) /\ Len(b) = Len(s) - i /\ \A j \in 1 .. Len(s) - i : b[j] = s[j + i]
  OBVIOUS
<1> HIDE DEF a, b
<1>3. /\ a \o b \in Seq(S) /\ Len(a \o b) = Len(a) + Len(b)
      /\ \A j \in 1 .. Len(a) + Len(b) : (a \o b)[j] = IF j <= Len(a) THEN a[j] ELSE b[j - Len(a)]
  BY <1>1, <1>2, ConcatProperties
<1>4. \A j \in 1 .. Len(s) - 1 : (a \o b)[j] = IF j < i THEN s[j] ELSE s[j + 1]
  <2> SUFFICES ASSUME NEW j \in 1 .. Len(s) - 1
               PROVE  (a \o b)[j] = IF j < i THEN s[j] ELSE s[j + 1]
    OBVIOUS
  <2>1. CASE j < i
    BY <1>1, <1>2, <1>3, <2>1
  <2>2. CASE ~(j < i)
    <3>1. j - (i - 1) \in 1 .. Len(s) - i /\ (j - (i - 1)) + i = j + 1
      BY <2>2
    <3>2. (a \o b)[j] = b[j - (i - 1)]
      BY <1>1, <1>2, <1>3, <2>2
    <3> QED BY <1>2, <2>2, <3>1, <3>2
  <2> QED BY <2>1, <2>2
<1>5. RemoveAt(s, i) = a \o b
  BY DEF RemoveAt, a, b
<1>6. Len(a \o b) = Len(s) - 1
  BY <1>1, <1>2, <1>3
<1> QED BY <1>3, <1>4, <1>5, <1>6

\* What SLIST_INSERT_HEAD leaves: the new element first, the others behind it.
LEMMA InsertHeadFacts ==
  ASSUME NEW S, NEW s \in Seq(S), NEW x \in S
  PROVE  /\ <<x>> \o s \in Seq(S)
         /\ Len(<<x>> \o s) = Len(s) + 1
         /\ \A j \in 1 .. Len(s) + 1 : (<<x>> \o s)[j] = IF j = 1 THEN x ELSE s[j - 1]
OBVIOUS

\* No element is in the list twice.
Distinct(s) == \A i, j \in 1 .. Len(s) : s[i] = s[j] => i = j
ElementOf(c, s) == \E i \in 1 .. Len(s) : s[i] = c

\* Removing an element of a list without repetitions removes it and no other.
LEMMA RemoveElement ==
  ASSUME NEW S, NEW s \in Seq(S), NEW i \in 1 .. Len(s), Distinct(s)
  PROVE  /\ Distinct(RemoveAt(s, i))
         /\ \A c : ElementOf(c, RemoveAt(s, i)) <=> ElementOf(c, s) /\ c # s[i]
<1> DEFINE r == RemoveAt(s, i)
<1>1. Len(r) = Len(s) - 1 /\ \A j \in 1 .. Len(s) - 1 : r[j] = IF j < i THEN s[j] ELSE s[j + 1]
  BY RemoveAtFacts
<1> HIDE DEF r
<1>2. Distinct(r)
  BY <1>1 DEF Distinct
<1>3. ASSUME NEW c, ElementOf(c, r)
      PROVE  ElementOf(c, s) /\ c # s[i]
  BY <1>1, <1>3 DEF Distinct, ElementOf
<1>4. ASSUME NEW c, ElementOf(c, s), c # s[i]
      PROVE  ElementOf(c, r)
  <2>1. PICK j \in 1 .. Len(s) : s[j] = c
    BY <1>4 DEF ElementOf
  <2>2. CASE j < i
    BY <1>1, <2>1, <2>2 DEF ElementOf
  <2>3. CASE j > i
    <3>1. j - 1 \in 1 .. Len(s) - 1 /\ r[j - 1] = s[j]
      BY <1>1, <2>3
    <3> QED BY <1>1, <2>1, <3>1 DEF ElementOf
  <2> QED BY <1>4, <2>1, <2>2, <2>3
<1> QED BY <1>2, <1>3, <1>4 DEF r

\* Putting a new element in front keeps the list without repetitions.
LEMMA InsertElement ==
  ASSUME NEW S, NEW s \in Seq(S), NEW x \in S, Distinct(s), ~ElementOf(x, s)
  PROVE  /\ Distinct(<<x>> \o s)
         /\ \A c : ElementOf(c, <<x>> \o s) <=> ElementOf(c, s) \/ c = x
<1> DEFINE r == <<x>> \o s
<1>1. Len(r) = Len(s) + 1 /\ \A j \in 1 .. Len(s) + 1 : r[j] = IF j = 1 THEN x ELSE s[j - 1]
  BY InsertHeadFacts
<1> HIDE DEF r
<1>2. Distinct(r)
  <2> SUFFICES ASSUME NEW i \in 1 .. Len(r), NEW j \in 1 .. Len(r), r[i] = r[j]
               PROVE  i = j
    BY DEF Distinct
  <2>1. \A k \in 1 .. Len(r) : k # 1 => k - 1 \in 1 .. Len(s) /\ r[k] = s[k - 1]
    BY <1>1
  <2>2. \A k \in 1 .. Len(r) : k # 1 => r[k] # x
    BY <2>1 DEF ElementOf
  <2>3. r[1] = x
    BY <1>1
  <2>4. CASE i = 1 \/ j = 1
    BY <2>2, <2>3, <2>4
  <2>5. CASE i # 1 /\ j # 1
    <3>1. i - 1 = j - 1
      BY <2>1, <2>5 DEF Distinct
    <3> QED BY <3>1
  <2> QED BY <2>4, <2>5
<1>3. \A c : ElementOf(c, r) => ElementOf(c, s) \/ c = x
  BY <1>1 DEF ElementOf
<1>4. ElementOf(x, r)
  BY <1>1 DEF ElementOf
<1>5. ASSUME NEW c, ElementOf(c, s)
      PROVE  ElementOf(c, r)
  <2>1. PICK j \in 1 .. Len(s) : s[j] = c
    BY <1>5 DEF ElementOf
  <2>2. j + 1 \in 1 .. Len(s) + 1 /\ r[j + 1] = s[j]
    BY <1>1
  <2> QED BY <1>1, <2>1, <2>2 DEF ElementOf
<1> QED BY <1>2, <1>3, <1>4, <1>5 DEF r

\* The list invariant in these terms.
LEMMA ListFacts ==
  ListIsUnjoined <=>
    /\ Distinct(head)
    /\ \A c \in Conn : ElementOf(c, head) <=> /\ thread[c] # "none" /\ c \notin joined
                                              /\ ~(main = "insert" /\ datap = c)
BY DEF ListIsUnjoined, Distinct, ElementOf, InList

\* The same of the state after a step.
LEMMA ListFactsNext ==
  ListIsUnjoined' <=>
    /\ Distinct(head')
    /\ \A c \in Conn : ElementOf(c, head') <=> /\ thread'[c] # "none" /\ c \notin joined'
                                               /\ ~(main' = "insert" /\ datap' = c)
BY DEF ListIsUnjoined, Distinct, ElementOf, InList
-------------------------------------------------------------------------------
(* The steps of the threads.                                               *)

\* Where a thread goes to, from where it is.  None of these steps starts or
\* undoes a thread.
LEMMA ThreadMoves ==
  ASSUME ServerInv, NEW c \in Conn, NEW from, NEW to \in ThreadPlace, Thread(c, from, to)
  PROVE  /\ thread[c] = from
         /\ thread' \in [Conn -> ThreadPlace]
         /\ \A d \in Conn : thread'[d] = IF d = c THEN to ELSE thread[d]
         /\ main' = main /\ main # "exited"
         /\ UNCHANGED <<datap, head, elem, joined, caught_signal>>
BY DEF Thread, Set, ServerInv, TypeOK, Running, list

\* A step of a thread that exists and has not returned leaves the list, and
\* what main is doing with it, as they should be.
LEMMA ThreadList ==
  ASSUME ServerInv, NEW c \in Conn, NEW from, NEW to \in ThreadPlace, Thread(c, from, to),
         from \notin {"none", "never", "done"}, to # "none",
         \A d \in Conn : d # c => acceptedsocket'[d] = acceptedsocket[d],
         \A d \in Conn : thread_complete[d] => thread_complete'[d]
  PROVE  ListIsUnjoined' /\ NobodyRunsAtExit' /\ TakenIn' /\ LoopsInList' /\ ThroughIfJoined'
<1> USE ThreadMoves
<1>1. ListIsUnjoined'
  BY ListFacts, ListFactsNext DEF ServerInv
<1>2. NobodyRunsAtExit'
  BY DEF NobodyRunsAtExit
<1>3. TakenIn'
  BY DEF ServerInv, TakenIn
<1>4. LoopsInList'
  <2>1. main = "join" => head[elem] \in Conn
    BY DEF ServerInv, LoopsInList, TypeOK
  <2> QED BY <2>1 DEF ServerInv, LoopsInList
<1>5. ThroughIfJoined'
  BY DEF ServerInv, ThroughIfJoined, TypeOK
<1> QED BY <1>1, <1>2, <1>3, <1>4, <1>5

\* A thread that neither locks nor unlocks nor opens nor closes anything.
LEMMA PlainThreadStep ==
  ASSUME ServerInv, NEW c \in Conn,
         \/ recv_line(c) \/ recv_end(c) \/ seek(c) \/ read(c) \/ return(c)
  PROVE  ServerInv'
<1>1. PICK from \in ThreadPlace, to \in ThreadPlace :
        /\ Thread(c, from, to)
        /\ from \notin {"none", "never", "done"} /\ to \notin {"none", "never", "start"}
        /\ from \in InFile <=> to \in InFile
        /\ \/ from \in {"returning"} /\ to = "done"
           \/ from \in InFile \cup {"recv"} /\ to \in InFile \cup {"lock_write", "clean_up"}
  BY DEF recv_line, recv_end, seek, read, return, ThreadPlace, InFile
<1>2. /\ UNCHANGED <<killed, file_mutex, thread_complete, acceptedsocket, file_fd>>
      /\ file_buffer' \in [Conn -> {"uninit", "alloc", "freed"}]
  BY DEF recv_line, recv_end, seek, read, return, owned, Set, ServerInv, TypeOK
<1>3. /\ thread[c] = from
      /\ thread' \in [Conn -> ThreadPlace]
      /\ \A d \in Conn : thread'[d] = IF d = c THEN to ELSE thread[d]
      /\ main' = main /\ UNCHANGED <<datap, head, elem, joined, caught_signal>>
  BY <1>1, ThreadMoves
<1>4. TypeOK'
  BY <1>2, <1>3 DEF ServerInv, TypeOK
<1>5. ListIsUnjoined' /\ NobodyRunsAtExit' /\ TakenIn' /\ LoopsInList' /\ ThroughIfJoined'
  BY <1>1, <1>2, ThreadList
<1>6. MutexDiscipline'
  BY <1>1, <1>2, <1>3 DEF ServerInv, MutexDiscipline
<1>7. ThroughIfFlagged'
  BY <1>1, <1>2, <1>3 DEF ServerInv, ThroughIfFlagged, InFile
<1>8. Resources'
  BY <1>1, <1>2, <1>3 DEF ServerInv, Resources, Holds, InFile
<1> QED BY <1>4, <1>5, <1>6, <1>7, <1>8 DEF ServerInv

\* Locking, and unlocking without leaving.
LEMMA LockThreadStep ==
  ASSUME ServerInv, NEW c \in Conn,
         write_lock(c) \/ write_to_file(c) \/ read_lock(c) \/ send(c)
  PROVE  ServerInv'
<1>1. PICK from \in ThreadPlace, to \in ThreadPlace :
        /\ Thread(c, from, to)
        /\ \/ /\ from \in {"lock_write", "lock_read"} /\ to \in InFile
              /\ file_mutex = NULL /\ file_mutex' = c
           \/ from \in InFile /\ to \in {"lock_read", "clean_up"} /\ file_mutex' = NULL
  BY DEF write_lock, write_to_file, read_lock, send, ThreadPlace, InFile
<1>2. UNCHANGED <<killed, thread_complete, acceptedsocket, file_fd, file_buffer>>
  BY DEF write_lock, write_to_file, read_lock, send, owned
<1>3. /\ thread[c] = from
      /\ thread' \in [Conn -> ThreadPlace]
      /\ \A d \in Conn : thread'[d] = IF d = c THEN to ELSE thread[d]
      /\ main' = main /\ UNCHANGED <<datap, head, elem, joined, caught_signal>>
  BY <1>1, ThreadMoves
<1>4. TypeOK'
  BY <1>1, <1>2, <1>3 DEF ServerInv, TypeOK
<1>5. ListIsUnjoined' /\ NobodyRunsAtExit' /\ TakenIn' /\ LoopsInList' /\ ThroughIfJoined'
  BY <1>1, <1>2, ThreadList DEF InFile
<1>6. MutexDiscipline'
  BY <1>1, <1>3, ConnAssumption DEF ServerInv, MutexDiscipline, InFile
<1>7. ThroughIfFlagged'
  BY <1>1, <1>2, <1>3 DEF ServerInv, ThroughIfFlagged, InFile
<1>8. Resources'
  BY <1>1, <1>2, <1>3 DEF ServerInv, Resources, Holds, InFile
<1> QED BY <1>4, <1>5, <1>6, <1>7, <1>8 DEF ServerInv

\* The thread opens the device, or gives up at once.
LEMMA StartThreadStep ==
  ASSUME ServerInv, NEW c \in Conn, start(c) \/ start_failed(c)
  PROVE  ServerInv'
<1>1. PICK to \in ThreadPlace :
        /\ Thread(c, "start", to)
        /\ \/ /\ to = "recv"
              /\ UNCHANGED <<acceptedsocket, thread_complete>>
              /\ file_fd' = Set(file_fd, c, "open")
           \/ /\ to = "returning"
              /\ UNCHANGED file_fd
              /\ acceptedsocket' = Set(acceptedsocket, c, Close(acceptedsocket[c]))
              /\ thread_complete' = Set(thread_complete, c, TRUE)
  BY DEF start, start_failed, ThreadPlace
<1>2. UNCHANGED <<killed, file_mutex, file_buffer>>
  BY DEF start, start_failed
<1>3. /\ thread[c] = "start"
      /\ thread' \in [Conn -> ThreadPlace]
      /\ \A d \in Conn : thread'[d] = IF d = c THEN to ELSE thread[d]
      /\ main' = main /\ UNCHANGED <<datap, head, elem, joined, caught_signal>>
  BY <1>1, ThreadMoves
<1>4. acceptedsocket[c] = "open" /\ file_fd[c] = "none"
  BY <1>3 DEF ServerInv, Resources, Holds
<1>5. TypeOK'
  BY <1>1, <1>2, <1>3 DEF ServerInv, TypeOK, Set, Close
<1>6. ListIsUnjoined' /\ NobodyRunsAtExit' /\ TakenIn' /\ LoopsInList' /\ ThroughIfJoined'
  <2>1. \A d \in Conn : /\ d # c => acceptedsocket'[d] = acceptedsocket[d]
                        /\ thread_complete[d] => thread_complete'[d]
    BY <1>1 DEF Set, ServerInv, TypeOK
  <2> QED BY <1>1, <2>1, ThreadList
<1>7. MutexDiscipline'
  BY <1>1, <1>2, <1>3 DEF ServerInv, MutexDiscipline, InFile
<1>8. ThroughIfFlagged'
  BY <1>1, <1>3 DEF ServerInv, ThroughIfFlagged, Set, TypeOK
<1>9. Resources'
  <2>1. \A d \in Conn : d # c => acceptedsocket'[d] = acceptedsocket[d] /\ file_fd'[d] = file_fd[d]
    BY <1>1 DEF Set, ServerInv, TypeOK
  <2>2. CASE to = "recv"
    <3>1. acceptedsocket'[c] = "open" /\ file_fd'[c] = "open"
      BY <1>1, <1>4, <2>2 DEF Set, ServerInv, TypeOK
    <3> QED BY <1>3, <2>1, <2>2, <3>1 DEF ServerInv, Resources, Holds, InFile
  <2>3. CASE to = "returning"
    <3>1. acceptedsocket'[c] = "closed" /\ file_fd'[c] = "none"
      BY <1>1, <1>4, <2>3 DEF Set, Close, ServerInv, TypeOK
    <3> QED BY <1>3, <2>1, <2>3, <3>1 DEF ServerInv, Resources, Holds, InFile
  <2> QED BY <1>1, <2>2, <2>3
<1> QED BY <1>5, <1>6, <1>7, <1>8, <1>9 DEF ServerInv

\* The ways out: the error returns, which give the mutex back, and the clean-up.
LEMMA LeaveThreadStep ==
  ASSUME ServerInv, NEW c \in Conn,
         (\E from \in {"seek", "read", "send"} : fail(c, from)) \/ clean_up(c)
  PROVE  ServerInv'
<1>1. PICK from \in ThreadPlace, to \in ThreadPlace :
        /\ Thread(c, from, to)
        /\ \/ /\ from \in InFile /\ to = "done"
              /\ file_mutex' = NULL /\ UNCHANGED thread_complete
           \/ /\ from = "clean_up" /\ to = "returning"
              /\ UNCHANGED file_mutex /\ thread_complete' = Set(thread_complete, c, TRUE)
  BY DEF fail, clean_up, ThreadPlace, InFile
<1>2. CloseBoth(c) /\ killed' \in BOOLEAN /\ file_buffer' \in [Conn -> {"uninit", "alloc", "freed"}]
  BY DEF fail, clean_up, Set, ServerInv, TypeOK
<1>3. /\ thread[c] = from
      /\ thread' \in [Conn -> ThreadPlace]
      /\ \A d \in Conn : thread'[d] = IF d = c THEN to ELSE thread[d]
      /\ main' = main /\ UNCHANGED <<datap, head, elem, joined, caught_signal>>
  BY <1>1, ThreadMoves
<1>4. acceptedsocket[c] = "open" /\ file_fd[c] = "open"
  BY <1>1, <1>3 DEF ServerInv, Resources, Holds
<1>5. /\ \A d \in Conn : acceptedsocket'[d] = IF d = c THEN "closed" ELSE acceptedsocket[d]
      /\ \A d \in Conn : file_fd'[d] = IF d = c THEN "closed" ELSE file_fd[d]
  BY <1>2, <1>4 DEF CloseBoth, Close, Set, ServerInv, TypeOK
<1>6. TypeOK'
  BY <1>1, <1>2, <1>3 DEF ServerInv, TypeOK, Set, Close, CloseBoth
<1>7. ListIsUnjoined' /\ NobodyRunsAtExit' /\ TakenIn' /\ LoopsInList' /\ ThroughIfJoined'
  <2>1. \A d \in Conn : thread_complete[d] => thread_complete'[d]
    BY <1>1 DEF Set, ServerInv, TypeOK
  <2> QED BY <1>1, <1>5, <2>1, ThreadList DEF InFile
<1>8. MutexDiscipline'
  BY <1>1, <1>3, ConnAssumption DEF ServerInv, MutexDiscipline, InFile
<1>9. ThroughIfFlagged'
  BY <1>1, <1>3 DEF ServerInv, ThroughIfFlagged, Set, TypeOK
<1>10. Resources'
  BY <1>1, <1>3, <1>5 DEF ServerInv, Resources, Holds, InFile
<1> QED BY <1>6, <1>7, <1>8, <1>9, <1>10 DEF ServerInv

\* SIGPIPE only ends the process.
LEMMA KilledStep ==
  ASSUME ServerInv, NEW c \in Conn, send_killed(c)
  PROVE  ServerInv'
BY DEF send_killed, list, owned, ServerInv, TypeOK, MutexDiscipline, ListIsUnjoined, InList,
   NobodyRunsAtExit, TakenIn, LoopsInList, ThroughIfFlagged, ThroughIfJoined, Resources, Holds
-------------------------------------------------------------------------------
(* The steps of main.                                                      *)

\* Steps of main that touch no connection and no list.
LEMMA PlainMainStep ==
  ASSUME ServerInv, startup \/ main_malloc \/ accept_error \/ accept_failed \/ signal_handler
  PROVE  ServerInv'
<1>1. /\ UNCHANGED <<datap, head, joined, killed, file_mutex, thread, thread_complete,
                     acceptedsocket, file_fd, file_buffer>>
      /\ elem' = elem \/ elem' = 1
      /\ caught_signal' \in BOOLEAN
  BY DEF startup, main_malloc, accept_error, accept_failed, signal_handler, list, owned,
     ServerInv, TypeOK
<1>2. \/ main' = main /\ elem' = elem
      \/ /\ main \in {"start", "malloc", "accept", "accept_failed"}
         /\ main' \in {"malloc", "failed", "accept", "accept_failed"}
      \/ main = "accept_failed" /\ main' = "cleanup" /\ elem' = 1
  BY DEF startup, main_malloc, accept_error, accept_failed, signal_handler, Main, list
<1>3. TypeOK'
  BY <1>1, <1>2 DEF ServerInv, TypeOK, MainPlace
<1>4. ListIsUnjoined'
  BY <1>1, <1>2, ListFacts, ListFactsNext DEF ServerInv
<1> QED
  BY <1>1, <1>2, <1>3, <1>4 DEF ServerInv, MutexDiscipline, NobodyRunsAtExit, TakenIn,
     LoopsInList, ThroughIfFlagged, ThroughIfJoined, Resources, Holds

\* A connection is taken in.
LEMMA AcceptStep ==
  ASSUME ServerInv, NEW c \in Conn, accept(c)
  PROVE  ServerInv'
<1>1. /\ main = "accept" /\ main' = "create" /\ datap' = c /\ acceptedsocket[c] = "none"
      /\ UNCHANGED <<head, elem, joined, caught_signal, killed, file_mutex, thread, file_fd,
                     file_buffer>>
      /\ \A d \in Conn : acceptedsocket'[d] = IF d = c THEN "open" ELSE acceptedsocket[d]
      /\ \A d \in Conn : thread_complete'[d] => thread_complete[d]
      /\ acceptedsocket' = Set(acceptedsocket, c, "open")
      /\ thread_complete' = Set(thread_complete, c, FALSE)
  BY DEF accept, Main, Set, list, ServerInv, TypeOK
<1>2. thread[c] = "none" /\ file_fd[c] = "none"
  BY <1>1 DEF ServerInv, Resources, Holds, TypeOK, ThreadPlace
<1>3. c \notin joined
  BY <1>2 DEF ServerInv, ThroughIfJoined
<1>4. TypeOK'
  BY <1>1 DEF ServerInv, TypeOK, MainPlace, Set
<1>5. ListIsUnjoined'
  BY <1>1, ListFacts, ListFactsNext DEF ServerInv
<1>6. TakenIn'
  BY <1>1, <1>2, <1>3 DEF TakenIn
<1>7. ThroughIfFlagged' /\ ThroughIfJoined' /\ MutexDiscipline'
  BY <1>1 DEF ServerInv, ThroughIfFlagged, ThroughIfJoined, MutexDiscipline
<1>8. NobodyRunsAtExit' /\ LoopsInList'
  BY <1>1 DEF NobodyRunsAtExit, LoopsInList
<1>9. Resources'
  BY <1>1, <1>2 DEF ServerInv, Resources, Holds, InFile
<1> QED BY <1>4, <1>5, <1>6, <1>7, <1>8, <1>9 DEF ServerInv

\* Its thread is created, or not.
LEMMA CreateStep ==
  ASSUME ServerInv, create
  PROVE  ServerInv'
<1>1. PICK r \in {"start", "never"} : thread' = Set(thread, datap, r)
  BY DEF create
<1>2. /\ main = "create" /\ main' = "insert"
      /\ UNCHANGED <<datap, head, elem, joined, caught_signal, killed, file_mutex,
                     thread_complete, acceptedsocket, file_fd, file_buffer>>
  BY DEF create, Main, list, owned
<1>3. /\ datap \in Conn /\ datap \notin joined
      /\ thread[datap] = "none" /\ acceptedsocket[datap] = "open"
  BY <1>2 DEF ServerInv, TakenIn
<1>4. \A d \in Conn : thread'[d] = IF d = datap THEN r ELSE thread[d]
  BY <1>1, <1>3 DEF Set, ServerInv, TypeOK
<1>5. TypeOK'
  BY <1>1, <1>2, <1>3 DEF ServerInv, TypeOK, MainPlace, ThreadPlace, Set
<1>6. ListIsUnjoined'
  BY <1>2, <1>3, <1>4, ListFacts, ListFactsNext DEF ServerInv
<1>7. TakenIn' /\ NobodyRunsAtExit' /\ LoopsInList'
  BY <1>2, <1>3, <1>4 DEF TakenIn, NobodyRunsAtExit, LoopsInList
<1>8. MutexDiscipline'
  BY <1>2, <1>3, <1>4 DEF ServerInv, MutexDiscipline, InFile
<1>9. ThroughIfFlagged' /\ ThroughIfJoined'
  BY <1>2, <1>3, <1>4 DEF ServerInv, ThroughIfFlagged, ThroughIfJoined, TypeOK
<1>10. Resources'
  BY <1>2, <1>3, <1>4 DEF ServerInv, Resources, Holds, InFile
<1> QED BY <1>5, <1>6, <1>7, <1>8, <1>9, <1>10 DEF ServerInv

\* It is put into the list, where it was not before.
LEMMA InsertStep ==
  ASSUME ServerInv, SLIST_INSERT_HEAD
  PROVE  ServerInv'
<1>1. /\ main = "insert" /\ main' = "scan" /\ head' = <<datap>> \o head /\ elem' = 1
      /\ UNCHANGED <<datap, joined, caught_signal, killed, file_mutex, thread,
                     thread_complete, acceptedsocket, file_fd, file_buffer>>
  BY DEF SLIST_INSERT_HEAD, Main, list, owned
<1>2. datap \in Conn /\ datap \notin joined /\ thread[datap] # "none"
  BY <1>1 DEF ServerInv, TakenIn
<1>3. head \in Seq(Conn)
  BY DEF ServerInv, TypeOK
<1>4. head' \in Seq(Conn) /\ Len(head') = Len(head) + 1 /\ Len(head) \in Nat
  BY <1>1, <1>2, <1>3, InsertHeadFacts
<1>5. TypeOK'
  BY <1>1, <1>4 DEF ServerInv, TypeOK, MainPlace
<1>6. ListIsUnjoined'
  <2>1. Distinct(head) /\ ~ElementOf(datap, head)
    BY <1>1, <1>2, ListFacts DEF ServerInv
  <2>2. Distinct(head') /\ \A c : ElementOf(c, head') <=> ElementOf(c, head) \/ c = datap
    BY <1>1, <1>2, <1>3, <2>1, InsertElement
  <2> QED BY <1>1, <1>2, <2>2, ListFacts, ListFactsNext DEF ServerInv
<1> QED
  BY <1>1, <1>5, <1>6 DEF ServerInv, TakenIn, NobodyRunsAtExit, LoopsInList, MutexDiscipline,
     ThroughIfFlagged, ThroughIfJoined, Resources, Holds

\* One turn of the loop over the list.
LEMMA ScanStep ==
  ASSUME ServerInv, scan
  PROVE  ServerInv'
<1>1. /\ main = "scan" /\ main' \in {"scan", "malloc", "join"}
      /\ elem' = elem \/ (elem' = elem + 1 /\ elem <= Len(head))
      /\ main' = "join" => elem' = elem /\ elem <= Len(head) /\ thread_complete[head[elem]]
      /\ UNCHANGED <<datap, head, joined, caught_signal, killed, file_mutex, thread,
                     thread_complete, acceptedsocket, file_fd, file_buffer>>
  <2>1. elem \in Nat /\ Len(head) \in Nat
    BY DEF ServerInv, TypeOK
  <2> QED BY <2>1 DEF scan, AtEnd, owned
<1>2. TypeOK'
  BY <1>1 DEF ServerInv, TypeOK, MainPlace
<1>3. ListIsUnjoined'
  BY <1>1, ListFacts, ListFactsNext DEF ServerInv
<1> QED
  BY <1>1, <1>2, <1>3 DEF ServerInv, TakenIn, NobodyRunsAtExit, LoopsInList, MutexDiscipline,
     ThroughIfFlagged, ThroughIfJoined, Resources, Holds

\* An element is joined and removed, in the loop or by list_cleanup.
LEMMA JoinStep ==
  ASSUME ServerInv, join \/ list_cleanup
  PROVE  ServerInv'
<1>1. /\ \/ main = "join" /\ main' = "scan"
         \/ main = "cleanup" /\ main' = "cleanup"
      /\ JoinElem /\ thread[head[elem]] \in {"never", "done"} /\ killed' \in BOOLEAN
      /\ UNCHANGED <<datap, caught_signal, file_mutex, thread, thread_complete,
                     acceptedsocket, file_fd, file_buffer>>
  BY DEF join, list_cleanup, Main, owned, ServerInv, TypeOK
<1>2. head \in Seq(Conn) /\ elem \in 1 .. Len(head)
  BY DEF join, list_cleanup, Main, AtEnd, ServerInv, TypeOK, LoopsInList
<1>3. head[elem] \in Conn
  BY <1>2
<1>4. /\ joined' = joined \cup {head[elem]} /\ head' = RemoveAt(head, elem) /\ elem' = elem
  BY <1>1 DEF JoinElem
<1>5. head' \in Seq(Conn) /\ Len(head') = Len(head) - 1
  BY <1>2, <1>4, RemoveAtFacts
<1>6. TypeOK'
  BY <1>1, <1>2, <1>3, <1>4, <1>5 DEF ServerInv, TypeOK, MainPlace
<1>7. ListIsUnjoined'
  <2>1. /\ Distinct(head')
        /\ \A c : ElementOf(c, head') <=> ElementOf(c, head) /\ c # head[elem]
    BY <1>2, <1>4, RemoveElement, ListFacts DEF ServerInv
  <2> QED BY <1>1, <1>4, <2>1, ListFacts, ListFactsNext DEF ServerInv
<1>8. ThroughIfJoined'
  BY <1>1, <1>4 DEF ServerInv, ThroughIfJoined
<1>9. TakenIn' /\ NobodyRunsAtExit' /\ LoopsInList'
  BY <1>1, <1>4 DEF ServerInv, TakenIn, NobodyRunsAtExit, LoopsInList
<1> QED
  BY <1>1, <1>6, <1>7, <1>8, <1>9 DEF ServerInv, MutexDiscipline, ThroughIfFlagged, Resources, Holds

\* The list is empty when list_cleanup has come to its end, so every thread has
\* been joined, and nobody owns the mutex that is destroyed.
LEMMA ExitStep ==
  ASSUME ServerInv, main_exit
  PROVE  ServerInv'
<1>1. /\ main = "cleanup" /\ main' = "exited" /\ file_mutex' = "destroyed" /\ elem > Len(head)
      /\ UNCHANGED <<datap, head, elem, joined, caught_signal, killed, thread, thread_complete,
                     acceptedsocket, file_fd, file_buffer>>
  BY DEF main_exit, Main, AtEnd, list, owned
<1>2. Len(head) = 0
  BY <1>1 DEF ServerInv, LoopsInList, TypeOK
<1>3. \A c \in Conn : ~ElementOf(c, head)
  BY <1>2 DEF ElementOf
<1>4. \A c \in Conn : thread[c] \in {"none", "never", "done"}
  BY <1>1, <1>3, ListFacts DEF ServerInv, ThroughIfJoined
<1>5. TypeOK'
  BY <1>1 DEF ServerInv, TypeOK, MainPlace
<1>6. ListIsUnjoined'
  BY <1>1, ListFacts, ListFactsNext DEF ServerInv
<1>7. MutexDiscipline'
  BY <1>1, <1>4, ConnAssumption DEF MutexDiscipline, InFile
<1> QED
  BY <1>1, <1>4, <1>5, <1>6, <1>7 DEF ServerInv, TakenIn, NobodyRunsAtExit, LoopsInList,
     ThroughIfFlagged, ThroughIfJoined, Resources, Holds
-------------------------------------------------------------------------------
(* The theorems.                                                           *)

\* The initial state.
LEMMA ServerInit == Init => ServerInv
<1> SUFFICES ASSUME Init PROVE ServerInv
  OBVIOUS
<1>1. TypeOK
  <2>1. head \in Seq(Conn) /\ Len(head) = 0
    BY DEF Init
  <2>2. elem \in 1 .. Len(head) + 1
    BY <2>1 DEF Init
  <2>3. thread_complete \in [Conn -> BOOLEAN] /\ caught_signal \in BOOLEAN /\ killed \in BOOLEAN
    BY DEF Init
  <2>4. /\ main \in MainPlace /\ datap \in Conn \cup {NULL} /\ joined \subseteq Conn
        /\ file_mutex \in Conn \cup {NULL, "destroyed"}
    BY DEF Init, MainPlace
  <2>5. /\ thread \in [Conn -> ThreadPlace]
        /\ acceptedsocket \in [Conn -> {"none", "open", "closed", "twice"}]
        /\ file_fd \in [Conn -> {"none", "open", "closed", "twice"}]
        /\ file_buffer \in [Conn -> {"uninit", "alloc", "freed"}]
    BY DEF Init, ThreadPlace
  <2> QED BY <2>1, <2>2, <2>3, <2>4, <2>5 DEF TypeOK
<1>2. ListIsUnjoined
  <2>1. Len(head) = 0
    BY DEF Init
  <2> QED BY <2>1 DEF Init, ListIsUnjoined, InList
<1> QED
  BY <1>1, <1>2, ConnAssumption
     DEF Init, ServerInv, MutexDiscipline, InFile, NobodyRunsAtExit, TakenIn, LoopsInList,
         ThroughIfFlagged, ThroughIfJoined, Resources, Holds

\* The inductive invariant of the server, for any number of connections, any
\* order of their threads' steps and a signal at any moment.
THEOREM ServerInvariant == Spec => []ServerInv
<1>1. ServerInv /\ [Next]_vars => ServerInv'
  <2> SUFFICES ASSUME ServerInv, [Next]_vars PROVE ServerInv'
    OBVIOUS
  <2>1. CASE UNCHANGED vars
    BY <2>1 DEF vars, list, owned, ServerInv, TypeOK, MutexDiscipline, ListIsUnjoined, InList,
       NobodyRunsAtExit, TakenIn, LoopsInList, ThroughIfFlagged, ThroughIfJoined, Resources, Holds
  <2>2. CASE MainStep \/ accept_error \/ signal_handler
    BY <2>2, PlainMainStep, CreateStep, InsertStep, ScanStep, JoinStep, ExitStep DEF MainStep
  <2>3. ASSUME NEW c \in Conn, ThreadStep(c) \/ ClientStep(c)
        PROVE  ServerInv'
    BY <2>3, PlainThreadStep, LockThreadStep, StartThreadStep, LeaveThreadStep, KilledStep,
       AcceptStep DEF ThreadStep, ClientStep
  <2> QED BY <2>1, <2>2, <2>3 DEF Next
<1> QED BY <1>1, ServerInit, PTL DEF Spec

\* file_mutex belongs to the thread that works on the device or sends its
\* reply; no way out of handle_connection or write_to_file keeps it.
THEOREM MutexDisciplineCorrect == Spec => []MutexDiscipline
BY ServerInvariant, PTL DEF ServerInv

\* The list is exactly the threads that are still to be joined, each once,
\* however joins, insertions and returning threads interleave.
THEOREM ListIsUnjoinedCorrect == Spec => []ListIsUnjoined
BY ServerInvariant, PTL DEF ServerInv

\* No thread is in handle_connection when main destroys file_mutex and exits.
THEOREM NobodyRunsAtExitCorrect == Spec => []NobodyRunsAtExit
BY ServerInvariant, PTL DEF ServerInv

\* Every way out of handle_connection closes the socket and the device, and
\* none closes one of them a second time.
THEOREM ClosesOnceCorrect == Spec => []ClosesOnce
<1>1. ServerInv => ClosesOnce
  BY DEF ServerInv, ClosesOnce, Resources, Holds, TypeOK, ThreadPlace, InFile
<1> QED BY <1>1, ServerInvariant, PTL

\* The join in the accept loop waits at most for a thread to return.
THEOREM JoinNeverWaitsCorrect == Spec => []JoinNeverWaits
<1>1. ServerInv => JoinNeverWaits
  <2> SUFFICES ASSUME ServerInv, main = "join" PROVE thread[head[elem]] \in {"returning", "done"}
    BY DEF JoinNeverWaits
  <2>1. head[elem] \in Conn /\ thread_complete[head[elem]]
    BY DEF ServerInv, LoopsInList, TypeOK
  <2> QED BY <2>1 DEF ServerInv, ThroughIfFlagged
<1> QED BY <1>1, ServerInvariant, PTL
===============================================================================
