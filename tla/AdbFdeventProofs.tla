-------------------------- MODULE AdbFdeventProofs --------------------------
(***************************************************************************)
(* The tables of the event loop, AdbFdevent, for every number of fdevents  *)
(* and descriptors: fd_table, the fd_sets and the pending list stay in     *)
(* step whatever callbacks install and remove.                             *)
(*                                                                         *)
(* InSync is not inductive alone.  A new descriptor must not be that of a  *)
(* registered fdevent, so those must be open; the shell-exit socket must   *)
(* have something to read when its callback runs; and half of the table's  *)
(* order must survive even a descriptor that another thread has closed, or *)
(* the pending list would get an fdevent that is not registered.  CopyInv  *)
(* follows the copies of the fd_sets through select().                     *)
(***************************************************************************)
EXTENDS AdbFdevent, LinkedLists, TLAPS

\* Even when a registered descriptor was closed elsewhere: an entry of
\* fd_table is an active fdevent with that number.
TableInv ==
    loop # "abort" \/ ~stolen =>
        \A n \in Fd : fd_table[n] # "none" =>
            fd_table[n] \in active /\ fd[fd_table[n]] = n

\* What InSync says of each active fdevent, and that its descriptor is open.
FdeInv ==
    ~stolen =>
        \A f \in active : /\ fd_table[fd[f]] = f
                          /\ fd[f] < select_n
                          /\ fd[f] \in open

SetsInv ==
    ~stolen => \A e \in Event :
        fds[e] = {fd[f] : f \in {g \in active : e \in want[g]}}

\* The shell-exit socket keeps its descriptor, which is ready only to be read
\* and only while an exit is to be handled.
NotifyInv ==
    /\ Notify \in active /\ fd[Notify] \in open
    /\ \A f \in active : f # Notify => fd[f] # fd[Notify]
    /\ \A e \in Event : fd[Notify] \in ready[e] => e = "READ" /\ exits # <<>>
    /\ Notify \in pending => exits # <<>>

\* What PendingListed says, as long as calls of fdevent.c are steps.
PendingInv ==
    loop # "abort" =>
        /\ IsInjective(list) /\ ToSet(list) = pending
        /\ pending \subseteq active
        /\ \A f \in All : f \in pending <=> events[f] # {}

LoopInv ==
    /\ TypeOK /\ TableInv /\ FdeInv /\ SetsInv /\ NotifyInv /\ PendingInv

\* What select() is asked for and returns is registered, unless a socket was
\* swept or a descriptor closed in the meantime; of the shell-exit socket it
\* returns only that there is an exit to read.  No callback runs meanwhile.
CopyInv ==
    /\ loop \in {"select", "asleep", "report"} => current = "none"
    /\ loop = "report" =>
          \A e \in Event : fd[Notify] \in copy[e] => exits # <<>>
    /\ loop \in {"asleep", "report"} /\ ~stolen /\ swept = "no" =>
          \A e \in Event : \A n \in copy[e] : fd_table[n] # "none"
    /\ loop = "abort" /\ ~stolen => swept # "no"

-----------------------------------------------------------------------------
(* The pending list. *)

\* fdevent_plist_remove() takes out one entry.
LEMMA PlistRemove ==
  ASSUME NEW S, NEW s \in Seq(S), NEW P, Links(s, P), NEW f \in P
  PROVE  /\ fdevent_plist_remove(s, f) \in Seq(S)
         /\ Links(fdevent_plist_remove(s, f), P \ {f})
BY WithoutLinks DEF fdevent_plist_remove, Without

\* The loop over the descriptors meets an fdevent once.
LEMMA ByNumberLinks ==
  ASSUME TypeOK, NEW S, S \subseteq All, NEW s \in ByNumber(S)
  PROVE  s \in Seq(All) /\ Links(s, S)
<1>1. PICK n \in Nat : s \in [1..n -> S]
  <2>1. PICK n \in 0..Cardinality(S) : s \in [1..n -> S]
    BY DEF ByNumber, SeqOf
  <2> QED BY <2>1
<1>2. s \in Seq(All) /\ DOMAIN s \subseteq Nat
  BY <1>1
<1>3. /\ ToSet(s) = S
      /\ \A i, j \in DOMAIN s : i < j => fd[s[i]] < fd[s[j]]
  BY DEF ByNumber
<1>4. \A i \in DOMAIN s : fd[s[i]] \in Nat
  BY <1>1, FdesAssumption DEF TypeOK, Fd
<1>5. IsInjective(s)
  <2> SUFFICES ASSUME NEW a \in DOMAIN s, NEW b \in DOMAIN s, s[a] = s[b], a # b
               PROVE  FALSE
    BY DEF IsInjective
  <2>1. a < b \/ b < a
    BY <1>2
  <2> QED BY <1>3, <1>4, <2>1
<1> QED BY <1>2, <1>3, <1>5 DEF Links

-----------------------------------------------------------------------------
(* The steps. *)

\* What TypeOK says of each variable, and PendingInv of the list.
LEMMA Linked ==
  ASSUME LoopInv, loop # "abort"
  PROVE  /\ list \in Seq(All) /\ Links(list, pending) /\ pending \subseteq active
         /\ \A f \in All : f \in pending <=> events[f] # {}
BY DEF LoopInv, TypeOK, PendingInv, Links

\* The descriptors of the active fdevents differ.
LEMMA Distinct ==
  ASSUME LoopInv, ~stolen, NEW f \in active, NEW g \in active, fd[f] = fd[g]
  PROVE  f = g
BY DEF LoopInv, FdeInv

LEMMA Asked ==
  ASSUME SetsInv, ~stolen, NEW e \in Event, NEW n
  PROVE  n \in fds[e] <=> \E g \in active : e \in want[g] /\ fd[g] = n
BY DEF SetsInv

\* fdevent_set() on behalf of fdevent_add() or fdevent_del().
LEMMA SetStep ==
  ASSUME LoopInv, loop # "abort", NEW f \in active, f # Notify,
         NEW e \in SUBSET Event, fdevent_set(f, e),
         UNCHANGED <<table, current, loop, copy, ready, shells, stolen>>,
         swept' \in {"no", "asleep", "raced"}
  PROVE  LoopInv'
<1>1. CASE want[f] = e
  <2>1. /\ UNCHANGED <<fd, active, pending, want, events, force_eof, fd_table, select_n>>
        /\ UNCHANGED <<fds, list, current, loop, copy, open, ready, exits, waiting>>
        /\ UNCHANGED stolen
    BY <1>1 DEF fdevent_set, table, shells
  <2> QED BY <2>1 DEF LoopInv, TypeOK, TableInv, FdeInv, SetsInv, NotifyInv,
                      PendingInv
<1>2. CASE want[f] # e
  <2>1. /\ fdevent_update(f, e)
        /\ want' = [want EXCEPT ![f] = e]
        /\ IF f \in pending
           THEN /\ events' = [events EXCEPT ![f] = Unasked(f, e)]
                /\ pending' = IF Unasked(f, e) = {} THEN pending \ {f} ELSE pending
                /\ list' = IF Unasked(f, e) = {} THEN fdevent_plist_remove(list, f)
                           ELSE list
           ELSE UNCHANGED <<events, pending, list>>
    BY <1>2 DEF fdevent_set
  <2>2. /\ UNCHANGED <<fd, active, force_eof, fd_table, select_n, open>>
        /\ UNCHANGED <<current, loop, copy, ready, exits, waiting, stolen>>
    BY DEF table, shells
  <2>3. f \in All /\ fd[f] \in Fd /\ active \subseteq All
    BY DEF LoopInv, TypeOK
  <2>4. Unasked(f, e) \in SUBSET Event
    BY <2>3 DEF LoopInv, TypeOK, Unasked
  <2>5. /\ list' \in Seq(All) /\ Links(list', pending') /\ pending' \subseteq active
        /\ pending' \subseteq pending
        /\ events' \in [All -> SUBSET Event]
        /\ \A g \in All : g \in pending' <=> events'[g] # {}
    <3>1. /\ list \in Seq(All) /\ Links(list, pending) /\ pending \subseteq active
          /\ \A g \in All : g \in pending <=> events[g] # {}
      BY Linked
    <3>2. events \in [All -> SUBSET Event]
      BY DEF LoopInv, TypeOK
    <3>3. CASE f \notin pending
      BY <2>1, <3>1, <3>2, <3>3
    <3>4. CASE f \in pending /\ Unasked(f, e) # {}
      BY <2>1, <2>3, <2>4, <3>1, <3>2, <3>4
    <3>5. CASE f \in pending /\ Unasked(f, e) = {}
      <4>1. /\ fdevent_plist_remove(list, f) \in Seq(All)
            /\ Links(fdevent_plist_remove(list, f), pending \ {f})
        BY <3>1, <3>5, PlistRemove
      <4>2. /\ list' = fdevent_plist_remove(list, f) /\ pending' = pending \ {f}
            /\ events' = [events EXCEPT ![f] = {}]
        BY <2>1, <3>5
      <4> QED BY <2>3, <3>1, <3>2, <4>1, <4>2
    <3> QED BY <3>3, <3>4, <3>5
  <2>6. want' \in [All -> SUBSET Event]
    BY <2>1, <2>3 DEF LoopInv, TypeOK
  <2>7. fds' \in [Event -> SUBSET Fd]
    BY <2>1, <2>3 DEF LoopInv, TypeOK, fdevent_update
  <2>8. pending' \subseteq All
    BY <2>5 DEF LoopInv, TypeOK
  <2>9. TypeOK'
    BY <2>2, <2>5, <2>6, <2>7, <2>8 DEF LoopInv, TypeOK
  <2>10. SetsInv'
    <3> SUFFICES ASSUME ~stolen, NEW x \in Event
                 PROVE  fds'[x] = {fd[g] : g \in {h \in active : x \in want'[h]}}
      BY <2>2 DEF SetsInv
    <3>1. \A n : n \in fds[x] <=> \E g \in active : x \in want[g] /\ fd[g] = n
      BY Asked DEF LoopInv
    <3>2. \A g \in active : fd[g] = fd[f] => g = f
      BY Distinct
    <3>3. fds'[x] = IF x \in e THEN fds[x] \cup {fd[f]} ELSE fds[x] \ {fd[f]}
      BY <2>1 DEF fdevent_update
    <3>4. \A g \in active : want'[g] = IF g = f THEN e ELSE want[g]
      BY <2>1, <2>3 DEF LoopInv, TypeOK
    <3>5. \A n : n \in fds'[x] <=> \E g \in active : x \in want'[g] /\ fd[g] = n
      BY <3>1, <3>2, <3>3, <3>4
    <3> HIDE <3>1, <3>2, <3>3, <3>4
    <3> QED BY <3>5
  <2>11. TableInv' /\ FdeInv'
    BY <2>2 DEF LoopInv, TableInv, FdeInv
  <2>12. NotifyInv'
    BY <2>2, <2>5 DEF LoopInv, NotifyInv
  <2>13. PendingInv'
    BY <2>2, <2>5 DEF PendingInv, Links
  <2> QED BY <2>9, <2>10, <2>11, <2>12, <2>13 DEF LoopInv
<1> QED BY <1>1, <1>2

LEMMA InstallStep ==
  ASSUME LoopInv, loop # "abort", NEW f \in Fdes, NEW n \in Fd, fdevent_install(f, n)
  PROVE  LoopInv'
<1>1. /\ f \notin active /\ n \notin open
      /\ open' = open \cup {n}
      /\ fd' = [fd EXCEPT ![f] = n]
      /\ active' = active \cup {f}
      /\ want' = [want EXCEPT ![f] = {}]
      /\ events' = [events EXCEPT ![f] = {}]
      /\ force_eof' = force_eof \ {f}
      /\ fd_table' = [fd_table EXCEPT ![n] = f]
      /\ select_n' = fdevent_connect(n)
      /\ UNCHANGED <<pending, fds, list, current, loop, copy, ready, exits, stolen, swept>>
  BY DEF fdevent_install, other
<1>2. f \in All /\ f # Notify /\ f # "none" /\ active \subseteq All
  BY FdesAssumption DEF LoopInv, TypeOK, All
<1>3. waiting' \in Seq(Fd)
  <2>1. waiting \in Seq(Fd)
    BY DEF LoopInv, TypeOK
  <2>2. Append(waiting, n) \in Seq(Fd)
    BY <2>1
  <2>3. waiting' = IF f \in Shells THEN Append(waiting, n) ELSE waiting
    BY DEF fdevent_install
  <2> QED BY <2>1, <2>2, <2>3
<1>4. select_n' \in 1..MaxFd + 1 /\ n < select_n' /\ select_n <= select_n'
  BY <1>1, FdesAssumption DEF LoopInv, TypeOK, Fd, fdevent_connect
<1>5. /\ fd \in [All -> Fd] /\ want \in [All -> SUBSET Event]
      /\ events \in [All -> SUBSET Event] /\ fd_table \in [Fd -> All \cup {"none"}]
      /\ open \subseteq Fd
  BY DEF LoopInv, TypeOK
<1>6. /\ fd' \in [All -> Fd] /\ want' \in [All -> SUBSET Event]
      /\ events' \in [All -> SUBSET Event] /\ fd_table' \in [Fd -> All \cup {"none"}]
      /\ open' \subseteq Fd /\ active' \subseteq All
      /\ fd'[f] = n /\ want'[f] = {} /\ events'[f] = {} /\ fd_table'[n] = f
      /\ \A g \in All : g # f => fd'[g] = fd[g] /\ want'[g] = want[g] /\ events'[g] = events[g]
      /\ \A m \in Fd : m # n => fd_table'[m] = fd_table[m]
  BY <1>1, <1>2, <1>5
<1>7. TypeOK'
  <2>1. force_eof' \subseteq Fdes
    BY <1>1 DEF LoopInv, TypeOK
  <2>2. /\ pending' \subseteq All /\ fds' \in [Event -> SUBSET Fd] /\ list' \in Seq(All)
        /\ current' \in Fdes \cup {"none"}
        /\ loop' \in {"select", "asleep", "report", "dispatch", "abort"}
        /\ copy' \in [Event -> SUBSET Fd]
        /\ ready' \in [Event -> SUBSET Fd] /\ exits' \in Seq(Fd) /\ stolen' \in BOOLEAN
        /\ swept' \in {"no", "asleep", "raced"}
    BY <1>1 DEF LoopInv, TypeOK
  <2> QED BY <1>3, <1>4, <1>6, <2>1, <2>2 DEF TypeOK
<1>8. TableInv'
  <2> SUFFICES ASSUME NEW m \in Fd, fd_table'[m] # "none"
               PROVE  fd_table'[m] \in active' /\ fd'[fd_table'[m]] = m
    BY DEF TableInv
  <2>1. CASE m = n
    BY <1>1, <1>6, <2>1
  <2>2. CASE m # n
    <3>1. fd_table'[m] = fd_table[m] /\ fd_table[m] \in active /\ fd[fd_table[m]] = m
      BY <1>6, <2>2 DEF LoopInv, TableInv
    <3> QED BY <1>1, <1>2, <1>6, <3>1
  <2> QED BY <2>1, <2>2
<1>9. FdeInv'
  <2> SUFFICES ASSUME ~stolen, NEW g \in active'
               PROVE  fd_table'[fd'[g]] = g /\ fd'[g] < select_n' /\ fd'[g] \in open'
    <3>1. stolen' = stolen
      BY <1>1
    <3> QED BY <3>1 DEF FdeInv
  <2>1. CASE g = f
    BY <1>1, <1>4, <1>6, <2>1
  <2>2. CASE g # f
    <3>1. g \in active /\ g \in All /\ fd'[g] = fd[g]
      BY <1>1, <1>2, <1>6, <2>2
    <3>2. fd_table[fd[g]] = g /\ fd[g] < select_n /\ fd[g] \in open
      BY <3>1 DEF LoopInv, FdeInv
    <3>3. fd[g] \in Fd /\ fd[g] # n /\ fd_table'[fd[g]] = g
      BY <1>1, <1>5, <1>6, <3>1, <3>2
    <3>4. fd[g] < select_n'
      <4>1. fd[g] \in Nat /\ select_n \in Nat /\ select_n' \in Nat
        BY <1>4, <3>3, FdesAssumption DEF LoopInv, TypeOK, Fd
      <4> QED BY <1>4, <3>2, <4>1
    <3> QED BY <1>1, <3>1, <3>2, <3>3, <3>4
  <2> QED BY <2>1, <2>2
<1>10. SetsInv'
  <2> SUFFICES ASSUME ~stolen, NEW x \in Event
               PROVE  fds[x] = {fd'[g] : g \in {h \in active' : x \in want'[h]}}
    BY <1>1 DEF SetsInv
  <2>1. \A k : k \in fds[x] <=> \E g \in active : x \in want[g] /\ fd[g] = k
    BY Asked DEF LoopInv
  <2>2. \A g \in active' : g # f => g \in active /\ fd'[g] = fd[g] /\ want'[g] = want[g]
    BY <1>1, <1>2, <1>6
  <2>3. \A g \in active : g \in active' /\ g # f
    BY <1>1
  <2>4. \A k : k \in fds[x] <=> \E g \in active' : x \in want'[g] /\ fd'[g] = k
    BY <1>6, <2>1, <2>2, <2>3
  <2> HIDE <2>1, <2>2, <2>3
  <2> QED BY <2>4
<1>11. NotifyInv'
  <2>1. Notify \in active /\ fd[Notify] \in open /\ Notify \in All /\ fd'[Notify] = fd[Notify]
    BY <1>2, <1>6 DEF LoopInv, NotifyInv, All
  <2>2. \A g \in active' : g # Notify => fd'[g] # fd[Notify]
    BY <1>1, <1>2, <1>6, <2>1 DEF LoopInv, NotifyInv
  <2>3. /\ \A e \in Event : fd[Notify] \in ready[e] => e = "READ" /\ exits # <<>>
        /\ Notify \in pending => exits # <<>>
    BY DEF LoopInv, NotifyInv
  <2> QED BY <1>1, <2>1, <2>2, <2>3 DEF NotifyInv
<1>12. PendingInv'
  <2>1. /\ Links(list, pending) /\ pending \subseteq active
        /\ \A g \in All : g \in pending <=> events[g] # {}
    BY Linked
  <2>2. \A g \in All : g \in pending <=> events'[g] # {}
    BY <1>1, <1>6, <2>1
  <2> QED BY <1>1, <2>1, <2>2 DEF PendingInv, Links
<1> QED BY <1>7, <1>8, <1>9, <1>10, <1>11, <1>12 DEF LoopInv

\* fdevent_remove(): the branch with FATAL() is taken only when a descriptor
\* was closed elsewhere, and then leaves fd_table as it was.
LEMMA RemoveStep ==
  ASSUME LoopInv, loop # "abort", NEW f \in Fdes, f \in active, RemoveFde(f),
         swept' \in {"no", "asleep", "raced"}
  PROVE  LoopInv'
<1>1. /\ f \in active /\ f # Notify
      /\ pending' = pending \ {f}
      /\ list' = IF f \in pending THEN fdevent_plist_remove(list, f) ELSE list
      /\ fds' = [x \in Event |-> fds[x] \ {fd[f]}]
      /\ select_n' \in 1..select_n /\ fdevent_disconnect(select_n')
      /\ UNCHANGED <<fd, force_eof, current, copy, exits, waiting, stolen>>
  BY FdesAssumption DEF RemoveFde, LeaveList, shells
<1>2. \/ /\ fd_table[fd[f]] = f
         /\ fd_table' = fdevent_unregister(f)
         /\ open' = open \ {fd[f]}
         /\ ready' = [x \in Event |-> ready[x] \ {fd[f]}]
         /\ active' = active \ {f}
         /\ want' = [want EXCEPT ![f] = {}]
         /\ events' = [events EXCEPT ![f] = {}]
         /\ UNCHANGED loop
      \/ /\ fd_table[fd[f]] # f
         /\ loop' = "abort"
         /\ UNCHANGED <<fd_table, open, ready, active, want, events>>
  BY DEF RemoveFde
<1>3. /\ fd \in [All -> Fd] /\ want \in [All -> SUBSET Event]
      /\ events \in [All -> SUBSET Event] /\ fd_table \in [Fd -> All \cup {"none"}]
      /\ open \subseteq Fd /\ active \subseteq All /\ f \in All
      /\ fds \in [Event -> SUBSET Fd] /\ ready \in [Event -> SUBSET Fd]
      /\ select_n \in 1..MaxFd + 1
  BY DEF LoopInv, TypeOK, All
<1>4. /\ list \in Seq(All) /\ Links(list, pending) /\ pending \subseteq active
      /\ \A g \in All : g \in pending <=> events[g] # {}
  BY Linked
<1>5. list' \in Seq(All) /\ Links(list', pending \ {f})
  <2>1. CASE f \in pending
    BY <1>1, <1>4, <2>1, PlistRemove
  <2>2. CASE f \notin pending
    <3>1. pending \ {f} = pending
      BY <2>2
    <3> QED BY <1>1, <1>4, <2>2, <3>1
  <2> QED BY <2>1, <2>2
<1>6. select_n' \in 1..MaxFd + 1
  BY <1>1, <1>3, FdesAssumption
<1>7. fds' \in [Event -> SUBSET Fd] /\ \A x \in Event : fds'[x] = fds[x] \ {fd[f]}
  BY <1>1, <1>3
<1>8. CASE fd_table[fd[f]] # f
  <2>1. loop' = "abort" /\ UNCHANGED <<fd_table, open, ready, active, want, events>>
    BY <1>2, <1>8
  <2>2. stolen' /\ stolen
    BY <1>1, <1>8 DEF LoopInv, FdeInv, TypeOK
  <2>3. TypeOK'
    <3>1. /\ pending' \subseteq All /\ copy' \in [Event -> SUBSET Fd]
          /\ loop' \in {"select", "asleep", "report", "dispatch", "abort"}
      BY <1>1, <1>3, <1>4, <2>1 DEF LoopInv, TypeOK
    <3>2. /\ force_eof' \subseteq Fdes /\ current' \in Fdes \cup {"none"}
          /\ ready' \in [Event -> SUBSET Fd] /\ exits' \in Seq(Fd)
          /\ waiting' \in Seq(Fd) /\ stolen' \in BOOLEAN /\ fd' \in [All -> Fd]
      BY <1>1, <2>1 DEF LoopInv, TypeOK
    <3> QED BY <1>3, <1>5, <1>6, <1>7, <2>1, <3>1, <3>2 DEF TypeOK
  <2>4. NotifyInv'
    BY <1>1, <2>1 DEF LoopInv, NotifyInv
  <2> QED BY <2>1, <2>2, <2>3, <2>4
          DEF LoopInv, TableInv, FdeInv, SetsInv, PendingInv
<1>9. CASE fd_table[fd[f]] = f
  <2>1. /\ fd_table' = [fd_table EXCEPT ![fd[f]] = "none"]
        /\ open' = open \ {fd[f]}
        /\ ready' = [x \in Event |-> ready[x] \ {fd[f]}]
        /\ active' = active \ {f}
        /\ want' = [want EXCEPT ![f] = {}]
        /\ events' = [events EXCEPT ![f] = {}]
        /\ loop' = loop
    BY <1>2, <1>9 DEF fdevent_unregister
  <2>2. /\ want' \in [All -> SUBSET Event] /\ events' \in [All -> SUBSET Event]
        /\ fd_table' \in [Fd -> All \cup {"none"}] /\ open' \subseteq Fd
        /\ active' \subseteq All /\ fd[f] \in Fd
        /\ want'[f] = {} /\ events'[f] = {} /\ fd_table'[fd[f]] = "none"
        /\ \A g \in All : g # f => want'[g] = want[g] /\ events'[g] = events[g]
        /\ \A m \in Fd : m # fd[f] => fd_table'[m] = fd_table[m]
    BY <1>3, <2>1
  <2>3. ready' \in [Event -> SUBSET Fd] /\ \A x \in Event : ready'[x] = ready[x] \ {fd[f]}
    BY <1>3, <2>1
  <2>4. TypeOK'
    <3>1. /\ pending' \subseteq All /\ copy' \in [Event -> SUBSET Fd]
          /\ loop' \in {"select", "asleep", "report", "dispatch", "abort"}
      BY <1>1, <1>3, <1>4, <2>1 DEF LoopInv, TypeOK
    <3>2. /\ force_eof' \subseteq Fdes /\ current' \in Fdes \cup {"none"}
          /\ exits' \in Seq(Fd)
          /\ waiting' \in Seq(Fd) /\ stolen' \in BOOLEAN /\ fd' \in [All -> Fd]
      BY <1>1 DEF LoopInv, TypeOK
    <3> QED BY <1>5, <1>6, <1>7, <2>2, <2>3, <3>1, <3>2 DEF TypeOK
  <2>5. TableInv'
    <3> SUFFICES ASSUME NEW m \in Fd, fd_table'[m] # "none"
                 PROVE  fd_table'[m] \in active' /\ fd[fd_table'[m]] = m
      BY <1>1 DEF TableInv
    <3>1. m # fd[f] /\ fd_table'[m] = fd_table[m]
      BY <2>2
    <3>2. fd_table[m] \in active /\ fd[fd_table[m]] = m
      BY <3>1 DEF LoopInv, TableInv
    <3> QED BY <2>1, <3>1, <3>2
  <2>6. ASSUME ~stolen, NEW g \in active' 
        PROVE  fd_table'[fd[g]] = g /\ fd[g] < select_n' /\ fd[g] \in open'
    <3>1. g \in active /\ g # f /\ g \in All /\ fd[g] # fd[f] /\ fd[g] \in Fd
      BY <1>1, <1>3, <2>1, <2>6, Distinct
    <3>2. fd_table[fd[g]] = g /\ fd[g] < select_n /\ fd[g] \in open
      BY <2>6, <3>1 DEF LoopInv, FdeInv
    <3>3. fd[g] < select_n'
      BY <1>1, <1>3, <3>1, <3>2, FdesAssumption DEF fdevent_disconnect, All
    <3> QED BY <2>1, <2>2, <3>1, <3>2, <3>3
  <2>7. FdeInv'
    BY <1>1, <2>1, <2>6 DEF FdeInv
  <2>8. SetsInv'
    <3> SUFFICES ASSUME ~stolen, NEW x \in Event
                 PROVE  fds'[x] = {fd[g] : g \in {h \in active' : x \in want'[h]}}
      BY <1>1 DEF SetsInv
    <3>1. \A n : n \in fds[x] <=> \E g \in active : x \in want[g] /\ fd[g] = n
      BY Asked DEF LoopInv
    <3>2. \A g \in active : fd[g] = fd[f] => g = f
      BY <1>1, Distinct
    <3>3. \A g \in active' : g \in active /\ g # f /\ want'[g] = want[g]
      BY <1>3, <2>1, <2>2
    <3>4. \A g \in active : g # f => g \in active'
      BY <2>1
    <3>5. \A n : n \in fds'[x] <=> \E g \in active' : x \in want'[g] /\ fd[g] = n
      BY <1>7, <3>1, <3>2, <3>3, <3>4
    <3> HIDE <3>1, <3>2, <3>3, <3>4
    <3> QED BY <3>5
  <2>9. NotifyInv'
    <3>1. /\ Notify \in active /\ fd[Notify] \in open
          /\ \A g \in active : g # Notify => fd[g] # fd[Notify]
          /\ \A e \in Event : fd[Notify] \in ready[e] => e = "READ" /\ exits # <<>>
          /\ Notify \in pending => exits # <<>>
      BY DEF LoopInv, NotifyInv
    <3>2. fd[f] # fd[Notify]
      BY <1>1, <3>1
    <3>3. \A e \in Event : fd[Notify] \in ready'[e] => e = "READ" /\ exits # <<>>
      BY <2>3, <3>1
    <3> QED BY <1>1, <2>1, <3>1, <3>2, <3>3 DEF NotifyInv
  <2>10. PendingInv'
    <3>1. \A g \in All : g \in pending' <=> events'[g] # {}
      BY <1>1, <1>4, <2>2
    <3>2. pending' \subseteq active'
      BY <1>1, <1>4, <2>1
    <3> QED BY <1>1, <1>5, <3>1, <3>2 DEF PendingInv, Links
  <2> QED BY <2>4, <2>5, <2>7, <2>8, <2>9, <2>10 DEF LoopInv
<1> QED BY <1>8, <1>9

\* Only what select() would report changes.
LEMMA ReadyStep ==
  ASSUME LoopInv, ready' \in [Event -> SUBSET Fd],
         \A e \in Event : fd[Notify] \in ready'[e] => fd[Notify] \in ready[e],
         UNCHANGED <<table, pending, want, events, fds, list, current, loop, copy,
                     shells, other>>
  PROVE  LoopInv'
<1>1. /\ UNCHANGED <<fd, active, force_eof, fd_table, select_n, open, exits, waiting>>
      /\ UNCHANGED <<pending, want, events, fds, list, current, loop, copy, stolen, swept>>
  BY DEF table, shells, other
<1>2. TypeOK'
  BY <1>1 DEF LoopInv, TypeOK
<1>3. NotifyInv'
  BY <1>1 DEF LoopInv, NotifyInv
<1>4. TableInv' /\ FdeInv' /\ SetsInv' /\ PendingInv'
  BY <1>1 DEF LoopInv, TableInv, FdeInv, SetsInv, PendingInv
<1> QED BY <1>2, <1>3, <1>4 DEF LoopInv

LEMMA ExhaustStep ==
  ASSUME LoopInv, NEW e \in Event, Exhaust(e)
  PROVE  LoopInv'
<1>1. ready \in [Event -> SUBSET Fd]
  BY DEF LoopInv, TypeOK
<1>2. ready' = [ready EXCEPT ![e] = ready[e] \ {fd[current]}]
  BY DEF Exhaust
<1>3. /\ ready' \in [Event -> SUBSET Fd]
      /\ \A x \in Event : fd[Notify] \in ready'[x] => fd[Notify] \in ready[x]
  BY <1>1, <1>2
<1>4. UNCHANGED <<table, pending, want, events, fds, list, current, loop, copy,
                  shells, other>>
  BY DEF Exhaust
<1> QED BY <1>3, <1>4, ReadyStep

LEMMA KernelStep ==
  ASSUME LoopInv, NEW n \in Fd, NEW e \in Event, Ready(n, e)
  PROVE  LoopInv'
<1>1. ready \in [Event -> SUBSET Fd] /\ n # fd[Notify]
  BY DEF LoopInv, TypeOK, Ready
<1>2. ready' = [ready EXCEPT ![e] = ready[e] \cup {n}]
  BY DEF Ready
<1>3. /\ ready' \in [Event -> SUBSET Fd]
      /\ \A x \in Event : fd[Notify] \in ready'[x] => fd[Notify] \in ready[x]
  BY <1>1, <1>2
<1>4. UNCHANGED <<table, pending, want, events, fds, list, current, loop, copy,
                  shells, other>>
  BY DEF Ready
<1> QED BY <1>3, <1>4, ReadyStep

LEMMA ReturnStep ==
  ASSUME LoopInv, Return
  PROVE  LoopInv'
<1>1. /\ UNCHANGED <<fd, active, force_eof, fd_table, select_n, open, exits, waiting>>
      /\ UNCHANGED <<pending, want, events, fds, list, loop, copy, ready, stolen, swept>>
      /\ current' = "none"
  BY DEF Return, table, shells, other
<1>2. TypeOK'
  BY <1>1 DEF LoopInv, TypeOK
<1> QED BY <1>1, <1>2 DEF LoopInv, NotifyInv, TableInv, FdeInv, SetsInv, PendingInv

LEMMA EndStep ==
  ASSUME LoopInv, DispatchEnd
  PROVE  LoopInv'
<1>1. /\ UNCHANGED <<fd, active, force_eof, fd_table, select_n, open, exits, waiting>>
      /\ UNCHANGED <<pending, want, events, fds, list, current, copy, ready, stolen, swept>>
      /\ loop' = "select" /\ loop = "dispatch"
  BY DEF DispatchEnd, table, shells, other
<1>2. TypeOK'
  BY <1>1 DEF LoopInv, TypeOK
<1> QED BY <1>1, <1>2 DEF LoopInv, NotifyInv, TableInv, FdeInv, SetsInv, PendingInv

LEMMA StealStep ==
  ASSUME LoopInv, NEW n \in Fd, Steal(n)
  PROVE  LoopInv'
<1>1. /\ stolen' = TRUE /\ open' = open \ {n} /\ n # fd[Notify]
      /\ ready' = [x \in Event |-> ready[x] \ {n}]
      /\ UNCHANGED <<fd, active, force_eof, fd_table, select_n, pending, want, events>>
      /\ UNCHANGED <<fds, list, current, loop, copy, exits, waiting, swept>>
  BY DEF Steal, shells
<1>2. /\ ready' \in [Event -> SUBSET Fd] /\ open' \subseteq Fd
      /\ \A x \in Event : fd[Notify] \in ready'[x] => fd[Notify] \in ready[x]
  BY <1>1 DEF LoopInv, TypeOK
<1>3. TypeOK'
  BY <1>1, <1>2 DEF LoopInv, TypeOK
<1>4. NotifyInv'
  BY <1>1, <1>2 DEF LoopInv, NotifyInv
<1> QED BY <1>1, <1>3, <1>4 DEF LoopInv, TableInv, FdeInv, SetsInv, PendingInv

LEMMA WaiterStep ==
  ASSUME LoopInv, NEW i \in 1..MaxExits, subproc_waiter_service(i)
  PROVE  LoopInv'
<1>1. /\ i \in DOMAIN waiting
      /\ waiting' = RemoveAt(waiting, i)
      /\ exits' = Append(exits, waiting[i])
      /\ ready' = [ready EXCEPT !["READ"] = ready["READ"] \cup {fd[Notify]}]
      /\ UNCHANGED <<fd, active, force_eof, fd_table, select_n, open>>
      /\ UNCHANGED <<pending, want, events, fds, list, current, loop, copy, stolen, swept>>
  BY DEF subproc_waiter_service, table, other
<1>2. waiting \in Seq(Fd) /\ exits \in Seq(Fd)
  BY DEF LoopInv, TypeOK
<1>3. waiting[i] \in Fd
  BY <1>1, <1>2
<1>4. exits' \in Seq(Fd) /\ exits' # <<>>
  BY <1>1, <1>2, <1>3
<1>5. waiting' \in Seq(Fd)
  BY <1>1, <1>2, RemoveAtEach
<1>6. /\ ready' \in [Event -> SUBSET Fd]
      /\ \A e \in Event : fd[Notify] \in ready'[e] => e = "READ" \/ fd[Notify] \in ready[e]
  <2>1. ready \in [Event -> SUBSET Fd] /\ fd[Notify] \in Fd /\ "READ" \in Event
    BY DEF LoopInv, TypeOK, All, Event
  <2> QED BY <1>1, <2>1
<1>7. TypeOK'
  <2>1. /\ TypeOK
        /\ UNCHANGED <<fd, active, force_eof, fd_table, select_n, open>>
        /\ UNCHANGED <<pending, want, events, fds, list, current, loop, copy, stolen, swept>>
    BY <1>1 DEF LoopInv
  <2> QED BY <1>4, <1>5, <1>6, <2>1 DEF TypeOK
<1>8. NotifyInv'
  BY <1>1, <1>4, <1>6 DEF LoopInv, NotifyInv
<1> QED BY <1>1, <1>7, <1>8 DEF LoopInv, TableInv, FdeInv, SetsInv, PendingInv

LEMMA DispatchStep ==
  ASSUME LoopInv, NEW f \in Fdes, Dispatch(f)
  PROVE  LoopInv'
<1>1. /\ loop = "dispatch" /\ list # <<>> /\ f = Head(list) /\ f # Notify
      /\ list' = Tail(list) /\ pending' = pending \ {f}
      /\ events' = [events EXCEPT ![f] = {}]
      /\ current' = f
      /\ UNCHANGED <<fd, active, force_eof, fd_table, select_n, open>>
      /\ UNCHANGED <<want, fds, loop, copy, ready, exits, waiting, stolen, swept>>
  BY DEF Dispatch, table, shells, other
<1>2. /\ list \in Seq(All) /\ Links(list, pending) /\ pending \subseteq active
      /\ \A g \in All : g \in pending <=> events[g] # {}
  BY <1>1, Linked
<1>3. list' \in Seq(All) /\ Links(list', pending')
  BY <1>1, <1>2, TailLinks
<1>4. /\ events' \in [All -> SUBSET Event] /\ f \in All
      /\ \A g \in All : events'[g] = IF g = f THEN {} ELSE events[g]
  BY <1>1 DEF LoopInv, TypeOK, All
<1>5. TypeOK'
  <2>1. pending' \subseteq All
    BY <1>1 DEF LoopInv, TypeOK
  <2> QED BY <1>1, <1>3, <1>4, <2>1 DEF LoopInv, TypeOK
<1>6. PendingInv'
  <2>1. \A g \in All : g \in pending' <=> events'[g] # {}
    BY <1>1, <1>2, <1>4
  <2> QED BY <1>1, <1>2, <1>3, <2>1 DEF PendingInv, Links
<1>7. NotifyInv'
  BY <1>1 DEF LoopInv, NotifyInv
<1> QED BY <1>1, <1>5, <1>6, <1>7 DEF LoopInv, TableInv, FdeInv, SetsInv

\* What select() returns of the shell-exit socket stands for an exit to read.
LEMMA ReportedRight ==
  ASSUME LoopInv, CopyInv, loop = "report", NEW n \in Fd, Reported(n) # {}
  PROVE  /\ Reported(n) \in SUBSET Event
         /\ ~stolen /\ swept = "no" => fd_table[n] # "none"
         /\ n = fd[Notify] => exits # <<>>
<1>1. PICK e \in Event : n \in copy[e]
  BY DEF Reported
<1> QED BY <1>1 DEF CopyInv, Reported

\* select() is asked, and returns.
LEMMA SelectStep ==
  ASSUME LoopInv, NEW gone, Select \/ SelectReturns(gone)
  PROVE  LoopInv'
<1>1. /\ UNCHANGED <<fd, active, force_eof, fd_table, select_n, open, exits, waiting>>
      /\ UNCHANGED <<pending, want, events, fds, list, current, ready, stolen>>
      /\ loop # "abort" /\ loop' \in {"asleep", "report"}
      /\ swept' \in {"no", swept}
  BY DEF Select, SelectReturns, table, shells, other
<1>2. copy' \in [Event -> SUBSET Fd]
  <2>1. fds \in [Event -> SUBSET Fd] /\ copy \in [Event -> SUBSET Fd]
    BY DEF LoopInv, TypeOK
  <2>2. CASE Select
    BY <2>1, <2>2 DEF Select, FakeRead, BadFds
  <2>3. CASE SelectReturns(gone)
    BY <2>1, <2>3 DEF SelectReturns
  <2> QED BY <2>2, <2>3
<1>3. TypeOK'
  BY <1>1, <1>2 DEF LoopInv, TypeOK
<1> QED BY <1>1, <1>3 DEF LoopInv, NotifyInv, TableInv, FdeInv, SetsInv, PendingInv

LEMMA ProcessStep ==
  ASSUME LoopInv, CopyInv, fdevent_process
  PROVE  LoopInv'
<1> DEFINE found == {n \in Fd : Reported(n) # {}}
           hit == {fd_table[n] : n \in found} \ {"none"}
           new == hit \ pending
<1>1. /\ loop = "report"
      /\ UNCHANGED <<fd, active, force_eof, fd_table, select_n, open>>
      /\ UNCHANGED <<want, fds, current, ready, exits, waiting, stolen, swept>>
      /\ copy' \in [Event -> SUBSET Fd]
  BY DEF fdevent_process, table, shells, other
<1>2. \/ /\ \E n \in found : fd_table[n] = "none"
         /\ loop' = "abort"
         /\ UNCHANGED <<events, pending, list>>
      \/ /\ \A n \in found : fd_table[n] # "none"
         /\ loop' = "dispatch"
         /\ events' = [f \in All |-> IF f \in hit THEN events[f] \cup Reported(fd[f])
                                     ELSE events[f]]
         /\ pending' = pending \cup new
         /\ \E s \in ByNumber(new) : list' = list \o s
  BY DEF fdevent_process
<1>3. /\ list \in Seq(All) /\ Links(list, pending) /\ pending \subseteq active
      /\ \A g \in All : g \in pending <=> events[g] # {}
  BY <1>1, Linked
<1>4. \A f \in hit : f \in active /\ f \in All /\ fd[f] \in found
  <2> SUFFICES ASSUME NEW n \in found, fd_table[n] # "none"
               PROVE  fd_table[n] \in active /\ fd_table[n] \in All /\ fd[fd_table[n]] = n
    OBVIOUS
  <2> QED BY <1>1 DEF LoopInv, TableInv, TypeOK
<1>5. CASE \E n \in found : fd_table[n] = "none"
  <2>1. loop' = "abort" /\ UNCHANGED <<events, pending, list>>
    BY <1>2, <1>5
  <2>2. TypeOK'
    BY <1>1, <2>1 DEF LoopInv, TypeOK
  <2>3. NotifyInv'
    BY <1>1, <2>1 DEF LoopInv, NotifyInv
  <2> QED BY <1>1, <2>1, <2>2, <2>3
          DEF LoopInv, TableInv, FdeInv, SetsInv, PendingInv
<1>6. CASE ~ \E n \in found : fd_table[n] = "none"
  <2>1. /\ loop' = "dispatch"
        /\ events' = [f \in All |-> IF f \in hit THEN events[f] \cup Reported(fd[f])
                                    ELSE events[f]]
        /\ pending' = pending \cup new
        /\ \E s \in ByNumber(new) : list' = list \o s
    BY <1>2, <1>6
  <2>2. PICK s \in ByNumber(new) : list' = list \o s
    BY <2>1
  <2>3. /\ \A f \in hit : fd[f] \in Fd /\ Reported(fd[f]) # {} /\ Reported(fd[f]) \in SUBSET Event
        /\ Notify \in hit => exits # <<>>
    <3>1. \A f \in hit : fd[f] \in Fd /\ Reported(fd[f]) # {}
      BY <1>4
    <3> QED BY <1>1, <3>1, ReportedRight
  <2>4. new \subseteq All /\ hit \subseteq active
    BY <1>4
  <2>5. pending' = pending \cup hit
    BY <2>1
  <2> HIDE DEF hit, found
  <2>6. s \in Seq(All) /\ Links(s, new)
    <3>1. TypeOK /\ new \subseteq All
      BY <2>4 DEF LoopInv
    <3> HIDE DEF new
    <3> QED BY <2>2, <3>1, ByNumberLinks
  <2>7. list' \in Seq(All) /\ Links(list', pending')
    <3>1. pending \cap new = {} /\ pending' = pending \cup new
      BY <2>1
    <3> HIDE DEF new
    <3>2. list \o s \in Seq(All) /\ Links(list \o s, pending \cup new)
      BY <1>3, <2>6, <3>1, ConcatLinks
    <3> QED BY <2>2, <3>1, <3>2
  <2>8. events' \in [All -> SUBSET Event]
    <3>1. events \in [All -> SUBSET Event]
      BY DEF LoopInv, TypeOK
    <3> QED BY <2>1, <2>3, <3>1
  <2>9. \A g \in All : g \in pending' <=> events'[g] # {}
    BY <1>3, <2>1, <2>3, <2>5
  <2>10. pending' \subseteq active
    BY <1>3, <2>4, <2>5
  <2>11. TypeOK'
    <3>1. active \subseteq All /\ loop' = "dispatch"
      BY <2>1 DEF LoopInv, TypeOK
    <3>2. pending' \subseteq All
      BY <2>10, <3>1
    <3> QED BY <1>1, <2>7, <2>8, <3>1, <3>2 DEF LoopInv, TypeOK
  <2>12. NotifyInv'
    BY <1>1, <2>3, <2>5 DEF LoopInv, NotifyInv
  <2>13. PendingInv'
    BY <1>1, <2>7, <2>9, <2>10 DEF PendingInv, Links
  <2>14. TableInv' /\ FdeInv' /\ SetsInv'
    BY <1>1, <2>1 DEF LoopInv, TableInv, FdeInv, SetsInv
  <2> QED BY <2>11, <2>12, <2>13, <2>14 DEF LoopInv
<1> QED BY <1>5, <1>6

\* fdevent_subproc_event_func(), whatever the number it reads stands for.
LEMMA SubprocStep ==
  ASSUME LoopInv, Subproc
  PROVE  LoopInv'
<1> DEFINE n == Head(exits)
           g == fd_table[n]
           rest == Tail(exits)
           was == events[g] \cup {"READ"}
<1>1. /\ loop = "dispatch" /\ list # <<>> /\ Head(list) = Notify
      /\ exits' = rest
      /\ ready' = IF rest = <<>>
                  THEN [ready EXCEPT !["READ"] = ready["READ"] \ {fd[Notify]}] ELSE ready
      /\ list' = Tail(list)
      /\ pending' = pending \ {Notify}
      /\ UNCHANGED <<fd, active, fd_table, select_n, open, want, fds>>
      /\ UNCHANGED <<loop, copy, waiting, stolen, swept>>
  BY DEF Subproc, other
<1>2. \/ /\ events' = [events EXCEPT ![Notify] = {}]
         /\ UNCHANGED <<force_eof, current>>
      \/ /\ ~(g = "none" \/ g = Notify)
         /\ force_eof' = force_eof \cup {g}
         /\ \/ /\ events' = [events EXCEPT ![Notify] = {}]
               /\ UNCHANGED current
            \/ /\ g \in pending
               /\ events' = [events EXCEPT ![Notify] = {}, ![g] = was]
               /\ UNCHANGED current
            \/ /\ g \notin pending
               /\ events' = [events EXCEPT ![Notify] = {}, ![g] = {}]
               /\ current' = g
  BY DEF Subproc
<1>3. /\ list \in Seq(All) /\ Links(list, pending) /\ pending \subseteq active
      /\ \A h \in All : h \in pending <=> events[h] # {}
  BY <1>1, Linked
<1>4. list' \in Seq(All) /\ Links(list', pending') /\ Notify \in pending
  BY <1>1, <1>3, TailLinks
<1>5. exits \in Seq(Fd) /\ exits # <<>>
  BY <1>4 DEF LoopInv, NotifyInv, TypeOK
<1>6. n \in Fd /\ rest \in Seq(Fd)
  BY <1>5
<1> HIDE DEF n, rest
<1>7. g \in All \cup {"none"} /\ fd_table \in [Fd -> All \cup {"none"}]
  BY <1>6 DEF LoopInv, TypeOK
<1> HIDE DEF g
<1>8. /\ events \in [All -> SUBSET Event] /\ Notify \in All /\ "READ" \in Event
      /\ ready \in [Event -> SUBSET Fd] /\ force_eof \subseteq Fdes
      /\ current \in Fdes \cup {"none"} /\ pending \subseteq All
  BY DEF LoopInv, TypeOK, All, Event
<1>9. /\ events' \in [All -> SUBSET Event]
      /\ \A h \in All : h \in pending' <=> events'[h] # {}
      /\ force_eof' \subseteq Fdes /\ current' \in Fdes \cup {"none"}
  <2>1. CASE /\ events' = [events EXCEPT ![Notify] = {}]
             /\ UNCHANGED <<force_eof, current>>
    BY <1>1, <1>3, <1>8, <2>1
  <2>2. CASE /\ ~(g = "none" \/ g = Notify)
             /\ force_eof' = force_eof \cup {g}
             /\ \/ /\ events' = [events EXCEPT ![Notify] = {}]
                   /\ UNCHANGED current
                \/ /\ g \in pending
                   /\ events' = [events EXCEPT ![Notify] = {}, ![g] = was]
                   /\ UNCHANGED current
                \/ /\ g \notin pending
                   /\ events' = [events EXCEPT ![Notify] = {}, ![g] = {}]
                   /\ current' = g
    <3>1. g \in Fdes /\ g # Notify /\ g \in All
      BY <1>7, <2>2 DEF All
    <3>2. force_eof' \subseteq Fdes /\ current' \in Fdes \cup {"none"}
      BY <1>8, <2>2, <3>1
    <3>3. was \in SUBSET Event /\ was # {}
      BY <1>8, <3>1
    <3> HIDE DEF was
    <3>4. CASE events' = [events EXCEPT ![Notify] = {}]
      BY <1>1, <1>3, <1>8, <3>2, <3>4
    <3>5. CASE g \in pending /\ events' = [events EXCEPT ![Notify] = {}, ![g] = was]
      <4>1. /\ events' \in [All -> SUBSET Event]
            /\ \A h \in All : events'[h] = IF h = g THEN was
                                           ELSE IF h = Notify THEN {} ELSE events[h]
        BY <1>8, <3>1, <3>3, <3>5
      <4> QED BY <1>1, <1>3, <3>1, <3>2, <3>3, <3>5, <4>1
    <3>6. CASE g \notin pending /\ events' = [events EXCEPT ![Notify] = {}, ![g] = {}]
      <4>1. /\ events' \in [All -> SUBSET Event]
            /\ \A h \in All : events'[h] = IF h = g THEN {}
                                           ELSE IF h = Notify THEN {} ELSE events[h]
        BY <1>8, <3>1, <3>6
      <4> QED BY <1>1, <1>3, <3>1, <3>2, <3>6, <4>1
    <3> QED BY <2>2, <3>4, <3>5, <3>6
  <2> QED BY <1>2, <2>1, <2>2
<1>10. /\ ready' \in [Event -> SUBSET Fd]
       /\ \A e \in Event : fd[Notify] \in ready'[e] => fd[Notify] \in ready[e]
       /\ rest = <<>> => fd[Notify] \notin ready'["READ"]
  BY <1>1, <1>8
<1>11. TypeOK'
  <2>1. pending' \subseteq All /\ exits' \in Seq(Fd)
    BY <1>1, <1>6, <1>8
  <2>2. /\ UNCHANGED <<fd, active, fd_table, select_n, open, want, fds, loop, waiting>>
        /\ UNCHANGED <<copy, stolen, swept>>
    BY <1>1
  <2> QED BY <1>4, <1>9, <1>10, <2>1, <2>2 DEF LoopInv, TypeOK
<1>12. NotifyInv'
  <2>1. /\ Notify \in active /\ fd[Notify] \in open
        /\ \A h \in active : h # Notify => fd[h] # fd[Notify]
        /\ \A e \in Event : fd[Notify] \in ready[e] => e = "READ"
    BY DEF LoopInv, NotifyInv
  <2>2. \A e \in Event : fd[Notify] \in ready'[e] => e = "READ" /\ rest # <<>>
    BY <1>10, <2>1
  <2>3. Notify \notin pending'
    BY <1>1
  <2> QED BY <1>1, <2>1, <2>2, <2>3 DEF NotifyInv
<1>13. PendingInv'
  BY <1>1, <1>3, <1>4, <1>9 DEF PendingInv, Links
<1>14. TableInv' /\ FdeInv' /\ SetsInv'
  BY <1>1 DEF LoopInv, TableInv, FdeInv, SetsInv
<1> QED BY <1>11, <1>12, <1>13, <1>14 DEF LoopInv

LEMMA LoopInit == Init => LoopInv
<1> SUFFICES ASSUME Init PROVE LoopInv
  OBVIOUS
<1>1. PICK f \in Fdes \ Sockets :
         /\ fd = [g \in All |-> IF g = f THEN 1 ELSE 0]
         /\ active = {Notify, f}
         /\ pending = {}
         /\ want = [g \in All |-> IF g \in {Notify, f} THEN {"READ"} ELSE {}]
         /\ events = [g \in All |-> {}]
         /\ force_eof = {}
         /\ fd_table = [n \in Fd |-> IF n = 0 THEN Notify ELSE IF n = 1 THEN f ELSE "none"]
         /\ select_n = 2
         /\ fds = [e \in Event |-> IF e = "READ" THEN {0, 1} ELSE {}]
         /\ list = <<>>
         /\ current = "none"
         /\ loop = "select"
         /\ copy = [e \in Event |-> {}]
         /\ open = {0, 1}
         /\ ready = [e \in Event |-> {}]
         /\ exits = <<>>
         /\ waiting = <<>>
         /\ stolen = FALSE
         /\ swept = "no"
  BY DEF Init
<1>2. /\ f \in All /\ Notify \in All /\ f # Notify /\ f # "none" /\ Notify # "none"
      /\ 0 \in Fd /\ 1 \in Fd /\ MaxFd \in Nat /\ MaxFd >= 1
  BY FdesAssumption DEF All, Fd
<1>3. /\ fd[f] = 1 /\ fd[Notify] = 0 /\ fd_table[0] = Notify /\ fd_table[1] = f
      /\ want[f] = {"READ"} /\ want[Notify] = {"READ"}
      /\ \A n \in Fd : n # 0 /\ n # 1 => fd_table[n] = "none"
  BY <1>1, <1>2
<1>4. TypeOK
  <2>1. /\ fd \in [All -> Fd] /\ want \in [All -> SUBSET Event]
        /\ events \in [All -> SUBSET Event] /\ fd_table \in [Fd -> All \cup {"none"}]
        /\ fds \in [Event -> SUBSET Fd] /\ ready \in [Event -> SUBSET Fd]
        /\ copy \in [Event -> SUBSET Fd]
    BY <1>1, <1>2 DEF Event
  <2>2. /\ list \in Seq(All) /\ exits \in Seq(Fd) /\ waiting \in Seq(Fd)
        /\ select_n \in 1..MaxFd + 1
    BY <1>1, <1>2
  <2> QED BY <1>1, <1>2, <2>1, <2>2 DEF TypeOK
<1>5. TableInv
  BY <1>1, <1>2, <1>3 DEF TableInv
<1>6. FdeInv
  BY <1>1, <1>2, <1>3 DEF FdeInv
<1>7. SetsInv
  <2> SUFFICES ASSUME NEW e \in Event
               PROVE  fds[e] = {fd[h] : h \in {g \in active : e \in want[g]}}
    BY DEF SetsInv
  <2>1. \A n : n \in fds[e] <=> e = "READ" /\ (n = 0 \/ n = 1)
    BY <1>1
  <2>2. \A g \in active : (e \in want[g] <=> e = "READ") /\ (g = f \/ g = Notify)
    BY <1>1, <1>3
  <2>3. \A n : n \in fds[e] <=> \E g \in active : e \in want[g] /\ fd[g] = n
    BY <1>1, <1>3, <2>1, <2>2
  <2> HIDE <2>1, <2>2
  <2> QED BY <2>3
<1>8. NotifyInv
  BY <1>1, <1>2, <1>3 DEF NotifyInv
<1>9. PendingInv
  BY <1>1 DEF PendingInv, IsInjective, ToSet
<1> QED BY <1>4, <1>5, <1>6, <1>7, <1>8, <1>9 DEF LoopInv

LEMMA LoopNext == LoopInv /\ CopyInv /\ [Next]_vars => LoopInv'
<1> SUFFICES ASSUME LoopInv, CopyInv, [Next]_vars PROVE LoopInv'
  OBVIOUS
<1>1. CASE UNCHANGED vars
  BY <1>1 DEF vars, LoopInv, TypeOK, TableInv, FdeInv, SetsInv, NotifyInv, PendingInv
<1>2. ASSUME loop # "abort", NEW f \in Fdes, NEW e \in Event,
             fdevent_add(f, e) \/ fdevent_del(f, e)
      PROVE  LoopInv'
  <2>1. PICK w \in {want[f] \cup {e}, want[f] \ {e}} :
           /\ f \in active /\ fdevent_set(f, w)
           /\ UNCHANGED <<table, current, loop, copy, ready, shells, stolen, swept>>
    BY <1>2 DEF fdevent_add, fdevent_del, other
  <2>2. w \in SUBSET Event /\ f # Notify /\ swept \in {"no", "asleep", "raced"}
    BY FdesAssumption DEF LoopInv, TypeOK, All
  <2> QED BY <1>2, <2>1, <2>2, SetStep
<1>3. ASSUME NEW f \in Fdes, close_all_sockets(f) PROVE LoopInv'
  <2>1. loop # "abort" /\ f \in active /\ swept' \in {"no", "asleep", "raced"}
    BY <1>3 DEF close_all_sockets, Swept
  <2>2. CASE RemoveFde(f)
    BY <2>1, <2>2, RemoveStep
  <2>3. CASE /\ fdevent_set(f, want[f] \ {"READ"})
             /\ UNCHANGED <<table, current, loop, copy, ready, shells, stolen>>
    <3>1. want[f] \ {"READ"} \in SUBSET Event /\ f # Notify
      BY FdesAssumption DEF LoopInv, TypeOK, All
    <3> QED BY <2>1, <2>3, <3>1, SetStep
  <2> QED BY <1>3, <2>2, <2>3 DEF close_all_sockets
<1>4. CASE Callback
  <2>1. loop # "abort"
    BY <1>4 DEF Callback
  <2>2. ASSUME NEW f \in Fdes, fdevent_remove(f) PROVE LoopInv'
    <3>1. f \in active /\ RemoveFde(f) /\ swept' \in {"no", "asleep", "raced"}
      BY <2>2 DEF fdevent_remove, LoopInv, TypeOK
    <3> QED BY <2>1, <3>1, RemoveStep
  <2> QED BY <1>2, <1>4, <2>1, <2>2, InstallStep, ExhaustStep, ReturnStep DEF Callback
<1>5. CASE Loop
  BY <1>5, SelectStep, ProcessStep, DispatchStep, EndStep, SubprocStep DEF Loop
<1>6. CASE \E n \in Fd, e \in Event : Ready(n, e)
  BY <1>6, KernelStep
<1>7. CASE \E i \in 1..MaxExits : subproc_waiter_service(i)
  BY <1>7, WaiterStep
<1>8. CASE \E n \in Fd : Steal(n)
  BY <1>8, StealStep
<1>9. CASE SelectReturns(Fd \ open)
  BY <1>9, SelectStep
<1> QED BY <1>1, <1>3, <1>4, <1>5, <1>6, <1>7, <1>8, <1>9 DEF Next

-----------------------------------------------------------------------------
(* The copies of the fd_sets. *)

\* Only a callback, or another thread than the loop's, changes nothing of it.
LEMMA CopyKept ==
  ASSUME CopyInv, UNCHANGED <<fd, fd_table, current, loop, copy, swept>>,
         exits # <<>> => exits' # <<>>, stolen' = stolen \/ stolen'
  PROVE  CopyInv'
BY DEF CopyInv

\* A callback runs, and goes on running or ends the server.
LEMMA CopyCallback ==
  ASSUME LoopInv, CopyInv, Callback
  PROVE  CopyInv'
<1>1. InCallback /\ loop = "dispatch"
  <2>1. InCallback /\ loop # "abort"
    BY DEF Callback, fdevent_add, fdevent_del, fdevent_install, fdevent_remove, Exhaust,
           Return
  <2>2. current # "none" /\ loop \in {"select", "asleep", "report", "dispatch", "abort"}
    BY <2>1, FdesAssumption DEF InCallback, LoopInv, TypeOK
  <2> QED BY <2>1, <2>2 DEF CopyInv
<1>2. ASSUME NEW f \in Fdes, fdevent_remove(f), loop' # "dispatch"
      PROVE  stolen' /\ loop' = "abort"
  <2>1. /\ f \in active /\ fd_table[fd[f]] # f /\ loop' = "abort" /\ stolen' = stolen
    BY <1>1, <1>2 DEF fdevent_remove, RemoveFde
  <2> QED BY <2>1 DEF LoopInv, FdeInv, TypeOK
<1>3. CASE loop' = "dispatch"
  BY <1>3 DEF CopyInv
<1>4. CASE loop' # "dispatch"
  <2>1. PICK f \in Fdes : fdevent_remove(f)
    BY <1>1, <1>4 DEF Callback, fdevent_add, fdevent_del, fdevent_install, Exhaust, Return
  <2> QED BY <1>2, <1>4, <2>1 DEF CopyInv
<1> QED BY <1>3, <1>4

\* select() is asked only for what is registered.
LEMMA CopySelect ==
  ASSUME LoopInv, CopyInv, Select
  PROVE  CopyInv'
<1>1. /\ UNCHANGED <<fd, fd_table, open, current, exits, stolen>>
      /\ loop = "select" /\ current = "none"
  BY DEF Select, table, shells, CopyInv
<1>2. fd[Notify] \in open
  BY DEF LoopInv, NotifyInv
<1>3. CASE EBADF
  <2>1. copy' = FakeRead /\ loop' = "report"
    BY <1>3 DEF Select
  <2>2. \A e \in Event : \A n \in copy'[e] : n \in BadFds
    BY <2>1 DEF FakeRead
  <2>3. \A n \in BadFds : fd_table[n] # "none" /\ n \notin open
    BY DEF BadFds
  <2> QED BY <1>1, <1>2, <2>1, <2>2, <2>3 DEF CopyInv
<1>4. CASE ~EBADF
  <2>1. loop' = "asleep" /\ \A e \in Event : \A n \in copy'[e] : n \in fds[e]
    BY <1>4 DEF Select
  <2>2. ASSUME ~stolen, NEW e \in Event, NEW n \in fds[e] PROVE fd_table[n] # "none"
    <3>1. PICK g \in active : fd[g] = n
      BY <2>2, Asked DEF LoopInv
    <3> QED BY <2>2, <3>1, FdesAssumption DEF LoopInv, FdeInv, TypeOK, All
  <2> QED BY <1>1, <2>1, <2>2 DEF CopyInv
<1> QED BY <1>3, <1>4

LEMMA CopyReturns ==
  ASSUME LoopInv, CopyInv, NEW gone, gone \cap open = {}, SelectReturns(gone)
  PROVE  CopyInv'
<1>1. /\ UNCHANGED <<fd, fd_table, current, exits, stolen, swept>>
      /\ loop = "asleep" /\ loop' = "report"
      /\ \A e \in Event : copy'[e] = copy[e] \cap (ready[e] \cup gone)
  BY DEF SelectReturns, table, shells, other
<1>2. ASSUME NEW e \in Event, fd[Notify] \in copy'[e] PROVE exits # <<>>
  <2>1. fd[Notify] \in ready[e] \/ fd[Notify] \in gone
    BY <1>1, <1>2
  <2> QED BY <2>1 DEF LoopInv, NotifyInv
<1>3. current = "none"
  BY <1>1 DEF CopyInv
<1>4. ASSUME ~stolen, swept = "no", NEW e \in Event, NEW n \in copy'[e]
      PROVE  fd_table[n] # "none"
  BY <1>1, <1>4 DEF CopyInv
<1> QED BY <1>1, <1>2, <1>3, <1>4 DEF CopyInv

LEMMA CopyNext == LoopInv /\ CopyInv /\ [Next]_vars => CopyInv'
<1> SUFFICES ASSUME LoopInv, CopyInv, [Next]_vars PROVE CopyInv'
  OBVIOUS
<1>1. CASE UNCHANGED vars
  BY <1>1 DEF vars, CopyInv
<1>2. CASE Callback
  BY <1>2, CopyCallback
<1>3. CASE Select \/ SelectReturns({}) \/ SelectReturns(Fd \ open)
  BY <1>3, CopySelect, CopyReturns
<1>4. CASE fdevent_process
  <2>1. /\ UNCHANGED <<current, stolen, swept>>
        /\ loop = "report" /\ loop' \in {"dispatch", "abort"}
    BY <1>4 DEF fdevent_process, other
  <2>2. ASSUME loop' = "abort" PROVE ~stolen => swept # "no"
    <3>1. PICK n \in Fd : Reported(n) # {} /\ fd_table[n] = "none"
      BY <1>4, <2>2 DEF fdevent_process
    <3> QED BY <2>1, <3>1, ReportedRight
  <2> QED BY <2>1, <2>2 DEF CopyInv
<1>5. CASE (\E f \in Fdes : Dispatch(f)) \/ Subproc
  <2>1. loop = "dispatch" /\ loop' = loop
    BY <1>5 DEF Dispatch, Subproc
  <2> QED BY <2>1 DEF CopyInv
<1>6. CASE DispatchEnd
  BY <1>6 DEF DispatchEnd, CopyInv
<1>7. CASE \E n \in Fd, e \in Event : Ready(n, e)
  BY <1>7, CopyKept DEF Ready, table, shells, other
<1>8. CASE \E i \in 1..MaxExits : subproc_waiter_service(i)
  <2>1. PICK i \in DOMAIN waiting : exits' = Append(exits, waiting[i])
    BY <1>8 DEF subproc_waiter_service
  <2>2. exits \in Seq(Fd) /\ waiting \in Seq(Fd)
    BY DEF LoopInv, TypeOK
  <2>3. waiting[i] \in Fd
    BY <2>1, <2>2
  <2>4. exits' # <<>>
    BY <2>1, <2>2, <2>3
  <2> QED BY <1>8, <2>4, CopyKept DEF subproc_waiter_service, table, other
<1>9. CASE \E n \in Fd : Steal(n)
  BY <1>9 DEF Steal, shells, CopyInv
<1>10. CASE \E f \in Fdes : close_all_sockets(f)
  <2>1. /\ swept' # "no" /\ UNCHANGED <<fd, current, copy, exits>>
        /\ loop' \in {loop, "abort"}
    BY <1>10 DEF close_all_sockets, Swept, RemoveFde, table, shells
  <2> QED BY <2>1 DEF CopyInv
<1> QED BY <1>1, <1>2, <1>3, <1>4, <1>5, <1>6, <1>7, <1>8, <1>9, <1>10 DEF Next, Loop

-----------------------------------------------------------------------------
LEMMA LoopHolds == Spec => [](LoopInv /\ CopyInv)
<1>1. Init => CopyInv
  BY DEF Init, CopyInv
<1> QED BY <1>1, LoopInit, LoopNext, CopyNext, PTL DEF Spec

\* fdevent.c keeps the types of its tables, with any number of descriptors.
THEOREM TypeCorrect == Spec => []TypeOK
<1>1. LoopInv => TypeOK
  BY DEF LoopInv
<1> QED BY <1>1, LoopHolds, PTL

\* fd_table, select_n and the fd_sets name exactly the active fdevents and what
\* they want, whatever the callbacks do and an input thread sweeps away during
\* select(); and FATAL() is reached only after such a sweep.  Unless a
\* registered descriptor was closed elsewhere, or a sweep met the main thread
\* awake.
THEOREM SyncHolds == Spec => []InSync
<1>1. LoopInv /\ CopyInv => InSync
  <2> SUFFICES ASSUME LoopInv, CopyInv, ~stolen, swept # "raced" PROVE InSync
    BY DEF InSync
  <2>1. loop = "abort" => swept = "asleep"
    BY DEF LoopInv, TypeOK, CopyInv
  <2>2. \A f \in active : fd_table[fd[f]] = f /\ fd[f] < select_n
    BY DEF LoopInv, FdeInv
  <2>3. \A n \in Fd : fd_table[n] # "none" =>
            fd_table[n] \in active /\ fd[fd_table[n]] = n
    BY DEF LoopInv, TableInv
  <2>4. \A e \in Event : fds[e] = {fd[f] : f \in {g \in active : e \in want[g]}}
    BY DEF LoopInv, SetsInv
  <2> QED BY <2>1, <2>2, <2>3, <2>4 DEF InSync
<1> QED BY <1>1, LoopHolds, PTL

\* list_pending links exactly the pending fdevents, all registered: nothing
\* that fdevent_remove() has taken out is called again, even after a
\* descriptor was closed elsewhere or a socket swept during select().
THEOREM PendingHolds == Spec => []PendingListed
<1>1. LoopInv => PendingListed
  BY DEF LoopInv, PendingInv, PendingListed
<1> QED BY <1>1, LoopHolds, PTL
=============================================================================
