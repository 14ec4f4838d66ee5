----------------------------- MODULE AdbFdevent -----------------------------
(***************************************************************************)
(* The event loop of the main thread: fdevent.c, in its select() build,    *)
(* with the shell-exit socket that services.c writes to.                   *)
(*                                                                         *)
(* The loop and the callbacks run on the main thread.  A callback is a     *)
(* sequence of steps: it may install, change and remove any fdevent, its   *)
(* own included, before it returns, as the callbacks of sockets.c do.  The *)
(* input thread of a transport that has ended does the same to the sockets *)
(* it sweeps, and no lock keeps it from the main thread.  An fdevent is an *)
(* element of Fdes that may be used again; FDE_ERROR is never asked for.   *)
(***************************************************************************)
EXTENDS Naturals, Sequences, SequencesExt, FiniteSets

CONSTANTS
    Fdes,        \* fdevents of sockets, listeners and transports
    Notify,      \* the fdevent of the shell-exit socket
    Sockets,     \* those of local sockets
    Shells,      \* those of a pseudo-tty with a thread that waits for the shell
    MaxFd,       \* bound: descriptors are 0..MaxFd
    MaxExits     \* bound: shells that run or whose exit is not yet handled

ASSUME FdesAssumption ==
    /\ Notify \notin Fdes /\ "none" \notin Fdes \cup {Notify}
    /\ Shells \subseteq Sockets /\ Sockets \subseteq Fdes
    /\ MaxFd \in Nat \ {0} /\ MaxExits \in Nat

VARIABLES
    fd,          \* fd[f], kept when f is removed
    active,      \* FDE_ACTIVE
    pending,     \* FDE_PENDING
    want,        \* the event bits of f->state
    events,      \* f->events
    force_eof,   \* force_eof
    fd_table,    \* fd_table
    select_n,    \* select_n
    fds,         \* read_fds and write_fds
    list,        \* list_pending, without its head
    current,     \* whose callback runs, "none" in fdevent_loop() itself
    loop,        \* "select", "asleep" in select(), "report" what it returned,
                 \* "dispatch", or "abort" after FATAL()
    copy,        \* rfd and wfd: what select() is asked for, and what it returns
    open,        \* descriptors of the process that are open
    ready,       \* ready[e]: descriptors that select() would report
    exits,       \* descriptors in the shell-exit socket
    waiting,     \* what each waiter thread will write there
    stolen,      \* a registered descriptor was closed behind the loop's back
    swept        \* a socket was swept: "asleep" while the main thread sleeps in
                 \* select(), "raced" while it runs

vars == <<fd, active, pending, want, events, force_eof, fd_table, select_n, fds,
          list, current, loop, copy, open, ready, exits, waiting, stolen, swept>>

table  == <<fd, active, force_eof, fd_table, select_n, open>>
shells == <<exits, waiting>>
other  == <<stolen, swept>>

Event == {"READ", "WRITE"}

Fd == 0..MaxFd

All == Fdes \cup {Notify}

-----------------------------------------------------------------------------
(* fdevent_set() and its parts. *)

\* fdevent_update(): the descriptor's bit in each fd_set.
fdevent_update(f, e) ==
    fds' = [x \in Event |-> IF x \in e THEN fds[x] \cup {fd[f]}
                            ELSE fds[x] \ {fd[f]}]

\* fdevent_plist_remove() of f, which is on list s.
fdevent_plist_remove(s, f) == RemoveAt(s, CHOOSE i \in DOMAIN s : s[i] = f)

\* What stays of the events of a pending fdevent.
Unasked(f, e) == events[f] \ e

\* fdevent_set(): no change, or the new set and, for a pending fdevent, fewer
\* events and perhaps no place on the list.  The caller's step says the rest.
fdevent_set(f, e) ==
    IF want[f] = e THEN UNCHANGED <<want, events, pending, fds, list>>
    ELSE /\ fdevent_update(f, e)
         /\ want' = [want EXCEPT ![f] = e]
         /\ IF f \in pending
            THEN /\ events' = [events EXCEPT ![f] = Unasked(f, e)]
                 /\ pending' = IF Unasked(f, e) = {} THEN pending \ {f} ELSE pending
                 /\ list' = IF Unasked(f, e) = {} THEN fdevent_plist_remove(list, f)
                            ELSE list
            ELSE UNCHANGED <<events, pending, list>>

-----------------------------------------------------------------------------
(* What a callback does. *)

InCallback == current \in Fdes

\* fdevent_add() and fdevent_del().
fdevent_add(f, e) ==
    /\ InCallback /\ f \in active
    /\ fdevent_set(f, want[f] \cup {e})
    /\ UNCHANGED <<table, current, loop, copy, ready, shells, other>>

fdevent_del(f, e) ==
    /\ InCallback /\ f \in active
    /\ fdevent_set(f, want[f] \ {e})
    /\ UNCHANGED <<table, current, loop, copy, ready, shells, other>>

\* One too few.
ConnectShort(n) == IF n >= select_n THEN n ELSE select_n

fdevent_connect(n) == IF n >= select_n THEN n + 1 ELSE select_n

\* fdevent_install() of a descriptor that was just opened: the lowest number.
fdevent_install(f, n) ==
    /\ InCallback /\ f \in Fdes \ active
    /\ n \in Fd \ open /\ \A m \in Fd \ open : n <= m
    /\ open' = open \cup {n}
    /\ fd' = [fd EXCEPT ![f] = n]
    /\ active' = active \cup {f}
    /\ want' = [want EXCEPT ![f] = {}]
    /\ events' = [events EXCEPT ![f] = {}]
    /\ force_eof' = force_eof \ {f}
    /\ fd_table' = [fd_table EXCEPT ![n] = f]
    /\ select_n' = fdevent_connect(n)
    /\ f \in Shells => Len(waiting) + Len(exits) < MaxExits
    /\ waiting' = IF f \in Shells THEN Append(waiting, n) ELSE waiting
    /\ UNCHANGED <<pending, fds, list, current, loop, copy, ready, exits, other>>

\* fdevent_disconnect(): one more than the highest number in use, at least 1.
fdevent_disconnect(m) ==
    /\ \A n \in Fd : (n < select_n /\ fd_table[n] # "none") => n < m
    /\ m = 1 \/ fd_table[m - 1] # "none"

\* fdevent_remove() forgets the list.
RemoveLeavesOnList(f) ==
    /\ pending' = pending \ {f}
    /\ UNCHANGED list

\* The first part of fdevent_remove().
LeaveList(f) ==
    /\ pending' = pending \ {f}
    /\ list' = IF f \in pending THEN fdevent_plist_remove(list, f) ELSE list

\* The entry is kept.
UnregisterNothing(f) == fd_table

fdevent_unregister(f) == [fd_table EXCEPT ![fd[f]] = "none"]

\* fdevent_remove(): FATAL() if fd_table is out of sync.  The descriptor is
\* closed, with FDE_DONT_CLOSE by the owner just before.
RemoveFde(f) ==
    /\ LeaveList(f)
    /\ fds' = [x \in Event |-> fds[x] \ {fd[f]}]
    /\ select_n' \in {m \in 1..select_n : fdevent_disconnect(m)}
    /\ \/ /\ fd_table[fd[f]] = f
          /\ fd_table' = fdevent_unregister(f)
          /\ open' = open \ {fd[f]}
          /\ ready' = [x \in Event |-> ready[x] \ {fd[f]}]
          /\ active' = active \ {f}
          /\ want' = [want EXCEPT ![f] = {}]
          /\ events' = [events EXCEPT ![f] = {}]
          /\ UNCHANGED loop
       \/ /\ fd_table[fd[f]] # f
          /\ loop' = "abort"
          /\ UNCHANGED <<fd_table, open, ready, active, want, events>>
    /\ UNCHANGED <<fd, force_eof, current, copy, shells, stolen>>

fdevent_remove(f) ==
    /\ InCallback /\ f \in active \ {Notify}
    /\ RemoveFde(f)
    /\ UNCHANGED swept

\* A callback reads until EAGAIN, or writes until the descriptor is full.
Exhaust(e) ==
    /\ InCallback /\ current \in active
    /\ ready' = [ready EXCEPT ![e] = @ \ {fd[current]}]
    /\ UNCHANGED <<table, pending, want, events, fds, list, current, loop, copy,
                   shells, other>>

\* A callback returns, also if it has found its descriptor bad.
Return ==
    /\ InCallback
    /\ current' = "none"
    /\ UNCHANGED <<table, pending, want, events, fds, list, loop, copy, ready,
                   shells, other>>

-----------------------------------------------------------------------------
(* fdevent_loop(). *)

\* Descriptors that fdevent_fd_check() finds bad.
BadFds == {n \in Fd : n < select_n /\ fd_table[n] # "none" /\ n \notin open}

\* select() fails at once if it is asked for a descriptor that is closed.
EBADF == \E e \in Event : \E n \in fds[e] : n < select_n /\ n \notin open

\* After an error nothing is reported.
FakeNothing == [e \in Event |-> {}]

\* EBADF: "Can't trust the FD sets after an error", and "we fake a read" for
\* the descriptors that are bad.  Without a bad one the round is empty.
FakeRead == [e \in Event |-> IF e = "READ" THEN BadFds ELSE {}]

\* fdevent_process() up to select(), which gets copies of the fd_sets.
Select ==
    /\ loop = "select"
    /\ swept' = IF swept = "asleep" THEN "no" ELSE swept
    /\ \/ /\ EBADF
          /\ copy' = FakeRead
          /\ loop' = "report"
       \/ /\ ~EBADF
          /\ copy' = [e \in Event |-> {n \in fds[e] : n < select_n}]
          /\ loop' = "asleep"
    /\ UNCHANGED <<table, pending, want, events, fds, list, current, ready, shells,
                   stolen>>

\* select() returns what is ready of what it was asked for, and the
\* descriptors in gone, which were closed in the meantime: some kernels report
\* them, and some do not.
SelectReturns(gone) ==
    /\ loop = "asleep"
    /\ copy' = [e \in Event |-> copy[e] \cap (ready[e] \cup gone)]
    /\ \E e \in Event : copy'[e] # {}
    /\ loop' = "report"
    /\ UNCHANGED <<table, pending, want, events, fds, list, current, ready, shells,
                   other>>

\* The fdevents S in the order in which the loop over the descriptors meets them.
ByNumber(S) ==
    {s \in SeqOf(S, Cardinality(S)) :
        /\ ToSet(s) = S
        /\ \A i, j \in DOMAIN s : i < j => fd[s[i]] < fd[s[j]]}

\* The events that fdevent_process() finds for descriptor n.
Reported(n) == {e \in Event : n \in copy[e] /\ n < select_n}

\* The rest of fdevent_process(): the events of every descriptor.
fdevent_process ==
    LET found == {n \in Fd : Reported(n) # {}}
        hit == {fd_table[n] : n \in found} \ {"none"}
        new == hit \ pending
    IN
    /\ loop = "report"
    /\ \/ /\ \E n \in found : fd_table[n] = "none"
          /\ loop' = "abort"
          /\ UNCHANGED <<events, pending, list>>
       \/ /\ \A n \in found : fd_table[n] # "none"
          /\ loop' = "dispatch"
          /\ events' = [f \in All |-> IF f \in hit THEN events[f] \cup Reported(fd[f])
                                      ELSE events[f]]
          /\ pending' = pending \cup new
          /\ \E s \in ByNumber(new) : list' = list \o s
    /\ copy' = [e \in Event |-> {}]
    /\ UNCHANGED <<table, want, fds, current, ready, shells, other>>

\* fdevent_plist_dequeue() and fdevent_call_fdfunc(), of a socket.
Dispatch(f) ==
    /\ loop = "dispatch" /\ current = "none"
    /\ list # <<>> /\ f = Head(list) /\ f # Notify
    /\ list' = Tail(list)
    /\ pending' = pending \ {f}
    /\ events' = [events EXCEPT ![f] = {}]
    /\ current' = f
    /\ UNCHANGED <<table, want, fds, loop, copy, ready, shells, other>>

\* The list is empty.
DispatchEnd ==
    /\ loop = "dispatch" /\ current = "none" /\ list = <<>>
    /\ loop' = "select"
    /\ UNCHANGED <<table, pending, want, events, fds, list, current, copy, ready,
                   shells, other>>

\* The callback of Notify, fdevent_subproc_event_func().  It looks up the
\* descriptor of a shell that has exited, whoever has that number by now; if
\* nothing is left to read, that fdevent's callback runs at once, unless it is
\* on the list already.  The test for "Already reallocated?" never holds.
Subproc ==
    LET n == Head(exits)
        g == fd_table[n]
        rest == Tail(exits)
        quiet == n \notin ready["READ"]
        was == events[g] \cup {"READ"}
    IN
    /\ loop = "dispatch" /\ current = "none"
    /\ list # <<>> /\ Head(list) = Notify
    /\ exits' = rest
    /\ ready' = IF rest = <<>> THEN [ready EXCEPT !["READ"] = @ \ {fd[Notify]}] ELSE ready
    /\ list' = Tail(list)
    /\ IF g = "none" \/ g = Notify
       THEN /\ pending' = pending \ {Notify}
            /\ events' = [events EXCEPT ![Notify] = {}]
            /\ UNCHANGED <<force_eof, current>>
       ELSE /\ force_eof' = force_eof \cup {g}
            /\ pending' = pending \ {Notify}
            /\ \/ /\ ~quiet
                  /\ events' = [events EXCEPT ![Notify] = {}]
                  /\ UNCHANGED current
               \/ /\ quiet /\ g \in pending
                  /\ events' = [events EXCEPT ![Notify] = {}, ![g] = was]
                  /\ UNCHANGED current
               \/ /\ quiet /\ g \notin pending
                  /\ events' = [events EXCEPT ![Notify] = {}, ![g] = {}]
                  /\ current' = g
    /\ UNCHANGED <<fd, active, fd_table, select_n, open, want, fds, loop, copy,
                   waiting, other>>

-----------------------------------------------------------------------------
(* The kernel and other threads. *)

\* A descriptor becomes readable or writable.
Ready(n, e) ==
    /\ n \in open \ ready[e] /\ n # fd[Notify]
    /\ ready' = [ready EXCEPT ![e] = @ \cup {n}]
    /\ UNCHANGED <<table, pending, want, events, fds, list, current, loop, copy,
                   shells, other>>

\* subproc_waiter_service(): the shell has exited.
subproc_waiter_service(i) ==
    /\ i \in DOMAIN waiting
    /\ waiting' = RemoveAt(waiting, i)
    /\ exits' = Append(exits, waiting[i])
    /\ ready' = [ready EXCEPT !["READ"] = @ \cup {fd[Notify]}]
    /\ UNCHANGED <<table, pending, want, events, fds, list, current, loop, copy,
                   other>>

\* Another thread closes a descriptor that is not its own: close() of a
\* transport whose t->fd was closed before.
Steal(n) ==
    /\ ~stolen /\ n \in open \ {fd[Notify]}
    /\ stolen' = TRUE
    /\ open' = open \ {n}
    /\ ready' = [x \in Event |-> ready[x] \ {n}]
    /\ UNCHANGED <<fd, active, force_eof, fd_table, select_n, pending, want, events,
                   fds, list, current, loop, copy, shells, swept>>

\* The main thread may be anywhere but in select().
Swept == IF loop = "asleep" /\ swept # "raced" THEN "asleep" ELSE "raced"

\* close_all_sockets() on an input thread: local_socket_close_locked() removes
\* the fdevent of the socket or, if data is still to be written, asks for no
\* more.  The call is one step here; where it meets one of the main thread's,
\* the outcome is undefined and swept says so.
close_all_sockets(f) ==
    /\ loop # "abort" /\ f \in Sockets \cap active
    /\ swept' = Swept
    /\ \/ RemoveFde(f)
       \/ /\ fdevent_set(f, want[f] \ {"READ"})
          /\ UNCHANGED <<table, current, loop, copy, ready, shells, stolen>>

-----------------------------------------------------------------------------
\* fdevent_subproc_setup(), and one socket, a listener, on descriptor 1.
Init ==
    \E f \in Fdes \ Sockets :
    /\ fd = [g \in All |-> IF g = f THEN 1 ELSE 0]
    /\ active = {Notify, f}
    /\ pending = {}
    /\ want = [g \in All |-> IF g \in {Notify, f} THEN {"READ"} ELSE {}]
    /\ events = [g \in All |-> {}]
    /\ force_eof = {}
    /\ fd_table = [n \in Fd |-> IF n = 0 THEN Notify ELSE IF n = 1 THEN f ELSE "none"]
    /\ select_n = 2
    /\ fds = [e \in Event |-> IF e = "READ" THEN {0, 1} ELSE {}]
    /\ list = <<>>
    /\ current = "none"
    /\ loop = "select"
    /\ copy = [e \in Event |-> {}]
    /\ open = {0, 1}
    /\ ready = [e \in Event |-> {}]
    /\ exits = <<>>
    /\ waiting = <<>>
    /\ stolen = FALSE
    /\ swept = "no"

Callback ==
    /\ loop # "abort"
    /\ \/ \E f \in Fdes, e \in Event : fdevent_add(f, e) \/ fdevent_del(f, e)
       \/ \E f \in Fdes, n \in Fd : fdevent_install(f, n)
       \/ \E f \in Fdes : fdevent_remove(f)
       \/ \E e \in Event : Exhaust(e)
       \/ Return

Loop ==
    \/ Select \/ SelectReturns({}) \/ fdevent_process
    \/ (\E f \in Fdes : Dispatch(f)) \/ DispatchEnd \/ Subproc

Next ==
    \/ Callback
    \/ Loop
    \/ SelectReturns(Fd \ open)
    \/ \E n \in Fd, e \in Event : Ready(n, e)
    \/ \E i \in 1..MaxExits : subproc_waiter_service(i)
    \/ \E n \in Fd : Steal(n)
    \/ \E f \in Fdes : close_all_sockets(f)

Spec == Init /\ [][Next]_vars

\* The main thread runs, and every callback ends.  That of a local socket
\* closes it when read() fails, the second time at the latest; those of
\* listeners and transports only return.  Nothing makes descriptors ready,
\* shells exit or select() report what was closed.
Fairness ==
    /\ WF_vars(Loop)
    /\ WF_vars(Return)
    /\ \A f \in Sockets :
          SF_vars(fd[f] \notin open /\ current = f /\ fdevent_remove(f))

FairSpec == Spec /\ Fairness

-----------------------------------------------------------------------------
(* Properties. *)

\* The state has the types of struct fdevent and of the tables of fdevent.c.
TypeOK ==
    /\ fd \in [All -> Fd]
    /\ active \subseteq All
    /\ pending \subseteq All
    /\ want \in [All -> SUBSET Event]
    /\ events \in [All -> SUBSET Event]
    /\ force_eof \subseteq Fdes
    /\ fd_table \in [Fd -> All \cup {"none"}]
    /\ select_n \in 1..MaxFd + 1
    /\ fds \in [Event -> SUBSET Fd]
    /\ list \in Seq(All)
    /\ current \in Fdes \cup {"none"}
    /\ loop \in {"select", "asleep", "report", "dispatch", "abort"}
    /\ copy \in [Event -> SUBSET Fd]
    /\ open \subseteq Fd
    /\ ready \in [Event -> SUBSET Fd]
    /\ exits \in Seq(Fd)
    /\ waiting \in Seq(Fd)
    /\ stolen \in BOOLEAN
    /\ swept \in {"no", "asleep", "raced"}

\* Whatever callbacks install and remove, and whatever an input thread sweeps
\* away while the main thread sleeps in select(), fd_table holds exactly the
\* active fdevents under their own numbers; select() is asked for exactly the
\* events that are wanted, so that no descriptor that somebody waits for lies
\* outside the fd_sets or beyond select_n; and FATAL() ends the server only if
\* a socket was swept during the select() that has just returned.  As long as
\* nobody closes a registered descriptor elsewhere, and no sweep has met the
\* main thread awake: fdevent.c has no lock, and nothing holds after that.
InSync ==
    ~stolen /\ swept # "raced" =>
        /\ loop = "abort" => swept = "asleep"
        /\ \A f \in active : fd_table[fd[f]] = f
        /\ \A n \in Fd : fd_table[n] # "none" =>
              fd_table[n] \in active /\ fd[fd_table[n]] = n
        /\ \A f \in active : fd[f] < select_n
        /\ \A e \in Event : fds[e] = {fd[f] : f \in {g \in active : e \in want[g]}}

\* The pending list links exactly the fdevents that are marked pending, once
\* each, all still registered and with something to signal: what a callback, or
\* the sweep during select(), removes is never called afterwards.  A sweep that
\* meets the main thread awake may unlink what that one is linking or has
\* taken off the list: nothing is said of the list after that.
PendingListed ==
    loop # "abort" /\ swept # "raced" =>
        /\ IsInjective(list) /\ ToSet(list) = pending
        /\ pending \subseteq active
        /\ \A f \in All : f \in pending <=> events[f] # {}

\* No two fdevents have the same descriptor.
Apart == \A f, g \in active : fd[f] = fd[g] => f = g

\* Nobody but a local socket is registered with a bad descriptor.
ListenersGood == \A f \in active \ Sockets : fd[f] \in open

\* A descriptor that stays ready for an event that stays wanted is served
\* again and again, unless what is asked of it keeps changing.  Another one
\* that has gone bad holds it up only until its own callback has closed it, if
\* it is a socket's; the callbacks of listeners and transports leave theirs
\* registered, select() fails with EBADF for ever and nobody else is served.
Served ==
    \A f \in Fdes, W \in SUBSET Event : \A e \in W :
        <>[](/\ f \in active /\ want[f] = W /\ fd[f] \in ready[e]
             /\ Apart /\ ListenersGood /\ loop # "abort" /\ swept # "raced")
            => []<>(current = f)
=============================================================================
