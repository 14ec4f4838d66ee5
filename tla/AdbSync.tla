------------------------------ MODULE AdbSync ------------------------------
(***************************************************************************)
(* File transfer: the commands of file_sync_client.c and the service of    *)
(* file_sync_service.c, which runs on a thread of its own for every        *)
(* connection.                                                             *)
(*                                                                         *)
(* One client runs at a time; what an earlier one has sent may still be on *)
(* its way when it is gone, so that several services may be at work.  A    *)
(* stream delivers what was written, in order, and holds Cap messages each *)
(* way; a full one blocks its writer.  A file is a number of DATA packets. *)
(* A remote path names an inode: inode 0 was there before, inode s is the  *)
(* one that session s creates.  The build has no HAVE_SYMLINKS.            *)
(***************************************************************************)
EXTENDS Integers, Sequences, FiniteSets

CONSTANTS
    NumFiles,     \* files of a directory, in the order of its list
    MaxChunks,    \* bound: DATA packets of a file
    MaxSessions,  \* bound: connections to "sync:"
    Cap,          \* messages that one direction of a stream holds
    Faulty,       \* remote paths where unlink() and utime() may fail
    Kinds,        \* pairs: local files that are links, remote paths that are devices
    Commands      \* the commands that are given

Files == 1..NumFiles

Sessions == 1..MaxSessions

ASSUME SyncAssumption ==
    /\ NumFiles \in Nat \ {0} /\ MaxChunks \in Nat /\ MaxSessions \in Nat
    /\ Cap \in Nat /\ Cap >= 2 /\ 2 * Cap >= NumFiles
    /\ Faulty \subseteq Files
    /\ Kinds \subseteq (SUBSET Files) \X (SUBSET Files)
    /\ Commands \subseteq {"ls", "push", "pushdir", "sync", "dry", "pull", "pulldir"}

VARIABLES
    pc,        \* where the client is; "idle" without one
    cmd,       \* its command; "dry" is sync -l
    cur,       \* its session
    at,        \* the file it is at
    pos,       \* DATA packets of that file
    flag,      \* ci->flag: not to be copied
    told,      \* it has printed an error
    exit,      \* its exit status
    lcopy,     \* what is at the local path of a pulled file
    up,        \* messages to each service
    down,      \* messages to each client
    cut,       \* sessions whose link has failed
    svc,       \* where the service of each session is
    path,      \* the inode that a remote path names
    inode,     \* inode[f][n]: packets of the new file, size, time is the client's
    len,       \* packets of each local file
    links,     \* local files that are symbolic links
    special,   \* remote paths that are device nodes
    contested, \* remote paths that two sessions have worked on at once, or whose
               \* old file could not be removed
    stuck      \* remote paths whose new file could not be removed or given its time

vars == <<pc, cmd, cur, at, pos, flag, told, exit, lcopy, up, down, cut, svc, path,
          inode, len, links, special, contested, stuck>>

client == <<pc, cmd, cur, at, pos, flag, told, exit, lcopy>>
remote == <<path, inode, contested, stuck>>
fixed  == <<len, links, special>>

\* No inode; no local file, or the one that was there before.
None == -1
Old == -2

Ids == {"STAT", "LIST", "SEND", "DATA", "DONE", "RECV", "QUIT", "DENT", "OKAY", "FAIL"}

\* n: packets so far in DATA, DONE and OKAY; how the file compares in STAT.
Message == [id: Ids, file: 0..NumFiles, n: Nat]

Msg(id, f, n) == [id |-> id, file |-> f, n |-> n]

\* A service at a place, for a file that it has open as inode d.
Serving(place, f, d) == [pc |-> place, file |-> f, fd |-> d, n |-> 0]

Closed == Serving("closed", 0, None)

Waiting == Serving("wait", 0, None)

\* The inode at f, if any.
At(f) == inode[f][path[f]]

Missing == 0
Differs == 1
OtherSize == 2   \* but the time is the same
Same == 3

Fresh == [new |-> 0, size |-> 0, stamped |-> FALSE]

-----------------------------------------------------------------------------
(* The stream. *)

ClientGone(s) == s # cur \/ pc = "idle"

Broken(s) == cut[s] \/ svc[s].pc = "closed"

\* writex() of the client: blocks, arrives, or goes nowhere.
ClientWrites(m) ==
    /\ Broken(cur) \/ Len(up[cur]) < Cap
    /\ up' = IF Broken(cur) THEN up ELSE [up EXCEPT ![cur] = Append(@, m)]

\* writex() of the service.
CanReply(s) == cut[s] \/ ClientGone(s) \/ Len(down[s]) < Cap

Reply(s, ms) ==
    down' = IF cut[s] \/ ClientGone(s) THEN down ELSE [down EXCEPT ![s] = @ \o ms]

\* A prefix of what is under way still arrives.  (After the client is gone this
\* would be as if the link had failed before.)
LinkDown(s) ==
    /\ ~cut[s] /\ svc[s].pc # "closed" /\ ~ClientGone(s)
    /\ cut' = [cut EXCEPT ![s] = TRUE]
    /\ \E n \in 0..Len(up[s]), k \in 0..Len(down[s]) :
          /\ up' = [up EXCEPT ![s] = SubSeq(@, 1, n)]
          /\ down' = [down EXCEPT ![s] = SubSeq(@, 1, k)]
    /\ UNCHANGED <<client, svc, remote, fixed>>

-----------------------------------------------------------------------------
(* The client. *)

Lists == cmd \in {"ls", "pulldir"}

\* The files that a command asks STAT for.
StatEnd == IF cmd \in {"sync", "dry"} THEN NumFiles ELSE 1

\* The files that are copied one by one.
CopyEnd == IF cmd \in {"push", "pull"} THEN 1 ELSE NumFiles

\* adb_connect("sync:"), a new service.
Begin(c) ==
    /\ pc = "idle" /\ cur < MaxSessions
    /\ cmd' = c
    /\ cur' = cur + 1
    /\ pc' = IF c = "pushdir" THEN "copy" ELSE "ask"
    /\ at' = 1
    /\ pos' = 0
    /\ flag' = [f \in Files |-> c = "pulldir"]
    /\ told' = FALSE
    /\ exit' = 0
    /\ svc' = [svc EXCEPT ![cur + 1] = Waiting]
    /\ UNCHANGED <<lcopy, up, down, cut, remote, fixed>>

\* The process ends; its socket is closed, with what it has not read.
Exit(n) ==
    /\ pc' = "idle"
    /\ exit' = n
    /\ at' = 1
    /\ pos' = 0
    /\ down' = [down EXCEPT ![cur] = <<>>]

others == <<svc, remote, fixed, cut>>

\* An error ends it; most are printed.
GiveUp == Exit(1) /\ UNCHANGED <<cmd, cur, flag, lcopy>>

\* sync_ls(), sync_readmode(), sync_readtime() ask once;
\* sync_start_readtime() for all files before any answer is read.
Ask ==
    /\ pc = "ask"
    /\ ClientWrites(Msg(IF Lists THEN "LIST" ELSE "STAT", at, 0))
    /\ IF ~Lists /\ at < StatEnd
       THEN at' = at + 1 /\ UNCHANGED pc
       ELSE at' = 1 /\ pc' = "answer"
    /\ UNCHANGED <<cmd, cur, pos, flag, told, exit, lcopy, down, others>>

Received(id) == down[cur] # <<>> /\ Head(down[cur]).id = id

Consume == down' = [down EXCEPT ![cur] = Tail(@)]

\* The time alone tells that a file is the same.
SameTime(m) == m.n \in {OtherSize, Same}

\* Size and time are the same (sync_finish_readtime()).
SameFile(m) == m.n = Same

\* The answer to STAT.
StatAnswered ==
    LET m == Head(down[cur]) IN
    /\ pc = "answer" /\ Received("STAT")
    /\ \/ /\ cmd = "pull" /\ m.n = Missing
          /\ told' = TRUE
          /\ GiveUp
       \/ /\ ~(cmd = "pull" /\ m.n = Missing)
          /\ Consume
          /\ flag' = [flag EXCEPT ![at] = cmd \in {"sync", "dry"} /\ SameFile(m)]
          /\ IF at < StatEnd
             THEN at' = at + 1 /\ UNCHANGED pc
             ELSE at' = 1 /\ pc' = IF cmd = "dry" THEN "quit" ELSE "copy"
          /\ UNCHANGED <<cmd, cur, pos, told, exit, lcopy>>
    /\ UNCHANGED <<up, others>>

\* sync_ls(): an entry, put on the list of pulldir.
Entry ==
    /\ pc = "answer" /\ Received("DENT")
    /\ Consume
    /\ flag' = [flag EXCEPT ![Head(down[cur]).file] = FALSE]
    /\ UNCHANGED <<pc, cmd, cur, at, pos, told, exit, lcopy, up, others>>

Listed ==
    /\ pc = "answer" /\ Received("DONE")
    /\ Consume
    /\ pc' = IF cmd = "ls" THEN "quit" ELSE "copy"
    /\ UNCHANGED <<cmd, cur, at, pos, flag, told, exit, lcopy, up, others>>

\* To the next file of the list, or to the end of it.
Advance ==
    IF at < CopyEnd
    THEN at' = at + 1 /\ pc' = "copy"
    ELSE at' = at /\ pc' = "quit"

Skip ==
    /\ pc = "copy" /\ flag[at]
    /\ Advance
    /\ UNCHANGED <<cmd, cur, pos, flag, told, exit, lcopy, up, down, others>>

\* sync_send(): the request; a link ends the command without its data.
SendRequest ==
    /\ pc = "copy" /\ ~flag[at] /\ cmd \in {"push", "pushdir", "sync"}
    /\ ClientWrites(Msg("SEND", at, 0))
    /\ \/ /\ at \notin links
          /\ pc' = "data"
          /\ pos' = 0
          /\ UNCHANGED <<cmd, cur, at, flag, told, exit, lcopy, down>>
       \/ /\ at \in links
          /\ told' = TRUE
          /\ GiveUp
    /\ UNCHANGED others

\* The local file has another packet.
HasMore == pos < len[at]

\* write_data_file(): a packet, or the local file cannot be opened or read any
\* further, which is printed and otherwise ignored.
SendData ==
    /\ pc = "data" /\ HasMore
    /\ \/ /\ ClientWrites(Msg("DATA", at, pos + 1))
          /\ pos' = pos + 1
          /\ UNCHANGED <<pc, told>>
       \/ /\ pc' = "done"
          /\ told' = TRUE
          /\ UNCHANGED <<pos, up>>
    /\ UNCHANGED <<cmd, cur, at, flag, exit, lcopy, down, others>>

SendDone ==
    /\ pc = "done" \/ (pc = "data" /\ ~HasMore)
    /\ ClientWrites(Msg("DONE", at, pos))
    /\ pc' = "status"
    /\ UNCHANGED <<cmd, cur, at, pos, flag, told, exit, lcopy, down, others>>

\* A failed copy is printed and the next one begun.
FailNext ==
    told' = TRUE /\ Advance /\ Consume /\ UNCHANGED <<cmd, cur, pos, flag, exit, lcopy>>

FailStatus == told' = TRUE /\ GiveUp

\* The status of the whole file.
SendStatus ==
    /\ pc = "status"
    /\ \/ /\ Received("OKAY")
          /\ Consume
          /\ Advance
          /\ UNCHANGED <<cmd, cur, pos, flag, told, exit, lcopy>>
       \/ /\ Received("FAIL")
          /\ FailStatus
    /\ UNCHANGED <<up, others>>

\* sync_recv(): the request.
RecvRequest ==
    /\ pc = "copy" /\ ~flag[at] /\ cmd \in {"pull", "pulldir"}
    /\ ClientWrites(Msg("RECV", at, 0))
    /\ pc' = "first"
    /\ pos' = 0
    /\ UNCHANGED <<cmd, cur, at, flag, told, exit, lcopy, down, others>>

\* The local file cannot be made, or not be written.
LocalFails ==
    /\ told' = TRUE
    /\ lcopy' = [lcopy EXCEPT ![at] = IF pc = "first" THEN None ELSE @]
    /\ Exit(1)
    /\ UNCHANGED <<cmd, cur, flag>>

\* The answers to it.  The first replaces the local file, which may fail; DATA
\* that cannot be written ends the command.  FAIL removes the local file, is
\* printed, and counts as success, unless there are attributes to copy; when
\* those cannot be set after DONE the command ends.
RecvData ==
    /\ pc \in {"first", "more"}
    /\ \/ /\ Received("DATA")
          /\ \/ /\ Consume
                /\ pos' = pos + 1
                /\ lcopy' = [lcopy EXCEPT ![at] = pos + 1]
                /\ pc' = "more"
                /\ UNCHANGED <<cmd, cur, at, flag, told, exit>>
             \/ LocalFails
       \/ /\ Received("DONE")
          /\ \/ /\ lcopy' = [lcopy EXCEPT ![at] = pos]
                /\ \/ Consume /\ Advance /\ UNCHANGED <<pos, exit>>
                   \/ Exit(1)
                /\ UNCHANGED <<cmd, cur, flag, told>>
             \/ pc = "first" /\ LocalFails
       \/ /\ Received("FAIL")
          /\ lcopy' = [lcopy EXCEPT ![at] = None]
          /\ told' = TRUE
          /\ \/ Consume /\ Advance /\ UNCHANGED <<pos, exit>>
             \/ Exit(1)
          /\ UNCHANGED <<cmd, cur, flag>>
    /\ UNCHANGED <<up, others>>

\* sync_quit(); the command ends well.
Quit ==
    /\ pc = "quit"
    /\ ClientWrites(Msg("QUIT", 0, 0))
    /\ Exit(0)
    /\ UNCHANGED <<cmd, cur, flag, told, lcopy, others>>

Reads == {"answer", "status", "first", "more"}

\* readx() meets the end, or writex() an error.
ClientFails ==
    /\ pc # "idle" /\ Broken(cur)
    /\ pc \in Reads => down[cur] = <<>>
    /\ Exit(1)
    /\ UNCHANGED <<cmd, cur, flag, told, lcopy, up, others>>

\* The user interrupts it.
ClientKilled ==
    /\ pc # "idle"
    /\ GiveUp
    /\ UNCHANGED <<told, up, others>>

-----------------------------------------------------------------------------
(* The service. *)

Becomes(s, r) == svc' = [svc EXCEPT ![s] = r]

\* The service goes on as r after an answer, or ends if it was not written.
Answered(s, r) ==
    \/ Becomes(s, r)
    \/ (cut[s] \/ ClientGone(s)) /\ Becomes(s, Closed)

Request(s, id) == svc[s].pc = "wait" /\ up[s] # <<>> /\ Head(up[s]).id = id

Take(s) == up' = [up EXCEPT ![s] = Tail(@)]

\* A special file has no size.
StatOf(f) ==
    IF path[f] = None THEN Missing
    ELSE IF ~At(f).stamped \/ f \in special THEN Differs
    ELSE IF At(f).size # len[f] THEN OtherSize
    ELSE Same

do_stat(s) ==
    LET f == Head(up[s]).file IN
    /\ Request(s, "STAT") /\ CanReply(s)
    /\ Take(s)
    /\ Reply(s, <<Msg("STAT", f, StatOf(f))>>)
    /\ Answered(s, Waiting)
    /\ UNCHANGED <<client, cut, remote, fixed>>

\* do_list(): one entry after the other, DONE at the end; only that when the
\* directory cannot be opened.
ListBegin(s) ==
    /\ Request(s, "LIST")
    /\ Take(s)
    /\ \E f \in {1, NumFiles + 1} : Becomes(s, Serving("list", f, None))
    /\ UNCHANGED <<client, down, cut, remote, fixed>>

\* lstat() may fail, and the entry is left out.
ListEntry(s) ==
    LET f == svc[s].file IN
    /\ svc[s].pc = "list"
    /\ \/ /\ f <= NumFiles
          /\ \/ UNCHANGED down
             \/ path[f] # None /\ CanReply(s) /\ Reply(s, <<Msg("DENT", f, 0)>>)
          /\ Becomes(s, [svc[s] EXCEPT !.file = f + 1])
       \/ /\ f > NumFiles /\ CanReply(s)
          /\ Reply(s, <<Msg("DONE", 0, 0)>>)
          /\ Becomes(s, Waiting)
    /\ UNCHANGED <<client, up, cut, remote, fixed>>

Working == {"open", "send"}

\* s works on f, late, or together with another session.
Contest(s, f) ==
    contested' = IF s # cur \/ \E o \in Sessions \ {s} :
                       svc[o].pc \in Working /\ svc[o].file = f
                 THEN contested \cup {f} ELSE contested

\* Only what is not regular stays.
Unlink(f) == IF f \in special THEN path ELSE [path EXCEPT ![f] = None]

\* do_send(): the storage is full, or the file that is there is removed, if
\* that is possible.
do_send(s) ==
    LET f == Head(up[s]).file IN
    /\ Request(s, "SEND")
    /\ Take(s)
    /\ \/ /\ CanReply(s) /\ Reply(s, <<Msg("FAIL", f, 0)>>)
          /\ Becomes(s, Closed)
          /\ UNCHANGED remote
       \/ /\ Becomes(s, Serving("open", f, None))
          /\ \/ /\ path' = Unlink(f)
                /\ Contest(s, f)
                /\ stuck' = stuck \ {f}
             \/ /\ f \in Faulty \ special /\ path[f] # None
                /\ contested' = contested \cup {f}
                /\ UNCHANGED <<path, stuck>>
          /\ UNCHANGED <<inode, down>>
    /\ UNCHANGED <<client, cut, fixed>>

\* The number of FAILs when there is no file to write to.
NoneSent == {0}

FailsSent == {1, 2}

\* The first part of handle_send_file(): create it, or open what is there now
\* without truncating it.  When that fails, FAIL is sent, twice if it was the
\* directories; when only fchown() fails FAIL is sent and the file is written.
Open(s) ==
    LET f == svc[s].file
        fails(n) == [i \in 1..n |-> Msg("FAIL", f, 0)]
    IN
    /\ svc[s].pc = "open"
    /\ \/ /\ CanReply(s) /\ \E n \in FailsSent : Reply(s, fails(n))
          /\ Answered(s, Serving("send", f, None))
          /\ UNCHANGED remote
       \/ /\ UNCHANGED down \/ (CanReply(s) /\ Reply(s, fails(1)))
          /\ path' = [path EXCEPT ![f] = IF @ = None THEN s ELSE @]
          /\ inode' = IF path[f] = None THEN [inode EXCEPT ![f][s] = Fresh] ELSE inode
          /\ Becomes(s, Serving("send", f, path'[f]))
          /\ UNCHANGED <<contested, stuck>>
    /\ UNCHANGED <<client, up, cut, fixed>>

Sending(s, id) == svc[s].pc = "send" /\ up[s] # <<>> /\ Head(up[s]).id = id

Larger(a, b) == IF a > b THEN a ELSE b

\* The file is closed and stays.
LeavePartial(f) == UNCHANGED <<path, stuck>>

\* What has been written goes away; adb_unlink() may fail, and nobody looks.
UnlinkPartial(f) ==
    \/ path' = Unlink(f) /\ UNCHANGED stuck
    \/ f \in Faulty /\ UNCHANGED path /\ stuck' = stuck \cup {f}

\* A DATA packet is written, skipped when there is no file, or cannot be
\* written, and then the file is removed.
SendPacket(s) ==
    LET f == svc[s].file
        n == Head(up[s]).n
        d == svc[s].fd
    IN
    /\ Sending(s, "DATA")
    /\ Take(s)
    /\ \/ /\ d = None
          /\ UNCHANGED <<path, inode, stuck, svc, down>>
       \/ /\ d # None
          /\ inode' = [inode EXCEPT ![f][d] =
                          [new |-> Larger(@.new, n), size |-> Larger(@.size, n),
                           stamped |-> FALSE]]
          /\ Becomes(s, [svc[s] EXCEPT !.n = n])
          /\ UNCHANGED <<path, stuck, down>>
       \/ /\ d # None /\ CanReply(s)
          /\ UnlinkPartial(f)
          /\ Answered(s, [svc[s] EXCEPT !.fd = None])
          /\ Reply(s, <<Msg("FAIL", f, 0)>>)
          /\ UNCHANGED inode
    /\ UNCHANGED <<client, cut, contested, fixed>>

\* utime(), whose result is ignored.
Stamp(f) ==
    \/ /\ path[f] # None
       /\ inode' = [inode EXCEPT ![f][path[f]].stamped = TRUE]
       /\ UNCHANGED stuck
    \/ /\ f \in Faulty \/ path[f] = None
       /\ UNCHANGED inode
       /\ stuck' = stuck \cup {f}

\* DONE: the time is set, by name, and OKAY sent if there is a file.
SendEnd(s) ==
    LET f == svc[s].file
        m == Head(up[s])
    IN
    /\ Sending(s, "DONE")
    /\ Take(s)
    /\ IF svc[s].fd = None
       THEN Becomes(s, Waiting) /\ UNCHANGED <<inode, stuck, down>>
       ELSE /\ CanReply(s) /\ Answered(s, Waiting)
            /\ Stamp(f)
            /\ Reply(s, <<Msg("OKAY", f, m.n)>>)
    /\ UNCHANGED <<client, cut, path, contested, fixed>>

\* do_recv(): FAIL if the file cannot be opened.
RecvBegin(s) ==
    LET f == Head(up[s]).file IN
    /\ Request(s, "RECV")
    /\ Take(s)
    /\ \/ /\ CanReply(s) /\ Reply(s, <<Msg("FAIL", f, 0)>>)
          /\ Answered(s, Waiting)
       \/ /\ path[f] # None
          /\ Becomes(s, Serving("recv", f, path[f]))
          /\ UNCHANGED down
    /\ Contest(s, f)
    /\ UNCHANGED <<client, cut, path, inode, stuck, fixed>>

\* A packet, DONE at the end of the file, or FAIL when it cannot be read.
RecvPacket(s) ==
    LET f == svc[s].file
        size == inode[f][svc[s].fd].size
        n == svc[s].n
    IN
    /\ svc[s].pc = "recv" /\ CanReply(s)
    /\ \/ /\ n < size
          /\ Reply(s, <<Msg("DATA", f, n + 1)>>)
          /\ Becomes(s, [svc[s] EXCEPT !.n = n + 1])
       \/ /\ n >= size
          /\ Reply(s, <<Msg("DONE", f, n)>>)
          /\ Becomes(s, Waiting)
       \/ /\ Reply(s, <<Msg("FAIL", f, 0)>>)
          /\ Becomes(s, Waiting)
    /\ UNCHANGED <<client, up, cut, remote, fixed>>

\* Nobody will send another request.
NoMore(s) == cut[s] \/ ClientGone(s)

\* QUIT, the end of the requests, or an answer that cannot be written.  In the
\* middle of a file the file is removed.
ServiceEnds(s) ==
    /\ \/ Request(s, "QUIT")
       \/ svc[s].pc \in {"wait", "send"} /\ up[s] = <<>> /\ NoMore(s)
       \/ svc[s].pc \in {"list", "recv"} /\ NoMore(s)
    /\ up' = [up EXCEPT ![s] = <<>>]
    /\ Becomes(s, Closed)
    /\ IF svc[s].pc = "send"
       THEN UnlinkPartial(svc[s].file)
       ELSE UNCHANGED <<path, stuck>>
    /\ UNCHANGED <<client, down, cut, inode, contested, fixed>>

-----------------------------------------------------------------------------
Init ==
    /\ pc = "idle" /\ cmd = "ls" /\ cur = 0 /\ at = 1 /\ pos = 0
    /\ flag = [f \in Files |-> FALSE]
    /\ told = FALSE /\ exit = 0
    /\ lcopy = [f \in Files |-> Old]
    /\ up = [s \in Sessions |-> <<>>]
    /\ down = [s \in Sessions |-> <<>>]
    /\ cut = [s \in Sessions |-> FALSE]
    /\ svc = [s \in Sessions |-> Closed]
    /\ len \in [Files -> 1..MaxChunks]
    /\ \E k \in Kinds : links = k[1] /\ special = k[2]
    /\ \E old \in {{}, Files} :
          path = [f \in Files |-> IF f \in old \cup special THEN 0 ELSE None]
    /\ inode = [f \in Files |-> [k \in 0..MaxSessions |->
                   IF k = 0 THEN [Fresh EXCEPT !.size = MaxChunks] ELSE Fresh]]
    /\ contested = {}
    /\ stuck = {}

Client ==
    \/ Ask \/ StatAnswered \/ Entry \/ Listed \/ Skip \/ SendRequest \/ SendData
    \/ SendDone \/ SendStatus \/ RecvRequest \/ RecvData \/ Quit \/ ClientFails

Service(s) ==
    \/ do_stat(s) \/ ListBegin(s) \/ ListEntry(s) \/ do_send(s) \/ Open(s)
    \/ SendPacket(s) \/ SendEnd(s) \/ RecvBegin(s) \/ RecvPacket(s) \/ ServiceEnds(s)

Next ==
    \/ \E c \in Commands : Begin(c)
    \/ Client
    \/ ClientKilled
    \/ \E s \in Sessions : Service(s)
    \/ \E s \in Sessions : LinkDown(s)

Spec == Init /\ [][Next]_vars

-----------------------------------------------------------------------------
(* Properties. *)

\* The state has the types of the client's variables, the messages, and the
\* files; no file grows beyond its source.
TypeOK ==
    /\ pc \in {"idle", "ask", "answer", "copy", "data", "done", "status", "first",
               "more", "quit"}
    /\ cmd \in Commands \cup {"ls"}
    /\ cur \in 0..MaxSessions /\ at \in Files /\ pos \in 0..MaxChunks
    /\ flag \in [Files -> BOOLEAN]
    /\ told \in BOOLEAN /\ exit \in 0..1
    /\ lcopy \in [Files -> {Old, None} \cup (0..MaxChunks)]
    /\ up \in [Sessions -> Seq(Message)]
    /\ down \in [Sessions -> Seq(Message)]
    /\ cut \in [Sessions -> BOOLEAN]
    /\ svc \in [Sessions ->
                 [pc: {"closed", "wait", "list", "open", "send", "recv"},
                  file: 0..(NumFiles + 1), fd: {None} \cup (0..MaxSessions),
                  n: 0..MaxChunks]]
    /\ path \in [Files -> {None} \cup (0..MaxSessions)]
    /\ inode \in [Files -> [0..MaxSessions ->
                   [new: 0..MaxChunks, size: 0..MaxChunks, stamped: BOOLEAN]]]
    /\ len \in [Files -> 0..MaxChunks]
    /\ <<links, special>> \in Kinds
    /\ contested \subseteq Files
    /\ stuck \subseteq Files

\* An answer that waits for the client is the answer to its question: what the
\* service said about an earlier file, FAIL twice or FAIL and OKAY, is never
\* taken for the status of the next one.
InStep ==
    /\ pc \in {"status", "first", "more"} \/ (pc = "answer" /\ ~Lists)
    /\ down[cur] # <<>>
    => Head(down[cur]).file = at

\* The whole of a local file has arrived under its name.
Arrived(f) == path[f] # None /\ At(f).new = len[f]

\* A command that ends with status 0 and without a message has done its work:
\* every file that it copied, or skipped because its size and time agree, is
\* there and complete.  Not if an earlier command's service interfered, or the
\* old file could not be removed: it is then opened and not truncated, and may
\* keep a tail, or the size that makes the next sync skip it.
Honest ==
    pc = "idle" /\ cur > 0 /\ exit = 0 /\ ~told =>
        \A f \in (1..CopyEnd) \ contested :
            /\ cmd \in {"push", "pushdir", "sync"} => Arrived(f)
            /\ cmd \in {"pull", "pulldir"} /\ ~flag[f] =>
                  path[f] # None /\ lcopy[f] = At(f).size

\* No service leaves a part of a file behind: when none is at work on f, the
\* path names nothing, the file from before, or one that was sent to its end.
\* "some file types will be deleted ... if the transfer fails" (SYNC.TXT).
\* Where adb_unlink() or utime() failed, which handle_send_file() ignores, a part
\* stays, or the file without its time, until the next SEND of it.
NoPartLeft ==
    \A f \in Files \ (special \cup contested \cup stuck) :
        (\A s \in Sessions : svc[s].pc \in Working => svc[s].file # f)
            => path[f] \in {None, 0} \/ At(f).stamped

\* Client and service never wait for each other, although the client of sync
\* asks about all files before it reads an answer and does not read while it
\* sends a file: one that waits for an answer has one, or a service that will
\* give it; one that waits to write has a service that can read, as it has room
\* to answer or only skips what arrives.
NeverBothWait ==
    pc # "idle" /\ ~Broken(cur) =>
        /\ pc \in Reads =>
              down[cur] # <<>> \/ up[cur] # <<>> \/ svc[cur].pc \in {"list", "open", "recv"}
        /\ pc \notin Reads /\ Len(up[cur]) >= Cap =>
              CanReply(cur) \/ (svc[cur].pc = "send" /\ svc[cur].fd = None)
=============================================================================
