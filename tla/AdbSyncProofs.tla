---------------------------- MODULE AdbSyncProofs ---------------------------
(***************************************************************************)
(* The conversation of file_sync_client.c and file_sync_service.c, AdbSync,*)
(* for every number of files, packets and sessions and every capacity of   *)
(* the stream.                                                             *)
(***************************************************************************)
EXTENDS AdbSync, TLAPS

Places == {"idle", "ask", "answer", "copy", "data", "done", "status", "first",
           "more", "quit"}

AllCommands == {"ls", "push", "pushdir", "sync", "dry", "pull", "pulldir"}

\* Every request but QUIT is about a file.
Requests ==
    {m \in Message : /\ m.id # "QUIT" => m.file \in Files
                     /\ m.id = "DATA" => m.n <= MaxChunks}

\* An entry of a list is one of the files.
Answers == {m \in Message : m.id = "DENT" => m.file \in Files}

\* A service that is at work has a file; one that sends a file has it open.
Services ==
    {r \in [pc: {"closed", "wait", "list", "open", "send", "recv"},
            file: 0..(NumFiles + 1), fd: {None} \cup (0..MaxSessions),
            n: 0..MaxChunks] :
        /\ r.pc \in {"open", "send", "recv"} => r.file \in Files
        /\ r.pc = "list" => r.file > 0
        /\ r.pc = "recv" => r.fd # None
        /\ r.pc = "open" => r.fd = None /\ r.n = 0}

Inodes == [new: 0..MaxChunks, size: 0..MaxChunks, stamped: BOOLEAN]

ClientTypes ==
    /\ pc \in Places /\ cmd \in Commands \cup {"ls"} /\ cur \in 0..MaxSessions
    /\ at \in Files /\ pos \in Nat /\ flag \in [Files -> BOOLEAN]
    /\ told \in BOOLEAN /\ exit \in 0..1
    /\ pc # "idle" => cur \in Sessions

StreamTypes ==
    /\ up \in [Sessions -> Seq(Requests)]
    /\ down \in [Sessions -> Seq(Answers)]
    /\ cut \in [Sessions -> BOOLEAN]
    /\ svc \in [Sessions -> Services]

FileTypes ==
    /\ path \in [Files -> {None} \cup (0..MaxSessions)]
    /\ inode \in [Files -> [0..MaxSessions -> Inodes]]
    /\ len \in [Files -> 0..MaxChunks]
    /\ <<links, special>> \in Kinds
    /\ contested \subseteq Files
    /\ stuck \subseteq Files

\* Nothing has happened in a session that is still to come.
Future ==
    \A s \in Sessions : s > cur =>
        up[s] = <<>> /\ down[s] = <<>> /\ ~cut[s] /\ svc[s] = Closed

Shape == ClientTypes /\ StreamTypes /\ FileTypes /\ Future

-----------------------------------------------------------------------------
(* Sequences, functions and records. *)

LEMMA Updated ==
  ASSUME NEW A, NEW B, NEW f \in [A -> B], NEW a \in A, NEW b \in B,
         NEW g, g = [f EXCEPT ![a] = b]
  PROVE  g \in [A -> B] /\ g[a] = b /\ \A x \in A : x # a => g[x] = f[x]
  OBVIOUS

LEMMA AppendFacts ==
  ASSUME NEW S, NEW q \in Seq(S), NEW m \in S, NEW r, r = Append(q, m)
  PROVE  /\ r \in Seq(S) /\ Len(q) \in Nat /\ Len(r) = Len(q) + 1 /\ r # <<>>
         /\ \A i \in 1..Len(q) : r[i] = q[i]
         /\ r[Len(q) + 1] = m
         /\ DOMAIN r = 1..(Len(q) + 1) /\ DOMAIN q = 1..Len(q)
  OBVIOUS

LEMMA TailFacts ==
  ASSUME NEW S, NEW q \in Seq(S), q # <<>>, NEW r, r = Tail(q)
  PROVE  /\ r \in Seq(S) /\ Len(q) \in Nat /\ Len(q) > 0 /\ Len(r) = Len(q) - 1
         /\ \A i \in 1..(Len(q) - 1) : r[i] = q[i + 1]
         /\ Head(q) = q[1] /\ Head(q) \in S
         /\ DOMAIN r = 1..(Len(q) - 1) /\ DOMAIN q = 1..Len(q)
  OBVIOUS

LEMMA PrefixFacts ==
  ASSUME NEW S, NEW q \in Seq(S), NEW n \in 0..Len(q), NEW r, r = SubSeq(q, 1, n)
  PROVE  /\ r \in Seq(S) /\ Len(q) \in Nat /\ Len(r) = n
         /\ \A i \in 1..n : r[i] = q[i]
         /\ DOMAIN r = 1..n /\ DOMAIN q = 1..Len(q)
  OBVIOUS

LEMMA EmptyFacts ==
  ASSUME NEW S, NEW q \in Seq(S)
  PROVE  /\ Len(q) \in Nat /\ DOMAIN q = 1..Len(q)
         /\ q = <<>> <=> Len(q) = 0
         /\ q # <<>> => Head(q) = q[1] /\ Head(q) \in S
  OBVIOUS

LEMMA MsgFields ==
  ASSUME NEW id, NEW f, NEW n
  PROVE  /\ Msg(id, f, n).id = id /\ Msg(id, f, n).file = f /\ Msg(id, f, n).n = n
         /\ (id \in Ids /\ f \in 0..NumFiles /\ n \in Nat) => Msg(id, f, n) \in Message
  BY DEF Msg, Message

\* What the client may write.
LEMMA RequestType ==
  ASSUME NEW id, NEW f, NEW n \in Nat,
         id \in {"STAT", "LIST", "SEND", "DATA", "DONE", "RECV", "QUIT"},
         f \in Files \/ (f = 0 /\ id = "QUIT"), id = "DATA" => n <= MaxChunks
  PROVE  Msg(id, f, n) \in Requests
<1>1. id \in Ids /\ f \in 0..NumFiles
  BY SyncAssumption DEF Ids, Files
<1> QED BY <1>1, MsgFields DEF Requests

\* What the service may write.
LEMMA AnswerType ==
  ASSUME NEW id, NEW f, NEW n \in Nat,
         id \in {"STAT", "DENT", "DATA", "DONE", "OKAY", "FAIL"},
         f \in Files \/ (f = 0 /\ id = "DONE")
  PROVE  Msg(id, f, n) \in Answers
<1>1. id \in Ids /\ f \in 0..NumFiles
  BY SyncAssumption DEF Ids, Files
<1> QED BY <1>1, MsgFields DEF Answers

LEMMA ClosedType == Closed \in Services /\ Waiting \in Services
                    /\ Closed.pc = "closed" /\ Waiting.pc = "wait"
  BY SyncAssumption DEF Closed, Waiting, Serving, Services, None

\* What a service at work may be.
LEMMA ServingType ==
  ASSUME NEW p \in {"open", "send", "recv"}, NEW f \in Files,
         NEW d \in {None} \cup (0..MaxSessions),
         p = "open" => d = None, p = "recv" => d # None
  PROVE  /\ Serving(p, f, d) \in Services
         /\ Serving(p, f, d).pc = p /\ Serving(p, f, d).file = f
         /\ Serving(p, f, d).fd = d /\ Serving(p, f, d).n = 0
<1>1. f \in 0..(NumFiles + 1) /\ 0 \in 0..MaxChunks
  BY SyncAssumption DEF Files
<1> QED BY <1>1 DEF Serving, Services

-----------------------------------------------------------------------------
(* What the helpers of the actions change. *)

LEMMA CurSession ==
  ASSUME Shape, pc # "idle"
  PROVE  /\ cur \in Sessions /\ ~ClientGone(cur)
         /\ up[cur] \in Seq(Requests) /\ down[cur] \in Seq(Answers)
         /\ svc[cur] \in Services /\ cut[cur] \in BOOLEAN
  BY DEF Shape, ClientTypes, StreamTypes, ClientGone

LEMMA SessionTypes ==
  ASSUME Shape, NEW s \in Sessions
  PROVE  /\ up[s] \in Seq(Requests) /\ down[s] \in Seq(Answers)
         /\ svc[s] \in Services /\ cut[s] \in BOOLEAN
         /\ svc[s].pc # "closed" => s <= cur
<1>1. s > cur => svc[s].pc = "closed"
  BY ClosedType DEF Shape, Future
<1>2. cur \in Nat /\ s \in Nat
  BY SyncAssumption DEF Shape, ClientTypes, Sessions
<1> QED BY <1>1, <1>2 DEF Shape, StreamTypes

\* The client has written m, or tried to.
Wrote(m) ==
    /\ up' \in [Sessions -> Seq(Requests)]
    /\ \A o \in Sessions : o # cur => up'[o] = up[o]
    /\ \/ Broken(cur) /\ up'[cur] = up[cur]
       \/ /\ ~Broken(cur) /\ Len(up[cur]) < Cap
          /\ up'[cur] = Append(up[cur], m)

LEMMA WritesFacts ==
  ASSUME Shape, pc # "idle", NEW m \in Requests, ClientWrites(m)
  PROVE  Wrote(m)
<1>1. cur \in Sessions /\ up[cur] \in Seq(Requests) /\ up \in [Sessions -> Seq(Requests)]
  BY CurSession DEF Shape, StreamTypes
<1> DEFINE r == Append(up[cur], m)
<1>2. r \in Seq(Requests)
  BY <1>1
<1>3. (Broken(cur) /\ up' = up)
      \/ (~Broken(cur) /\ Len(up[cur]) < Cap /\ up' = [up EXCEPT ![cur] = r])
  BY DEF ClientWrites
<1> HIDE DEF r
<1>4. CASE ~Broken(cur) /\ Len(up[cur]) < Cap /\ up' = [up EXCEPT ![cur] = r]
  <2>1. up' \in [Sessions -> Seq(Requests)] /\ up'[cur] = r
        /\ \A o \in Sessions : o # cur => up'[o] = up[o]
    BY <1>1, <1>2, <1>4
  <2> QED BY <1>4, <2>1 DEF Wrote, r
<1> QED BY <1>1, <1>3, <1>4 DEF Wrote

\* What waits for the client in session s is now q.
Leaves(s, q) ==
    /\ down' \in [Sessions -> Seq(Answers)] /\ down'[s] = q
    /\ \A o \in Sessions : o # s => down'[o] = down[o]

LEMMA ConsumeFacts ==
  ASSUME Shape, pc # "idle", down[cur] # <<>>, Consume
  PROVE  Leaves(cur, Tail(down[cur]))
<1>1. cur \in Sessions /\ down[cur] \in Seq(Answers) /\ down \in [Sessions -> Seq(Answers)]
  BY CurSession DEF Shape, StreamTypes
<1> DEFINE r == Tail(down[cur])
<1>2. r \in Seq(Answers) /\ down' = [down EXCEPT ![cur] = r]
  BY <1>1 DEF Consume
<1> HIDE DEF r
<1>3. down' \in [Sessions -> Seq(Answers)] /\ down'[cur] = r
      /\ \A o \in Sessions : o # cur => down'[o] = down[o]
  BY <1>1, <1>2
<1> QED BY <1>3 DEF Leaves, r

LEMMA ExitFacts ==
  ASSUME Shape, pc # "idle", NEW n \in 0..1, Exit(n)
  PROVE  /\ Leaves(cur, <<>>)
         /\ pc' = "idle" /\ exit' = n /\ exit' \in 0..1 /\ at' = 1 /\ pos' = 0
<1>1. cur \in Sessions /\ down \in [Sessions -> Seq(Answers)]
  BY CurSession DEF Shape, StreamTypes
<1>2. down' = [down EXCEPT ![cur] = <<>>] /\ <<>> \in Seq(Answers)
  BY DEF Exit
<1>3. down' \in [Sessions -> Seq(Answers)] /\ down'[cur] = <<>>
      /\ \A o \in Sessions : o # cur => down'[o] = down[o]
  BY <1>1, <1>2
<1> QED BY <1>3 DEF Leaves, Exit

\* The service has read a request.
Took(s) ==
    /\ up' \in [Sessions -> Seq(Requests)] /\ up'[s] = Tail(up[s]) /\ up[s] # <<>>
    /\ \A o \in Sessions : o # s => up'[o] = up[o]

LEMMA TakeFacts ==
  ASSUME Shape, NEW s \in Sessions, up[s] # <<>>, Take(s)
  PROVE  Took(s)
<1>1. up[s] \in Seq(Requests) /\ up \in [Sessions -> Seq(Requests)]
  BY DEF Shape, StreamTypes
<1> DEFINE r == Tail(up[s])
<1>2. r \in Seq(Requests) /\ up' = [up EXCEPT ![s] = r]
  BY <1>1 DEF Take
<1> HIDE DEF r
<1>3. up' \in [Sessions -> Seq(Requests)] /\ up'[s] = r
      /\ \A o \in Sessions : o # s => up'[o] = up[o]
  BY <1>1, <1>2
<1> QED BY <1>3 DEF Took, r

\* The service has written p, if somebody is there to read it.
Told(s, p) ==
    /\ down' \in [Sessions -> Seq(Answers)]
    /\ \A o \in Sessions : o # s => down'[o] = down[o]
    /\ down'[s] = IF cut[s] \/ ClientGone(s) THEN down[s] ELSE down[s] \o p

LEMMA ReplyFacts ==
  ASSUME Shape, NEW s \in Sessions, NEW p \in Seq(Answers), Reply(s, p)
  PROVE  Told(s, p)
<1>1. down[s] \in Seq(Answers) /\ down \in [Sessions -> Seq(Answers)]
  BY DEF Shape, StreamTypes
<1> DEFINE r == down[s] \o p
<1>2. r \in Seq(Answers)
  BY ONLY <1>1, p \in Seq(Answers)
<1>3. down' = IF cut[s] \/ ClientGone(s) THEN down ELSE [down EXCEPT ![s] = r]
  BY DEF Reply
<1> HIDE DEF r
<1>4. CASE ~(cut[s] \/ ClientGone(s))
  <2>1. down' \in [Sessions -> Seq(Answers)] /\ down'[s] = r
        /\ \A o \in Sessions : o # s => down'[o] = down[o]
    BY <1>1, <1>2, <1>3, <1>4
  <2> QED BY <1>4, <2>1 DEF Told, r
<1> QED BY <1>1, <1>3, <1>4 DEF Told

\* The service of session s is now in state r.
Turns(s, r) ==
    /\ svc' \in [Sessions -> Services] /\ svc'[s] = r /\ r \in Services
    /\ \A o \in Sessions : o # s => svc'[o] = svc[o]

LEMMA BecomesFacts ==
  ASSUME Shape, NEW s \in Sessions, NEW r \in Services, Becomes(s, r)
  PROVE  Turns(s, r)
BY DEF Shape, StreamTypes, Becomes, Turns

LEMMA AnsweredFacts ==
  ASSUME Shape, NEW s \in Sessions, NEW r \in Services, Answered(s, r)
  PROVE  Turns(s, r) \/ ((cut[s] \/ ClientGone(s)) /\ Turns(s, Closed))
BY BecomesFacts, ClosedType DEF Answered

-----------------------------------------------------------------------------
(* The types. *)

\* A step of the client on its own session.
LEMMA ClientShape ==
  ASSUME Shape, pc # "idle", UNCHANGED others, cur' = cur, ClientTypes',
         up' = up \/ \E m \in Requests : Wrote(m),
         down' = down \/ \E q : Leaves(cur, q)
  PROVE  Shape'
<1>1. UNCHANGED <<cut, svc, path, inode, contested, stuck, len, links, special>>
  BY DEF others, remote, fixed
<1>2. up' \in [Sessions -> Seq(Requests)] /\ down' \in [Sessions -> Seq(Answers)]
      /\ \A o \in Sessions : o # cur => up'[o] = up[o] /\ down'[o] = down[o]
  BY DEF Shape, StreamTypes, Wrote, Leaves
<1>3. StreamTypes' /\ FileTypes'
  BY <1>1, <1>2 DEF Shape, StreamTypes, FileTypes
<1>4. Future'
  <2>1. cur \in Nat /\ \A s \in Sessions : s > cur => s # cur
    BY SyncAssumption DEF Shape, ClientTypes, Sessions
  <2> QED BY <1>1, <1>2, <2>1 DEF Shape, Future
<1> QED BY <1>3, <1>4 DEF Shape

\* A step of the service of session s.
ServiceMove(s) ==
    /\ svc[s].pc # "closed" /\ UNCHANGED <<client, cut, fixed>>
    /\ up' = up \/ Took(s) 
       \/ (/\ up' \in [Sessions -> Seq(Requests)] /\ up'[s] = <<>>
           /\ \A o \in Sessions : o # s => up'[o] = up[o])
    /\ down' = down \/ \E p : Told(s, p)
    /\ svc' = svc \/ \E r : Turns(s, r)

LEMMA ServiceShape ==
  ASSUME Shape, NEW s \in Sessions, ServiceMove(s), FileTypes'
  PROVE  Shape'
<1>1. UNCHANGED <<pc, cmd, cur, at, pos, flag, told, exit, lcopy, cut>>
  BY DEF ServiceMove, client
<1>2. /\ up' \in [Sessions -> Seq(Requests)] /\ down' \in [Sessions -> Seq(Answers)]
      /\ svc' \in [Sessions -> Services]
      /\ \A o \in Sessions : o # s =>
            up'[o] = up[o] /\ down'[o] = down[o] /\ svc'[o] = svc[o]
  BY DEF Shape, StreamTypes, ServiceMove, Took, Told, Turns
<1>3. ClientTypes' /\ StreamTypes'
  BY <1>1, <1>2 DEF Shape, ClientTypes, StreamTypes
<1>4. Future'
  <2>1. s <= cur /\ cur \in Nat /\ s \in Nat
    BY SessionTypes, SyncAssumption DEF Shape, ClientTypes, Sessions, ServiceMove
  <2>2. \A o \in Sessions : o > cur => o # s
    BY <2>1 DEF Sessions
  <2> QED BY <1>1, <1>2, <2>2 DEF Shape, Future
<1> QED BY <1>3, <1>4 DEF Shape

\* Places of a list.
LEMMA ListEnds ==
  ASSUME Shape
  PROVE  /\ StatEnd \in Files /\ CopyEnd \in Files /\ 1 \in Files
         /\ at < StatEnd => at + 1 \in Files
         /\ at < CopyEnd => at + 1 \in Files
BY SyncAssumption DEF Shape, ClientTypes, StatEnd, CopyEnd, Files

LEMMA AdvanceFacts ==
  ASSUME Shape, Advance
  PROVE  /\ at' \in Files /\ pc' \in Places /\ pc' # "idle"
         /\ \/ at < CopyEnd /\ at' = at + 1 /\ pc' = "copy"
            \/ ~(at < CopyEnd) /\ at' = at /\ pc' = "quit"
<1>1. at \in Files
  BY DEF Shape, ClientTypes
<1> QED BY <1>1, ListEnds DEF Advance, Places

LEMMA AskShape ==
  ASSUME Shape, Ask
  PROVE  /\ Shape'
         /\ Wrote(Msg(IF Lists THEN "LIST" ELSE "STAT", at, 0))
<1> DEFINE m == Msg(IF Lists THEN "LIST" ELSE "STAT", at, 0)
<1>1. pc # "idle" /\ at \in Files /\ UNCHANGED <<cmd, cur, pos, flag, told, exit, lcopy, down, others>>
  BY DEF Ask, Shape, ClientTypes
<1>2. m \in Requests
  BY <1>1, RequestType
<1>3. Wrote(m)
  BY <1>1, <1>2, WritesFacts DEF Ask
<1>4. at' \in Files /\ pc' \in {"ask", "answer"}
  BY <1>1, ListEnds DEF Ask
<1>5. ClientTypes'
  BY <1>1, <1>4, CurSession DEF Shape, ClientTypes, Places
<1> QED BY <1>1, <1>2, <1>3, <1>5, ClientShape

LEMMA GiveUpShape ==
  ASSUME Shape, pc # "idle", GiveUp, UNCHANGED others, told' \in BOOLEAN,
         up' = up \/ \E m \in Requests : Wrote(m)
  PROVE  Shape' /\ pc' = "idle" /\ cur' = cur /\ exit' = 1 /\ Leaves(cur, <<>>)
<1>1. Exit(1) /\ UNCHANGED <<cmd, cur, flag, lcopy>>
  BY DEF GiveUp
<1>2. Leaves(cur, <<>>) /\ pc' = "idle" /\ exit' = 1 /\ exit' \in 0..1 /\ at' = 1 /\ pos' = 0
  BY <1>1, ExitFacts
<1>3. ClientTypes'
  BY <1>1, <1>2, ListEnds DEF Shape, ClientTypes, Places
<1> QED BY <1>1, <1>2, <1>3, ClientShape

LEMMA StatAnsweredShape ==
  ASSUME Shape, StatAnswered
  PROVE  Shape'
<1>1. pc # "idle" /\ down[cur] # <<>> /\ UNCHANGED <<up, others>>
  BY DEF StatAnswered, Received
<1>2. CASE told' = TRUE /\ GiveUp
  BY <1>1, <1>2, GiveUpShape
<1>3. CASE ~(cmd = "pull" /\ Head(down[cur]).n = Missing)
  <2>1. Consume /\ UNCHANGED <<cmd, cur, pos, told, exit, lcopy>>
        /\ flag' = [flag EXCEPT ![at] = cmd \in {"sync", "dry"} /\ SameFile(Head(down[cur]))]
    BY <1>3 DEF StatAnswered
  <2>2. at' \in Files /\ pc' \in Places /\ pc' # "idle"
    BY <1>3, ListEnds DEF StatAnswered, Shape, ClientTypes, Places
  <2>3. flag' \in [Files -> BOOLEAN]
    BY <2>1 DEF Shape, ClientTypes
  <2>4. ClientTypes'
    BY <1>1, <2>1, <2>2, <2>3, CurSession DEF Shape, ClientTypes
  <2>5. Leaves(cur, Tail(down[cur]))
    BY <1>1, <2>1, ConsumeFacts
  <2> QED BY <1>1, <2>1, <2>4, <2>5, ClientShape
<1> QED BY <1>2, <1>3 DEF StatAnswered

LEMMA EntryShape ==
  ASSUME Shape, Entry
  PROVE  Shape'
<1>1. pc # "idle" /\ down[cur] # <<>> /\ Consume /\ Head(down[cur]).id = "DENT"
      /\ UNCHANGED <<pc, cmd, cur, at, pos, told, exit, lcopy, up, others>>
  BY DEF Entry, Received
<1>2. Head(down[cur]) \in Answers
  BY <1>1, CurSession, EmptyFacts
<1>3. flag' \in [Files -> BOOLEAN]
  BY <1>1, <1>2 DEF Entry, Shape, ClientTypes, Answers
<1>4. ClientTypes'
  BY <1>1, <1>3 DEF Shape, ClientTypes
<1>5. Leaves(cur, Tail(down[cur]))
  BY <1>1, ConsumeFacts
<1> QED BY <1>1, <1>4, <1>5, ClientShape

LEMMA ListedShape ==
  ASSUME Shape, Listed
  PROVE  Shape'
<1>1. pc # "idle" /\ down[cur] # <<>> /\ Consume /\ pc' \in {"quit", "copy"}
      /\ UNCHANGED <<cmd, cur, at, pos, flag, told, exit, lcopy, up, others>>
  BY DEF Listed, Received
<1>2. ClientTypes'
  BY <1>1, CurSession DEF Shape, ClientTypes, Places
<1>3. Leaves(cur, Tail(down[cur]))
  BY <1>1, ConsumeFacts
<1> QED BY <1>1, <1>2, <1>3, ClientShape

LEMMA SkipShape ==
  ASSUME Shape, Skip
  PROVE  Shape'
<1>1. pc # "idle" /\ Advance
      /\ UNCHANGED <<cmd, cur, pos, flag, told, exit, lcopy, up, down, others>>
  BY DEF Skip
<1>2. ClientTypes'
  BY <1>1, CurSession, AdvanceFacts DEF Shape, ClientTypes
<1> QED BY <1>1, <1>2, ClientShape

LEMMA SendRequestShape ==
  ASSUME Shape, SendRequest
  PROVE  Shape' /\ Wrote(Msg("SEND", at, 0))
<1>1. pc # "idle" /\ at \in Files /\ UNCHANGED others /\ ClientWrites(Msg("SEND", at, 0))
  BY DEF SendRequest, Shape, ClientTypes
<1>2. Msg("SEND", at, 0) \in Requests
  BY <1>1, RequestType
<1>3. Wrote(Msg("SEND", at, 0))
  BY <1>1, <1>2, WritesFacts
<1>4. CASE at \notin links
  <2>1. pc' = "data" /\ pos' = 0 /\ UNCHANGED <<cmd, cur, at, flag, told, exit, lcopy, down>>
    BY <1>4 DEF SendRequest
  <2>2. ClientTypes'
    BY <1>1, <2>1, CurSession DEF Shape, ClientTypes, Places
  <2> QED BY <1>1, <1>2, <1>3, <2>1, <2>2, ClientShape
<1>5. CASE told' = TRUE /\ GiveUp
  BY <1>1, <1>2, <1>3, <1>5, GiveUpShape
<1> QED BY <1>3, <1>4, <1>5 DEF SendRequest

LEMMA SendDataShape ==
  ASSUME Shape, SendData
  PROVE  Shape' /\ (up' # up => Wrote(Msg("DATA", at, pos + 1)))
<1>1. pc # "idle" /\ at \in Files /\ pos \in Nat /\ pos < len[at]
      /\ UNCHANGED <<cmd, cur, at, flag, exit, lcopy, down, others>>
  BY DEF SendData, HasMore, Shape, ClientTypes
<1>2. len[at] \in Nat /\ len[at] <= MaxChunks /\ MaxChunks \in Nat
  BY <1>1, SyncAssumption DEF Shape, FileTypes
<1>3. CASE ClientWrites(Msg("DATA", at, pos + 1)) /\ pos' = pos + 1 /\ UNCHANGED <<pc, told>>
  <2>1. Msg("DATA", at, pos + 1) \in Requests
    <3>1. pos + 1 \in Nat /\ pos + 1 <= MaxChunks
      BY <1>1, <1>2
    <3> QED BY <1>1, <3>1, RequestType
  <2>2. Wrote(Msg("DATA", at, pos + 1))
    BY <1>1, <1>3, <2>1, WritesFacts
  <2>3. ClientTypes'
    BY <1>1, <1>3 DEF Shape, ClientTypes
  <2> QED BY <1>1, <2>1, <2>2, <2>3, ClientShape
<1>4. CASE pc' = "done" /\ told' = TRUE /\ UNCHANGED <<pos, up>>
  <2>1. ClientTypes'
    BY <1>1, <1>4, CurSession DEF Shape, ClientTypes, Places
  <2> QED BY <1>1, <1>4, <2>1, ClientShape
<1> QED BY <1>3, <1>4 DEF SendData

LEMMA SendDoneShape ==
  ASSUME Shape, SendDone
  PROVE  Shape' /\ Wrote(Msg("DONE", at, pos))
<1>1. pc # "idle" /\ at \in Files /\ pos \in Nat /\ pc' = "status"
      /\ ClientWrites(Msg("DONE", at, pos))
      /\ UNCHANGED <<cmd, cur, at, pos, flag, told, exit, lcopy, down, others>>
  BY DEF SendDone, Shape, ClientTypes
<1>2. Msg("DONE", at, pos) \in Requests
  BY <1>1, RequestType
<1>3. Wrote(Msg("DONE", at, pos))
  BY <1>1, <1>2, WritesFacts
<1>4. ClientTypes'
  BY <1>1, CurSession DEF Shape, ClientTypes, Places
<1> QED BY <1>1, <1>2, <1>3, <1>4, ClientShape

LEMMA SendStatusShape ==
  ASSUME Shape, SendStatus
  PROVE  Shape'
<1>1. pc # "idle" /\ down[cur] # <<>> /\ UNCHANGED <<up, others>>
  BY DEF SendStatus, Received
<1>2. CASE Consume /\ Advance /\ UNCHANGED <<cmd, cur, pos, flag, told, exit, lcopy>>
  <2>1. ClientTypes'
    BY <1>1, <1>2, CurSession, AdvanceFacts DEF Shape, ClientTypes
  <2>2. Leaves(cur, Tail(down[cur]))
    BY <1>1, <1>2, ConsumeFacts
  <2> QED BY <1>1, <1>2, <2>1, <2>2, ClientShape
<1>3. CASE FailStatus
  BY <1>1, <1>3, GiveUpShape DEF FailStatus
<1> QED BY <1>2, <1>3 DEF SendStatus

LEMMA RecvRequestShape ==
  ASSUME Shape, RecvRequest
  PROVE  Shape' /\ Wrote(Msg("RECV", at, 0))
<1>1. pc # "idle" /\ at \in Files /\ pc' = "first" /\ pos' = 0
      /\ ClientWrites(Msg("RECV", at, 0))
      /\ UNCHANGED <<cmd, cur, at, flag, told, exit, lcopy, down, others>>
  BY DEF RecvRequest, Shape, ClientTypes
<1>2. Msg("RECV", at, 0) \in Requests
  BY <1>1, RequestType
<1>3. Wrote(Msg("RECV", at, 0))
  BY <1>1, <1>2, WritesFacts
<1>4. ClientTypes'
  BY <1>1, CurSession DEF Shape, ClientTypes, Places
<1> QED BY <1>1, <1>2, <1>3, <1>4, ClientShape

\* The ways in which a client ends.
LEMMA ExitShape ==
  ASSUME Shape, pc # "idle", NEW n \in 0..1, Exit(n), UNCHANGED <<cmd, cur, flag, others>>,
         told' \in BOOLEAN, up' = up \/ \E m \in Requests : Wrote(m)
  PROVE  Shape' /\ pc' = "idle"
<1>1. Leaves(cur, <<>>) /\ pc' = "idle" /\ exit' \in 0..1 /\ at' = 1 /\ pos' = 0
  BY ExitFacts
<1>2. ClientTypes'
  BY <1>1, ListEnds DEF Shape, ClientTypes, Places
<1> QED BY <1>1, <1>2, ClientShape

\* The cases of RecvData.
RecvMore ==
    /\ Received("DATA") /\ Consume /\ pos' = pos + 1 /\ pc' = "more"
    /\ lcopy' = [lcopy EXCEPT ![at] = pos + 1]
    /\ UNCHANGED <<cmd, cur, at, flag, told, exit>>

RecvLast ==
    /\ Received("DONE") /\ Consume /\ Advance
    /\ lcopy' = [lcopy EXCEPT ![at] = pos]
    /\ UNCHANGED <<cmd, cur, pos, flag, told, exit>>

RecvFailed ==
    /\ Received("FAIL") /\ Consume /\ Advance /\ told' = TRUE
    /\ lcopy' = [lcopy EXCEPT ![at] = None]
    /\ UNCHANGED <<cmd, cur, pos, flag, exit>>

RecvStops ==
    /\ told' = TRUE \/ told' = told
    /\ Exit(1) /\ UNCHANGED <<cmd, cur, flag>>
    /\ \/ lcopy' = [lcopy EXCEPT ![at] = None]
       \/ lcopy' = [lcopy EXCEPT ![at] = @]
       \/ lcopy' = [lcopy EXCEPT ![at] = pos]

LEMMA RecvCases ==
  ASSUME RecvData
  PROVE  /\ pc # "idle" /\ down[cur] # <<>> /\ UNCHANGED <<up, others>>
         /\ RecvMore \/ RecvLast \/ RecvFailed \/ RecvStops
<1>1. pc # "idle" /\ down[cur] # <<>> /\ UNCHANGED <<up, others>>
  BY DEF RecvData, Received
<1>2. CASE Received("DATA") /\ Consume /\ pos' = pos + 1
           /\ lcopy' = [lcopy EXCEPT ![at] = pos + 1] /\ pc' = "more"
           /\ UNCHANGED <<cmd, cur, at, flag, told, exit>>
  BY <1>1, <1>2 DEF RecvMore
<1>3. CASE LocalFails
  BY <1>1, <1>3 DEF RecvStops, LocalFails
<1>4. CASE Received("DONE") /\ lcopy' = [lcopy EXCEPT ![at] = pos]
           /\ ((Consume /\ Advance /\ UNCHANGED <<pos, exit>>) \/ Exit(1))
           /\ UNCHANGED <<cmd, cur, flag, told>>
  BY <1>1, <1>4 DEF RecvLast, RecvStops
<1>5. CASE Received("FAIL") /\ lcopy' = [lcopy EXCEPT ![at] = None] /\ told' = TRUE
           /\ ((Consume /\ Advance /\ UNCHANGED <<pos, exit>>) \/ Exit(1))
           /\ UNCHANGED <<cmd, cur, flag>>
  BY <1>1, <1>5 DEF RecvFailed, RecvStops
<1> QED BY <1>2, <1>3, <1>4, <1>5 DEF RecvData

LEMMA RecvDataShape ==
  ASSUME Shape, RecvData
  PROVE  Shape'
<1>1. /\ pc # "idle" /\ down[cur] # <<>> /\ UNCHANGED <<up, others>>
      /\ RecvMore \/ RecvLast \/ RecvFailed \/ RecvStops
  BY RecvCases
<1>2. CASE RecvMore
  <2>1. ClientTypes'
    BY <1>1, <1>2, CurSession DEF RecvMore, Shape, ClientTypes, Places
  <2>2. Leaves(cur, Tail(down[cur])) /\ cur' = cur
    BY <1>1, <1>2, ConsumeFacts DEF RecvMore
  <2> QED BY <1>1, <2>1, <2>2, ClientShape
<1>3. CASE RecvLast
  <2>1. ClientTypes'
    BY <1>1, <1>3, CurSession, AdvanceFacts DEF RecvLast, Shape, ClientTypes
  <2>2. Leaves(cur, Tail(down[cur])) /\ cur' = cur
    BY <1>1, <1>3, ConsumeFacts DEF RecvLast
  <2> QED BY <1>1, <2>1, <2>2, ClientShape
<1>4. CASE RecvFailed
  <2>1. ClientTypes'
    BY <1>1, <1>4, CurSession, AdvanceFacts DEF RecvFailed, Shape, ClientTypes
  <2>2. Leaves(cur, Tail(down[cur])) /\ cur' = cur
    BY <1>1, <1>4, ConsumeFacts DEF RecvFailed
  <2> QED BY <1>1, <2>1, <2>2, ClientShape
<1>5. CASE RecvStops
  <2>1. told' \in BOOLEAN /\ Exit(1) /\ UNCHANGED <<cmd, cur, flag, others>>
    BY <1>1, <1>5 DEF RecvStops, Shape, ClientTypes
  <2> QED BY <1>1, <2>1, ExitShape
<1> QED BY <1>1, <1>2, <1>3, <1>4, <1>5

LEMMA QuitShape ==
  ASSUME Shape, Quit
  PROVE  Shape' /\ Wrote(Msg("QUIT", 0, 0))
<1>1. pc # "idle" /\ ClientWrites(Msg("QUIT", 0, 0)) /\ Exit(0)
      /\ UNCHANGED <<cmd, cur, flag, told, lcopy, others>>
  BY DEF Quit
<1>2. Msg("QUIT", 0, 0) \in Requests
  BY RequestType
<1>3. Wrote(Msg("QUIT", 0, 0))
  BY <1>1, <1>2, WritesFacts
<1>4. told' \in BOOLEAN
  BY <1>1 DEF Shape, ClientTypes
<1> QED BY <1>1, <1>2, <1>3, <1>4, ExitShape

LEMMA LeaveShape ==
  ASSUME Shape, ClientFails \/ ClientKilled
  PROVE  Shape' /\ pc' = "idle" /\ exit' = 1 /\ UNCHANGED <<cmd, cur, flag, told, lcopy, up, others>>
<1>1. pc # "idle" /\ Exit(1) /\ UNCHANGED <<cmd, cur, flag, told, lcopy, up, others>>
  BY DEF ClientFails, ClientKilled, GiveUp
<1>2. told' \in BOOLEAN
  BY <1>1 DEF Shape, ClientTypes
<1> QED BY <1>1, <1>2, ExitShape DEF Exit

LEMMA BeginShape ==
  ASSUME Shape, NEW c \in Commands, Begin(c)
  PROVE  Shape'
<1>1. cur \in Nat /\ cur + 1 \in Sessions /\ cur' = cur + 1 /\ cur < MaxSessions
  BY SyncAssumption DEF Begin, Shape, ClientTypes, Sessions
<1>2. UNCHANGED <<lcopy, up, down, cut, path, inode, contested, stuck, len, links,
                  special>>
  BY DEF Begin, remote, fixed
<1>3. flag' \in [Files -> BOOLEAN]
  BY DEF Begin
<1>4. ClientTypes'
  <2>1. pc' \in Places /\ cmd' = c /\ at' = 1 /\ pos' = 0 /\ told' = FALSE /\ exit' = 0
    BY DEF Begin, Places
  <2>2. cur + 1 \in 0..MaxSessions
    BY <1>1 DEF Sessions
  <2>3. cmd' \in Commands \cup {"ls"} /\ cur' \in 0..MaxSessions /\ cur' \in Sessions
    BY <1>1, <2>1, <2>2
  <2>4. at' \in Files /\ pos' \in Nat /\ exit' \in 0..1
    BY <2>1, ListEnds
  <2>5. told' \in BOOLEAN
    BY <2>1
  <2> QED BY <1>3, <2>1, <2>3, <2>4, <2>5 DEF ClientTypes
<1>5. svc' \in [Sessions -> Services] /\ \A o \in Sessions : o # cur + 1 => svc'[o] = svc[o]
  BY <1>1, ClosedType DEF Begin, Shape, StreamTypes
<1>6. StreamTypes' /\ FileTypes'
  BY <1>2, <1>5 DEF Shape, StreamTypes, FileTypes
<1>7. \A s \in Sessions : s > cur + 1 => s > cur /\ s # cur + 1
  BY <1>1 DEF Sessions
<1>8. Future'
  BY <1>1, <1>2, <1>5, <1>7 DEF Shape, Future
<1> QED BY <1>4, <1>6, <1>8 DEF Shape

\* What is under way in session s is cut short.
Shortened(s) ==
    /\ up' \in [Sessions -> Seq(Requests)] /\ down' \in [Sessions -> Seq(Answers)]
    /\ \A o \in Sessions : o # s => up'[o] = up[o] /\ down'[o] = down[o] /\ cut'[o] = cut[o]
    /\ cut' \in [Sessions -> BOOLEAN] /\ cut'[s]
    /\ \E n \in 0..Len(up[s]) : up'[s] = SubSeq(up[s], 1, n)
    /\ \E k \in 0..Len(down[s]) : down'[s] = SubSeq(down[s], 1, k)

LEMMA LinkDownShape ==
  ASSUME Shape, NEW s \in Sessions, LinkDown(s)
  PROVE  Shape' /\ Shortened(s) /\ s = cur /\ pc # "idle"
<1>1. s = cur /\ pc # "idle" /\ UNCHANGED <<client, svc, remote, fixed>>
  BY DEF LinkDown, ClientGone
<1>2. up[s] \in Seq(Requests) /\ down[s] \in Seq(Answers)
      /\ up \in [Sessions -> Seq(Requests)] /\ down \in [Sessions -> Seq(Answers)]
  BY DEF Shape, StreamTypes
<1>3. PICK n \in 0..Len(up[s]), k \in 0..Len(down[s]) :
        /\ up' = [up EXCEPT ![s] = SubSeq(up[s], 1, n)]
        /\ down' = [down EXCEPT ![s] = SubSeq(down[s], 1, k)]
  BY DEF LinkDown
<1>4. SubSeq(up[s], 1, n) \in Seq(Requests) /\ SubSeq(down[s], 1, k) \in Seq(Answers)
  BY <1>2, PrefixFacts
<1>5. cut' = [cut EXCEPT ![s] = TRUE] /\ cut \in [Sessions -> BOOLEAN]
  BY DEF LinkDown, Shape, StreamTypes
<1>6. Shortened(s)
  <2> DEFINE u == SubSeq(up[s], 1, n)
             d == SubSeq(down[s], 1, k)
  <2>1. u \in Seq(Requests) /\ d \in Seq(Answers) /\ up' = [up EXCEPT ![s] = u]
        /\ down' = [down EXCEPT ![s] = d]
    BY <1>3, <1>4
  <2> HIDE DEF u, d
  <2>2. up' \in [Sessions -> Seq(Requests)] /\ up'[s] = u
        /\ \A o \in Sessions : o # s => up'[o] = up[o]
    BY <1>2, <2>1
  <2>3. down' \in [Sessions -> Seq(Answers)] /\ down'[s] = d
        /\ \A o \in Sessions : o # s => down'[o] = down[o]
    BY <1>2, <2>1
  <2>4. cut' \in [Sessions -> BOOLEAN] /\ cut'[s]
        /\ \A o \in Sessions : o # s => cut'[o] = cut[o]
    BY <1>5
  <2> QED BY <2>2, <2>3, <2>4 DEF Shortened, u, d
<1>7. UNCHANGED <<pc, cmd, cur, at, pos, flag, told, exit, lcopy, svc, path, inode, contested,
                  stuck, len, links, special>>
  BY <1>1 DEF client, remote, fixed
<1>8. ClientTypes' /\ StreamTypes' /\ FileTypes'
  BY <1>6, <1>7 DEF Shape, ClientTypes, StreamTypes, FileTypes, Shortened
<1>9. Future'
  <2>1. cur \in Nat /\ \A o \in Sessions : o > cur => o # s
    BY <1>1, SyncAssumption DEF Shape, ClientTypes, Sessions
  <2> QED BY <1>6, <1>7, <2>1 DEF Shape, Future, Shortened
<1> QED BY <1>1, <1>6, <1>8, <1>9 DEF Shape

-----------------------------------------------------------------------------
(* The steps of the service. *)

LEMMA UnlinkType ==
  ASSUME Shape, NEW f \in Files
  PROVE  /\ Unlink(f) \in [Files -> {None} \cup (0..MaxSessions)]
         /\ \A g \in Files : g # f => Unlink(f)[g] = path[g]
         /\ Unlink(f)[f] = IF f \in special THEN path[f] ELSE None
BY DEF Shape, FileTypes, Unlink

\* The request that a service reads.
LEMMA HeadFacts ==
  ASSUME Shape, NEW s \in Sessions, up[s] # <<>>
  PROVE  /\ Head(up[s]) = up[s][1] /\ Head(up[s]) \in Message /\ Head(up[s]).n \in Nat
         /\ Head(up[s]).id # "QUIT" => Head(up[s]).file \in Files
         /\ Head(up[s]).id = "DATA" => Head(up[s]).n \in 0..MaxChunks
<1>1. Head(up[s]) = up[s][1] /\ Head(up[s]) \in Requests
  BY SessionTypes, EmptyFacts
<1> QED BY <1>1, SyncAssumption DEF Requests, Message

LEMMA do_statFacts ==
  ASSUME Shape, NEW s \in Sessions, do_stat(s)
  PROVE  /\ Took(s) /\ Head(up[s]).id = "STAT" /\ Head(up[s]).file \in Files
         /\ Told(s, <<Msg("STAT", Head(up[s]).file, StatOf(Head(up[s]).file))>>)
         /\ Turns(s, Waiting) \/ ((cut[s] \/ ClientGone(s)) /\ Turns(s, Closed))
         /\ svc[s].pc = "wait" /\ UNCHANGED <<client, cut, remote, fixed>>
         /\ StatOf(Head(up[s]).file) \in 0..3
<1> DEFINE f == Head(up[s]).file
<1>1. up[s] # <<>> /\ Head(up[s]).id = "STAT" /\ svc[s].pc = "wait"
      /\ Take(s) /\ Reply(s, <<Msg("STAT", f, StatOf(f))>>) /\ Answered(s, Waiting)
      /\ UNCHANGED <<client, cut, remote, fixed>>
  BY DEF do_stat, Request
<1>2. f \in Files
  BY <1>1, HeadFacts
<1>3. StatOf(f) \in 0..3 /\ StatOf(f) \in Nat
  BY DEF StatOf, Missing, Differs, OtherSize, Same
<1>4. Msg("STAT", f, StatOf(f)) \in Answers
  BY <1>2, <1>3, AnswerType
<1>5. <<Msg("STAT", f, StatOf(f))>> \in Seq(Answers)
  BY <1>4
<1>6. Told(s, <<Msg("STAT", f, StatOf(f))>>)
  BY <1>1, <1>5, ReplyFacts
<1>7. Took(s)
  BY <1>1, TakeFacts
<1>8. Turns(s, Waiting) \/ ((cut[s] \/ ClientGone(s)) /\ Turns(s, Closed))
  BY <1>1, AnsweredFacts, ClosedType
<1> QED BY <1>1, <1>2, <1>3, <1>6, <1>7, <1>8

LEMMA do_statShape ==
  ASSUME Shape, NEW s \in Sessions, do_stat(s)
  PROVE  Shape'
<1>1. ServiceMove(s)
  BY do_statFacts DEF ServiceMove
<1>2. FileTypes'
  BY do_statFacts DEF Shape, FileTypes, remote, fixed
<1> QED BY <1>1, <1>2, ServiceShape

LEMMA ListBeginFacts ==
  ASSUME Shape, NEW s \in Sessions, ListBegin(s)
  PROVE  /\ Took(s) /\ Head(up[s]).id = "LIST"
         /\ \E f \in {1, NumFiles + 1} : Turns(s, Serving("list", f, None))
         /\ svc[s].pc = "wait" /\ UNCHANGED <<client, down, cut, remote, fixed>>
<1>1. up[s] # <<>> /\ Head(up[s]).id = "LIST" /\ svc[s].pc = "wait" /\ Take(s)
      /\ UNCHANGED <<client, down, cut, remote, fixed>>
  BY DEF ListBegin, Request
<1>2. PICK f \in {1, NumFiles + 1} : Becomes(s, Serving("list", f, None))
  BY DEF ListBegin
<1>3. Serving("list", f, None) \in Services
  <2>1. f \in 1..(NumFiles + 1)
    BY SyncAssumption
  <2> QED BY <2>1, SyncAssumption DEF Serving, Services, None
<1>4. Turns(s, Serving("list", f, None))
  BY <1>2, <1>3, BecomesFacts
<1>5. Took(s)
  BY <1>1, TakeFacts
<1> QED BY <1>1, <1>4, <1>5

LEMMA ListBeginShape ==
  ASSUME Shape, NEW s \in Sessions, ListBegin(s)
  PROVE  Shape'
<1>1. ServiceMove(s)
  BY ListBeginFacts DEF ServiceMove
<1>2. FileTypes'
  BY ListBeginFacts DEF Shape, FileTypes, remote, fixed
<1> QED BY <1>1, <1>2, ServiceShape

\* An entry, or none, or the end of the list.
LEMMA ListEntryFacts ==
  ASSUME Shape, NEW s \in Sessions, ListEntry(s)
  PROVE  /\ svc[s].pc = "list" /\ UNCHANGED <<client, up, cut, remote, fixed>>
         /\ \/ /\ svc[s].file \in Files
               /\ Turns(s, [svc[s] EXCEPT !.file = svc[s].file + 1])
               /\ UNCHANGED down
                  \/ (CanReply(s) /\ Told(s, <<Msg("DENT", svc[s].file, 0)>>))
            \/ CanReply(s) /\ Turns(s, Waiting) /\ Told(s, <<Msg("DONE", 0, 0)>>)
<1> DEFINE f == svc[s].file
<1>1. svc[s].pc = "list" /\ UNCHANGED <<client, up, cut, remote, fixed>>
  BY DEF ListEntry
<1>2. svc[s] \in Services /\ f \in 1..(NumFiles + 1)
  BY <1>1, SessionTypes, SyncAssumption DEF Services
<1>3. CASE f <= NumFiles
  <2>1. f \in Files /\ Becomes(s, [svc[s] EXCEPT !.file = f + 1])
    <3>1. f \in Files /\ ~(f > NumFiles)
      BY <1>2, <1>3, SyncAssumption DEF Files
    <3> QED BY <3>1 DEF ListEntry
  <2>2. [svc[s] EXCEPT !.file = f + 1] \in Services
    BY <1>1, <1>2, <2>1, SyncAssumption DEF Services, Files
  <2>3. Turns(s, [svc[s] EXCEPT !.file = f + 1])
    BY <2>1, <2>2, BecomesFacts
  <2>4. Msg("DENT", f, 0) \in Answers
    BY <2>1, AnswerType
  <2>5. <<Msg("DENT", f, 0)>> \in Seq(Answers)
    BY <2>4
  <2>6. UNCHANGED down \/ (CanReply(s) /\ Told(s, <<Msg("DENT", f, 0)>>))
    <3>1. UNCHANGED down \/ (CanReply(s) /\ Reply(s, <<Msg("DENT", f, 0)>>))
      BY <1>2, <1>3, SyncAssumption DEF ListEntry
    <3> QED BY <2>5, <3>1, ReplyFacts
  <2> QED BY <1>1, <2>1, <2>3, <2>6
<1>4. CASE f > NumFiles
  <2>1. CanReply(s) /\ Reply(s, <<Msg("DONE", 0, 0)>>) /\ Becomes(s, Waiting)
    BY <1>2, <1>4, SyncAssumption DEF ListEntry
  <2>2. Msg("DONE", 0, 0) \in Answers
    BY AnswerType
  <2>3. <<Msg("DONE", 0, 0)>> \in Seq(Answers)
    BY <2>2
  <2>4. Turns(s, Waiting) /\ Told(s, <<Msg("DONE", 0, 0)>>)
    BY <2>1, <2>3, BecomesFacts, ReplyFacts, ClosedType
  <2> QED BY <1>1, <2>1, <2>4
<1> QED BY <1>2, <1>3, <1>4, SyncAssumption

LEMMA ListEntryShape ==
  ASSUME Shape, NEW s \in Sessions, ListEntry(s)
  PROVE  Shape'
<1>1. ServiceMove(s)
  BY ListEntryFacts DEF ServiceMove
<1>2. FileTypes'
  BY ListEntryFacts DEF Shape, FileTypes, remote, fixed
<1> QED BY <1>1, <1>2, ServiceShape

LEMMA ContestType ==
  ASSUME Shape, NEW s \in Sessions, NEW f \in Files, Contest(s, f)
  PROVE  /\ contested' \subseteq Files /\ contested \subseteq contested'
         /\ \A g \in Files : g # f => (g \in contested' <=> g \in contested)
         /\ s # cur => f \in contested'
         /\ f \notin contested' =>
               \A o \in Sessions : o # s => ~(svc[o].pc \in Working /\ svc[o].file = f)
BY DEF Contest, Shape, FileTypes

\* The file that was there goes away, or stays and f counts as contested.
Cleared(s, f) ==
    \/ path' = Unlink(f) /\ Contest(s, f) /\ stuck' = stuck \ {f}
    \/ path' = path /\ contested' = contested \cup {f} /\ stuck' = stuck

\* No room, or the old file goes away, or not.
LEMMA do_sendFacts ==
  ASSUME Shape, NEW s \in Sessions, do_send(s), NEW f, f = Head(up[s]).file
  PROVE  /\ Took(s) /\ Head(up[s]).id = "SEND" /\ f \in Files
         /\ svc[s].pc = "wait" /\ UNCHANGED <<client, cut, fixed, inode>>
         /\ \/ /\ Told(s, <<Msg("FAIL", f, 0)>>) /\ Turns(s, Closed) /\ UNCHANGED remote
               /\ CanReply(s)
            \/ Cleared(s, f) /\ Turns(s, Serving("open", f, None)) /\ UNCHANGED down
<1>1. up[s] # <<>> /\ Head(up[s]).id = "SEND" /\ svc[s].pc = "wait" /\ Take(s)
      /\ UNCHANGED <<client, cut, fixed, inode>>
  BY DEF do_send, Request, remote
<1>2. f \in Files
  BY <1>1, HeadFacts
<1>3. Took(s)
  BY <1>1, TakeFacts
<1>4. CASE CanReply(s) /\ Reply(s, <<Msg("FAIL", f, 0)>>) /\ Becomes(s, Closed)
           /\ UNCHANGED remote
  <2>1. Msg("FAIL", f, 0) \in Answers
    BY <1>2, AnswerType
  <2>2. <<Msg("FAIL", f, 0)>> \in Seq(Answers)
    BY <2>1
  <2>3. Told(s, <<Msg("FAIL", f, 0)>>) /\ Turns(s, Closed)
    BY <1>4, <2>2, ReplyFacts, BecomesFacts, ClosedType
  <2> QED BY <1>1, <1>2, <1>3, <1>4, <2>3
<1>5. CASE Cleared(s, f) /\ Becomes(s, Serving("open", f, None))
           /\ UNCHANGED <<inode, down>>
  <2>1. Serving("open", f, None) \in Services
    BY <1>2, ServingType
  <2>2. Turns(s, Serving("open", f, None))
    BY <1>5, <2>1, BecomesFacts
  <2> QED BY <1>1, <1>2, <1>3, <1>5, <2>2
<1> QED BY <1>4, <1>5 DEF do_send, Cleared

LEMMA do_sendShape ==
  ASSUME Shape, NEW s \in Sessions, do_send(s)
  PROVE  Shape'
<1> DEFINE f == Head(up[s]).file
<1> HIDE DEF f
<1>1. /\ Took(s) /\ f \in Files
      /\ svc[s].pc = "wait" /\ UNCHANGED <<client, cut, fixed, inode>>
      /\ \/ /\ Told(s, <<Msg("FAIL", f, 0)>>) /\ Turns(s, Closed) /\ UNCHANGED remote
         \/ Cleared(s, f) /\ Turns(s, Serving("open", f, None)) /\ UNCHANGED down
  BY do_sendFacts DEF f
<1>2. ServiceMove(s)
  BY <1>1 DEF ServiceMove
<1>3. path' \in [Files -> {None} \cup (0..MaxSessions)] /\ contested' \subseteq Files
      /\ stuck' \subseteq Files
  BY <1>1, UnlinkType, ContestType DEF Cleared, remote, Shape, FileTypes
<1>4. FileTypes'
  BY <1>1, <1>3 DEF fixed, Shape, FileTypes
<1> QED BY <1>2, <1>4, ServiceShape

\* There is no file to write to; or there is one, and FAIL may be sent.
LEMMA OpenFacts ==
  ASSUME Shape, NEW s \in Sessions, Open(s), NEW f, f = svc[s].file
  PROVE  /\ svc[s].pc = "open" /\ f \in Files /\ svc[s].fd = None /\ svc[s].n = 0
         /\ UNCHANGED <<client, up, cut, fixed, contested, stuck>>
         /\ \/ /\ UNCHANGED remote /\ CanReply(s)
               /\ \/ Told(s, <<Msg("FAIL", f, 0)>>)
                  \/ Told(s, <<Msg("FAIL", f, 0), Msg("FAIL", f, 0)>>)
               /\ \/ Turns(s, Serving("send", f, None))
                  \/ (cut[s] \/ ClientGone(s)) /\ Turns(s, Closed)
            \/ /\ UNCHANGED down \/ (CanReply(s) /\ Told(s, <<Msg("FAIL", f, 0)>>))
               /\ path' = [path EXCEPT ![f] = IF @ = None THEN s ELSE @]
               /\ inode' = IF path[f] = None THEN [inode EXCEPT ![f][s] = Fresh] ELSE inode
               /\ path'[f] # None
               /\ Turns(s, Serving("send", f, path'[f]))
<1> DEFINE fail == Msg("FAIL", f, 0)
           fails(n) == [i \in 1..n |-> fail]
<1>1. svc[s].pc = "open" /\ UNCHANGED <<client, up, cut, fixed, contested, stuck>>
  BY DEF Open, remote
<1>2. f \in Files /\ svc[s].fd = None /\ svc[s].n = 0
  BY <1>1, SessionTypes DEF Services
<1>3. fail \in Answers
  BY <1>2, AnswerType
<1>4. fails(1) = <<fail>> /\ fails(2) = <<fail, fail>>
  <2> HIDE DEF fail
  <2> QED OBVIOUS
<1>5. <<fail>> \in Seq(Answers) /\ <<fail, fail>> \in Seq(Answers)
  <2> HIDE DEF fail
  <2> QED BY <1>3
<1>6. CASE /\ CanReply(s) /\ \E n \in FailsSent : Reply(s, fails(n))
           /\ Answered(s, Serving("send", f, None)) /\ UNCHANGED remote
  <2>1. Reply(s, <<fail>>) \/ Reply(s, <<fail, fail>>)
    BY <1>4, <1>6 DEF FailsSent
  <2>2. Told(s, <<fail>>) \/ Told(s, <<fail, fail>>)
    BY <1>5, <2>1, ReplyFacts
  <2>3. Serving("send", f, None) \in Services
    BY <1>2, ServingType
  <2>4. \/ Turns(s, Serving("send", f, None))
        \/ (cut[s] \/ ClientGone(s)) /\ Turns(s, Closed)
    BY <1>6, <2>3, AnsweredFacts
  <2> QED BY <1>1, <1>2, <1>6, <2>2, <2>4
<1>7. CASE /\ UNCHANGED down \/ (CanReply(s) /\ Reply(s, fails(1)))
           /\ path' = [path EXCEPT ![f] = IF @ = None THEN s ELSE @]
           /\ inode' = IF path[f] = None THEN [inode EXCEPT ![f][s] = Fresh] ELSE inode
           /\ Becomes(s, Serving("send", f, path'[f]))
  <2>1. UNCHANGED down \/ (CanReply(s) /\ Told(s, <<fail>>))
    BY <1>4, <1>5, <1>7, ReplyFacts
  <2>2. path'[f] \in 0..MaxSessions /\ path'[f] # None
    <3>1. s \in 0..MaxSessions /\ path[f] \in {None} \cup (0..MaxSessions)
          /\ path'[f] = IF path[f] = None THEN s ELSE path[f]
      BY <1>2, <1>7, SyncAssumption DEF Shape, FileTypes, Sessions
    <3> QED BY <3>1 DEF None
  <2>3. Serving("send", f, path'[f]) \in Services
    BY <1>2, <2>2, ServingType
  <2>4. Turns(s, Serving("send", f, path'[f]))
    BY <1>7, <2>3, BecomesFacts
  <2> QED BY <1>1, <1>2, <1>7, <2>1, <2>2, <2>4
<1> QED BY <1>6, <1>7 DEF Open

LEMMA OpenShape ==
  ASSUME Shape, NEW s \in Sessions, Open(s)
  PROVE  Shape'
<1> DEFINE f == svc[s].file
<1>1. /\ svc[s].pc = "open" /\ f \in Files
      /\ UNCHANGED <<client, up, cut, fixed, contested, stuck>>
      /\ UNCHANGED down \/ \E p : Told(s, p)
      /\ \E r : Turns(s, r)
      /\ \/ UNCHANGED remote
         \/ /\ path' = [path EXCEPT ![f] = IF @ = None THEN s ELSE @]
            /\ inode' = IF path[f] = None THEN [inode EXCEPT ![f][s] = Fresh] ELSE inode
  BY OpenFacts
<1> HIDE DEF f
<1>2. ServiceMove(s)
  BY <1>1 DEF ServiceMove
<1>3. s \in 0..MaxSessions /\ Fresh \in Inodes
  BY SyncAssumption DEF Sessions, Fresh, Inodes
<1>4. path' \in [Files -> {None} \cup (0..MaxSessions)]
  BY <1>1, <1>3 DEF remote, Shape, FileTypes
<1>5. inode' \in [Files -> [0..MaxSessions -> Inodes]]
  <2>1. inode \in [Files -> [0..MaxSessions -> Inodes]]
    BY DEF Shape, FileTypes
  <2>2. inode' = inode \/ inode' = [inode EXCEPT ![f][s] = Fresh]
    BY <1>1 DEF remote
  <2> HIDE DEF Inodes
  <2>3. [inode EXCEPT ![f][s] = Fresh] \in [Files -> [0..MaxSessions -> Inodes]]
    BY <1>1, <1>3, <2>1
  <2> QED BY <2>1, <2>2, <2>3
<1>6. FileTypes'
  BY <1>1, <1>4, <1>5 DEF fixed, Shape, FileTypes
<1> QED BY <1>2, <1>6, ServiceShape

\* What a packet makes of a file.
Written(f, d, n) ==
    inode' = [inode EXCEPT ![f][d] =
                 [new |-> Larger(@.new, n), size |-> Larger(@.size, n), stamped |-> FALSE]]

LEMMA WrittenType ==
  ASSUME Shape, NEW f \in Files, NEW d \in 0..MaxSessions, NEW n \in 0..MaxChunks,
         Written(f, d, n)
  PROVE  /\ inode' \in [Files -> [0..MaxSessions -> Inodes]]
         /\ inode'[f][d].new = Larger(inode[f][d].new, n)
         /\ inode'[f][d].size = Larger(inode[f][d].size, n)
         /\ inode'[f][d].stamped = FALSE
         /\ \A g \in Files, k \in 0..MaxSessions : g # f \/ k # d => inode'[g][k] = inode[g][k]
<1>1. inode \in [Files -> [0..MaxSessions -> Inodes]] /\ inode[f][d] \in Inodes
  BY DEF Shape, FileTypes
<1> DEFINE a == Larger(inode[f][d].new, n)
           b == Larger(inode[f][d].size, n)
           r == [new |-> a, size |-> b, stamped |-> FALSE]
<1>2. a \in 0..MaxChunks /\ b \in 0..MaxChunks
  BY <1>1, SyncAssumption DEF Larger, Inodes
<1> HIDE DEF a, b
<1>3. r \in Inodes /\ r.new = a /\ r.size = b /\ r.stamped = FALSE
  BY <1>2 DEF Inodes
<1>4. inode' = [inode EXCEPT ![f][d] = r]
  BY DEF Written, a, b
<1> HIDE DEF r
<1>5. /\ [inode EXCEPT ![f][d] = r] \in [Files -> [0..MaxSessions -> Inodes]]
      /\ [inode EXCEPT ![f][d] = r][f][d] = r
      /\ \A g \in Files, k \in 0..MaxSessions :
            g # f \/ k # d => [inode EXCEPT ![f][d] = r][g][k] = inode[g][k]
  BY <1>1, <1>3
<1> QED BY <1>3, <1>4, <1>5 DEF a, b

\* The new file goes away, or stays and f is stuck.
Removed(f) ==
    \/ path' = Unlink(f) /\ stuck' = stuck
    \/ path' = path /\ stuck' = stuck \cup {f}

LEMMA RemovedType ==
  ASSUME Shape, NEW f \in Files, Removed(f)
  PROVE  path' \in [Files -> {None} \cup (0..MaxSessions)] /\ stuck' \subseteq Files
BY UnlinkType DEF Removed, Shape, FileTypes

\* Skipped, written, or the storage is full.
LEMMA SendPacketFacts ==
  ASSUME Shape, NEW s \in Sessions, SendPacket(s), NEW f, f = svc[s].file,
         NEW d, d = svc[s].fd, NEW n, n = Head(up[s]).n
  PROVE  /\ Took(s) /\ Head(up[s]).id = "DATA" /\ svc[s].pc = "send" /\ f \in Files
         /\ n \in 0..MaxChunks /\ UNCHANGED <<client, cut, contested, fixed>>
         /\ \/ d = None /\ UNCHANGED <<path, inode, stuck, svc, down>>
            \/ /\ d \in 0..MaxSessions /\ d # None /\ UNCHANGED <<path, stuck, down>>
               /\ Written(f, d, n)
               /\ Turns(s, [svc[s] EXCEPT !.n = n])
            \/ /\ d \in 0..MaxSessions /\ d # None /\ CanReply(s)
               /\ Removed(f) /\ UNCHANGED inode
               /\ Told(s, <<Msg("FAIL", f, 0)>>)
               /\ \/ Turns(s, [svc[s] EXCEPT !.fd = None])
                  \/ (cut[s] \/ ClientGone(s)) /\ Turns(s, Closed)
<1>1. svc[s].pc = "send" /\ up[s] # <<>> /\ Head(up[s]).id = "DATA" /\ Take(s)
      /\ UNCHANGED <<client, cut, contested, fixed>>
  BY DEF SendPacket, Sending
<1>2. svc[s] \in Services /\ f \in Files /\ d \in {None} \cup (0..MaxSessions)
  BY <1>1, SessionTypes DEF Services
<1>3. n \in 0..MaxChunks
  BY <1>1, HeadFacts
<1>4. Took(s)
  BY <1>1, TakeFacts
<1>5. CASE d = None /\ UNCHANGED <<path, inode, stuck, svc, down>>
  BY <1>1, <1>2, <1>3, <1>4, <1>5
<1>6. CASE /\ d # None /\ UNCHANGED <<path, stuck, down>>
           /\ Written(f, d, n)
           /\ Becomes(s, [svc[s] EXCEPT !.n = n])
  <2>1. [svc[s] EXCEPT !.n = n] \in Services
    BY <1>1, <1>2, <1>3 DEF Services
  <2>2. Turns(s, [svc[s] EXCEPT !.n = n])
    BY <1>6, <2>1, BecomesFacts
  <2>3. d \in 0..MaxSessions
    BY <1>2, <1>6
  <2> QED BY <1>1, <1>2, <1>3, <1>4, <1>6, <2>2, <2>3
<1>7. CASE /\ d # None /\ CanReply(s) /\ UnlinkPartial(f)
           /\ Answered(s, [svc[s] EXCEPT !.fd = None])
           /\ Reply(s, <<Msg("FAIL", f, 0)>>) /\ UNCHANGED inode
  <2>1. [svc[s] EXCEPT !.fd = None] \in Services
    BY <1>1, <1>2 DEF Services
  <2>2. \/ Turns(s, [svc[s] EXCEPT !.fd = None])
        \/ (cut[s] \/ ClientGone(s)) /\ Turns(s, Closed)
    BY <1>7, <2>1, AnsweredFacts
  <2>3. Msg("FAIL", f, 0) \in Answers
    BY <1>2, AnswerType
  <2>4. <<Msg("FAIL", f, 0)>> \in Seq(Answers)
    BY <2>3
  <2>5. Told(s, <<Msg("FAIL", f, 0)>>)
    BY <1>7, <2>4, ReplyFacts
  <2>6. d \in 0..MaxSessions /\ Removed(f)
    BY <1>2, <1>7 DEF UnlinkPartial, Removed
  <2> QED BY <1>1, <1>2, <1>3, <1>4, <1>7, <2>2, <2>5, <2>6
<1> QED BY <1>5, <1>6, <1>7 DEF SendPacket, Written

LEMMA SendPacketShape ==
  ASSUME Shape, NEW s \in Sessions, SendPacket(s)
  PROVE  Shape'
<1> DEFINE f == svc[s].file
           d == svc[s].fd
           n == Head(up[s]).n
<1>0. f = svc[s].file /\ d = svc[s].fd /\ n = Head(up[s]).n
  OBVIOUS
<1> HIDE DEF f, d, n
<1>1. /\ Took(s) /\ svc[s].pc = "send" /\ f \in Files
      /\ n \in 0..MaxChunks /\ UNCHANGED <<client, cut, contested, fixed>>
      /\ \/ UNCHANGED <<path, inode, stuck, svc, down>>
         \/ /\ d \in 0..MaxSessions /\ UNCHANGED <<path, stuck, down>>
            /\ Written(f, d, n)
            /\ \E r : Turns(s, r)
         \/ /\ Removed(f) /\ UNCHANGED inode
            /\ \E p : Told(s, p)
            /\ \E r : Turns(s, r)
  BY <1>0, SendPacketFacts
<1>2. ServiceMove(s)
  BY <1>1 DEF ServiceMove
<1>3. path' \in [Files -> {None} \cup (0..MaxSessions)] /\ stuck' \subseteq Files
  <2>1. UNCHANGED <<path, stuck>> \/ Removed(f)
    BY <1>1
  <2> QED BY <1>1, <2>1, RemovedType DEF Shape, FileTypes
<1>4. inode' \in [Files -> [0..MaxSessions -> Inodes]]
  <2>1. CASE UNCHANGED inode
    BY <2>1 DEF Shape, FileTypes
  <2> QED BY <1>1, <2>1, WrittenType
<1>5. FileTypes'
  BY <1>1, <1>3, <1>4 DEF fixed, Shape, FileTypes
<1> QED BY <1>2, <1>5, ServiceShape

\* The file at f gets its time, or f is stuck.
Stamps(f) ==
    \/ /\ path[f] # None /\ inode' = [inode EXCEPT ![f][path[f]].stamped = TRUE]
       /\ stuck' = stuck
    \/ inode' = inode /\ stuck' = stuck \cup {f}

\* The time is set and the end acknowledged, if there was a file.
LEMMA SendEndFacts ==
  ASSUME Shape, NEW s \in Sessions, SendEnd(s), NEW f, f = svc[s].file
  PROVE  /\ Took(s) /\ Head(up[s]).id = "DONE" /\ svc[s].pc = "send" /\ f \in Files
         /\ UNCHANGED <<client, cut, path, contested, fixed>>
         /\ \/ svc[s].fd = None /\ Turns(s, Waiting) /\ UNCHANGED <<inode, stuck, down>>
            \/ /\ svc[s].fd # None /\ CanReply(s)
               /\ \/ Turns(s, Waiting)
                  \/ (cut[s] \/ ClientGone(s)) /\ Turns(s, Closed)
               /\ Stamps(f)
               /\ Told(s, <<Msg("OKAY", f, Head(up[s]).n)>>)
<1> DEFINE k == Head(up[s]).n
<1> HIDE DEF k
<1>1. svc[s].pc = "send" /\ up[s] # <<>> /\ Head(up[s]).id = "DONE" /\ Take(s)
      /\ UNCHANGED <<client, cut, path, contested, fixed>>
  BY DEF SendEnd, Sending
<1>2. f \in Files /\ k \in Nat
  BY <1>1, SessionTypes, HeadFacts DEF Services, k
<1>3. Took(s)
  BY <1>1, TakeFacts
<1>4. CASE svc[s].fd = None
  <2>1. Becomes(s, Waiting) /\ UNCHANGED <<inode, stuck, down>>
    BY <1>4 DEF SendEnd
  <2>2. Turns(s, Waiting)
    BY <2>1, BecomesFacts, ClosedType
  <2> QED BY <1>1, <1>2, <1>3, <1>4, <2>1, <2>2
<1>5. CASE svc[s].fd # None
  <2>1. /\ CanReply(s) /\ Answered(s, Waiting) /\ Stamps(f)
        /\ Reply(s, <<Msg("OKAY", f, k)>>)
    BY <1>5 DEF SendEnd, Stamp, Stamps, k
  <2>2. Msg("OKAY", f, k) \in Answers
    BY <1>2, AnswerType
  <2>3. <<Msg("OKAY", f, k)>> \in Seq(Answers)
    BY <2>2
  <2>4. Told(s, <<Msg("OKAY", f, Head(up[s]).n)>>)
    BY <2>1, <2>3, ReplyFacts DEF k
  <2>5. Turns(s, Waiting) \/ ((cut[s] \/ ClientGone(s)) /\ Turns(s, Closed))
    BY <2>1, AnsweredFacts, ClosedType
  <2> QED BY <1>1, <1>2, <1>3, <1>5, <2>1, <2>4, <2>5
<1> QED BY <1>4, <1>5

\* A file that has got its time.
LEMMA StampedType ==
  ASSUME Shape, NEW f \in Files, NEW d \in 0..MaxSessions,
         inode' = [inode EXCEPT ![f][d].stamped = TRUE]
  PROVE  /\ inode' \in [Files -> [0..MaxSessions -> Inodes]]
         /\ inode'[f][d].stamped = TRUE
         /\ \A g \in Files, k \in 0..MaxSessions :
               /\ inode'[g][k].new = inode[g][k].new /\ inode'[g][k].size = inode[g][k].size
               /\ g # f \/ k # d => inode'[g][k] = inode[g][k]
<1>1. inode \in [Files -> [0..MaxSessions -> Inodes]] /\ inode[f][d] \in Inodes
  BY DEF Shape, FileTypes
<1> DEFINE r == [inode[f][d] EXCEPT !.stamped = TRUE]
<1>2. r \in Inodes /\ r.new = inode[f][d].new /\ r.size = inode[f][d].size /\ r.stamped = TRUE
  BY <1>1 DEF Inodes
<1>3. inode' = [inode EXCEPT ![f][d] = r]
  OBVIOUS
<1> HIDE DEF r
<1>4. /\ [inode EXCEPT ![f][d] = r] \in [Files -> [0..MaxSessions -> Inodes]]
      /\ [inode EXCEPT ![f][d] = r][f][d] = r
      /\ \A g \in Files, k \in 0..MaxSessions :
            g # f \/ k # d => [inode EXCEPT ![f][d] = r][g][k] = inode[g][k]
  BY <1>1, <1>2
<1>5. \A g \in Files, k \in 0..MaxSessions :
         /\ inode'[g][k].new = inode[g][k].new /\ inode'[g][k].size = inode[g][k].size
         /\ g # f \/ k # d => inode'[g][k] = inode[g][k]
  <2> SUFFICES ASSUME NEW g \in Files, NEW k \in 0..MaxSessions
               PROVE  /\ inode'[g][k].new = inode[g][k].new
                      /\ inode'[g][k].size = inode[g][k].size
                      /\ g # f \/ k # d => inode'[g][k] = inode[g][k]
    OBVIOUS
  <2>1. CASE g = f /\ k = d
    BY <1>2, <1>3, <1>4, <2>1
  <2>2. CASE g # f \/ k # d
    BY <1>3, <1>4, <2>2
  <2> QED BY <2>1, <2>2
<1> QED BY <1>2, <1>3, <1>4, <1>5

LEMMA SendEndShape ==
  ASSUME Shape, NEW s \in Sessions, SendEnd(s)
  PROVE  Shape'
<1> DEFINE f == svc[s].file
<1> HIDE DEF f
<1>1. /\ Took(s) /\ svc[s].pc = "send" /\ f \in Files
      /\ UNCHANGED <<client, cut, path, contested, fixed>>
      /\ \E r : Turns(s, r)
      /\ UNCHANGED down \/ \E p : Told(s, p)
      /\ UNCHANGED <<inode, stuck>> \/ Stamps(f)
  BY SendEndFacts DEF f
<1>2. ServiceMove(s)
  BY <1>1 DEF ServiceMove
<1>3. inode' \in [Files -> [0..MaxSessions -> Inodes]]
  <2>1. inode \in [Files -> [0..MaxSessions -> Inodes]] /\ path[f] \in {None} \cup (0..MaxSessions)
    BY <1>1 DEF Shape, FileTypes
  <2>2. path[f] # None => path[f] \in 0..MaxSessions
    BY <2>1
  <2>3. inode' = inode \/ (path[f] # None /\ inode' = [inode EXCEPT ![f][path[f]].stamped = TRUE])
    BY <1>1 DEF Stamps
  <2> QED BY <1>1, <2>1, <2>2, <2>3, StampedType
<1>4. FileTypes'
  <2>1. stuck' \subseteq Files
    BY <1>1 DEF Stamps, Shape, FileTypes
  <2> QED BY <1>1, <1>3, <2>1 DEF fixed, Shape, FileTypes
<1> QED BY <1>2, <1>4, ServiceShape

\* FAIL, or the file is open.
LEMMA RecvBeginFacts ==
  ASSUME Shape, NEW s \in Sessions, RecvBegin(s), NEW f, f = Head(up[s]).file
  PROVE  /\ Took(s) /\ Head(up[s]).id = "RECV" /\ svc[s].pc = "wait" /\ f \in Files
         /\ Contest(s, f) /\ UNCHANGED <<client, cut, path, inode, stuck, fixed>>
         /\ \/ /\ CanReply(s) /\ Told(s, <<Msg("FAIL", f, 0)>>)
               /\ \/ Turns(s, Waiting)
                  \/ (cut[s] \/ ClientGone(s)) /\ Turns(s, Closed)
            \/ path[f] # None /\ Turns(s, Serving("recv", f, path[f])) /\ UNCHANGED down
<1>1. svc[s].pc = "wait" /\ up[s] # <<>> /\ Head(up[s]).id = "RECV" /\ Take(s)
      /\ Contest(s, f) /\ UNCHANGED <<client, cut, path, inode, stuck, fixed>>
  BY DEF RecvBegin, Request
<1>2. f \in Files
  BY <1>1, HeadFacts
<1>3. Took(s)
  BY <1>1, TakeFacts
<1>4. CASE CanReply(s) /\ Reply(s, <<Msg("FAIL", f, 0)>>) /\ Answered(s, Waiting)
  <2>1. Msg("FAIL", f, 0) \in Answers
    BY <1>2, AnswerType
  <2>2. <<Msg("FAIL", f, 0)>> \in Seq(Answers)
    BY <2>1
  <2>3. Told(s, <<Msg("FAIL", f, 0)>>)
    BY <1>4, <2>2, ReplyFacts
  <2>4. Turns(s, Waiting) \/ ((cut[s] \/ ClientGone(s)) /\ Turns(s, Closed))
    BY <1>4, AnsweredFacts, ClosedType
  <2> QED BY <1>1, <1>2, <1>3, <1>4, <2>3, <2>4
<1>5. CASE /\ path[f] # None /\ Becomes(s, Serving("recv", f, path[f])) /\ UNCHANGED down
  <2>1. path[f] \in {None} \cup (0..MaxSessions)
    BY <1>2 DEF Shape, FileTypes
  <2>2. Serving("recv", f, path[f]) \in Services
    BY <1>2, <1>5, <2>1, ServingType
  <2>3. Turns(s, Serving("recv", f, path[f]))
    BY <1>5, <2>2, BecomesFacts
  <2> QED BY <1>1, <1>2, <1>3, <1>5, <2>3
<1> QED BY <1>4, <1>5 DEF RecvBegin

LEMMA RecvBeginShape ==
  ASSUME Shape, NEW s \in Sessions, RecvBegin(s)
  PROVE  Shape'
<1> DEFINE f == Head(up[s]).file
<1> HIDE DEF f
<1>1. /\ Took(s) /\ svc[s].pc = "wait" /\ f \in Files
      /\ Contest(s, f) /\ UNCHANGED <<client, cut, path, inode, stuck, fixed>>
      /\ UNCHANGED down \/ \E p : Told(s, p)
      /\ \E r : Turns(s, r)
  BY RecvBeginFacts DEF f
<1>2. ServiceMove(s)
  BY <1>1 DEF ServiceMove
<1>3. FileTypes'
  BY <1>1, ContestType DEF fixed, Shape, FileTypes
<1> QED BY <1>2, <1>3, ServiceShape

\* A packet, the end of the file, or FAIL.
LEMMA RecvPacketFacts ==
  ASSUME Shape, NEW s \in Sessions, RecvPacket(s), NEW f, f = svc[s].file,
         NEW n, n = svc[s].n, NEW d, d = svc[s].fd
  PROVE  /\ svc[s].pc = "recv" /\ f \in Files /\ d \in 0..MaxSessions /\ n \in 0..MaxChunks
         /\ CanReply(s) /\ UNCHANGED <<client, up, cut, remote, fixed>>
         /\ \/ /\ n < inode[f][d].size /\ n + 1 <= MaxChunks
               /\ Told(s, <<Msg("DATA", f, n + 1)>>)
               /\ Turns(s, [svc[s] EXCEPT !.n = n + 1])
            \/ /\ n >= inode[f][d].size
               /\ Told(s, <<Msg("DONE", f, n)>>) /\ Turns(s, Waiting)
            \/ Told(s, <<Msg("FAIL", f, 0)>>) /\ Turns(s, Waiting)
<1>1. svc[s].pc = "recv" /\ CanReply(s) /\ UNCHANGED <<client, up, cut, remote, fixed>>
  BY DEF RecvPacket
<1>2. svc[s] \in Services /\ f \in Files /\ d \in 0..MaxSessions /\ n \in 0..MaxChunks
  BY <1>1, SessionTypes DEF Services
<1>3. inode[f][d].size \in 0..MaxChunks
  BY <1>2 DEF Shape, FileTypes, Inodes
<1>4. CASE /\ n < inode[f][d].size /\ Reply(s, <<Msg("DATA", f, n + 1)>>)
           /\ Becomes(s, [svc[s] EXCEPT !.n = n + 1])
  <2>1. n + 1 \in 0..MaxChunks
    BY <1>2, <1>3, <1>4, SyncAssumption
  <2>2. [svc[s] EXCEPT !.n = n + 1] \in Services
    BY <1>1, <1>2, <2>1 DEF Services
  <2>3. Msg("DATA", f, n + 1) \in Answers
    BY <1>2, <2>1, AnswerType
  <2>4. <<Msg("DATA", f, n + 1)>> \in Seq(Answers)
    BY <2>3
  <2>5. Told(s, <<Msg("DATA", f, n + 1)>>) /\ Turns(s, [svc[s] EXCEPT !.n = n + 1])
    BY <1>4, <2>2, <2>4, ReplyFacts, BecomesFacts
  <2>6. n + 1 <= MaxChunks
    BY <2>1
  <2> QED BY <1>1, <1>2, <1>4, <2>5, <2>6
<1>5. CASE n >= inode[f][d].size /\ Reply(s, <<Msg("DONE", f, n)>>) /\ Becomes(s, Waiting)
  <2>1. n \in Nat
    BY <1>2
  <2>2. Msg("DONE", f, n) \in Answers
    BY <1>2, <2>1, AnswerType
  <2>3. <<Msg("DONE", f, n)>> \in Seq(Answers)
    BY <2>2
  <2>4. Told(s, <<Msg("DONE", f, n)>>) /\ Turns(s, Waiting)
    BY <1>5, <2>3, ReplyFacts, BecomesFacts, ClosedType
  <2> QED BY <1>1, <1>2, <1>5, <2>4
<1>6. CASE Reply(s, <<Msg("FAIL", f, 0)>>) /\ Becomes(s, Waiting)
  <2>1. Msg("FAIL", f, 0) \in Answers
    BY <1>2, AnswerType
  <2>2. <<Msg("FAIL", f, 0)>> \in Seq(Answers)
    BY <2>1
  <2>3. Told(s, <<Msg("FAIL", f, 0)>>) /\ Turns(s, Waiting)
    BY <1>6, <2>2, ReplyFacts, BecomesFacts, ClosedType
  <2> QED BY <1>1, <1>2, <2>3
<1> QED BY <1>4, <1>5, <1>6 DEF RecvPacket

LEMMA RecvPacketShape ==
  ASSUME Shape, NEW s \in Sessions, RecvPacket(s)
  PROVE  Shape'
<1>1. /\ svc[s].pc = "recv" /\ UNCHANGED <<client, up, cut, remote, fixed>>
      /\ \E p : Told(s, p)
      /\ \E r : Turns(s, r)
  BY RecvPacketFacts
<1>2. ServiceMove(s)
  BY <1>1 DEF ServiceMove
<1>3. FileTypes'
  BY <1>1 DEF remote, fixed, Shape, FileTypes
<1> QED BY <1>2, <1>3, ServiceShape

LEMMA ServiceEndsFacts ==
  ASSUME Shape, NEW s \in Sessions, ServiceEnds(s)
  PROVE  /\ svc[s].pc \in {"wait", "send", "list", "recv"}
         /\ Request(s, "QUIT") \/ NoMore(s)
         /\ svc[s].pc = "send" => svc[s].file \in Files
         /\ up' \in [Sessions -> Seq(Requests)] /\ up'[s] = <<>>
         /\ \A o \in Sessions : o # s => up'[o] = up[o]
         /\ Turns(s, Closed)
         /\ svc[s].pc = "send" => Removed(svc[s].file)
         /\ svc[s].pc # "send" => UNCHANGED <<path, stuck>>
         /\ UNCHANGED <<client, down, cut, inode, contested, fixed>>
<1>1. /\ svc[s].pc \in {"wait", "send", "list", "recv"}
      /\ Request(s, "QUIT") \/ NoMore(s)
      /\ up' = [up EXCEPT ![s] = <<>>] /\ Becomes(s, Closed)
      /\ svc[s].pc = "send" => Removed(svc[s].file)
      /\ svc[s].pc # "send" => UNCHANGED <<path, stuck>>
      /\ UNCHANGED <<client, down, cut, inode, contested, fixed>>
  BY DEF ServiceEnds, Request, UnlinkPartial, Removed
<1>2. up \in [Sessions -> Seq(Requests)] /\ <<>> \in Seq(Requests)
  BY DEF Shape, StreamTypes
<1>3. up' \in [Sessions -> Seq(Requests)] /\ up'[s] = <<>>
      /\ \A o \in Sessions : o # s => up'[o] = up[o]
  BY <1>1, <1>2
<1>4. Turns(s, Closed)
  BY <1>1, BecomesFacts, ClosedType
<1>5. svc[s].pc = "send" => svc[s].file \in Files
  BY SessionTypes DEF Services
<1> QED BY <1>1, <1>3, <1>4, <1>5

LEMMA ServiceEndsShape ==
  ASSUME Shape, NEW s \in Sessions, ServiceEnds(s)
  PROVE  Shape'
<1>1. ServiceMove(s)
  BY ServiceEndsFacts DEF ServiceMove
<1>2. path' \in [Files -> {None} \cup (0..MaxSessions)] /\ stuck' \subseteq Files
  <2>1. CASE svc[s].pc = "send"
    <3>1. svc[s].file \in Files /\ Removed(svc[s].file)
      BY <2>1, ServiceEndsFacts
    <3> QED BY <3>1, RemovedType
  <2>2. CASE svc[s].pc # "send"
    <3>1. path' = path /\ stuck' = stuck
      BY <2>2, ServiceEndsFacts
    <3> QED BY <3>1 DEF Shape, FileTypes
  <2> QED BY <2>1, <2>2
<1>3. FileTypes'
  BY <1>2, ServiceEndsFacts DEF fixed, Shape, FileTypes
<1> QED BY <1>1, <1>3, ServiceShape

LEMMA InitShape == Init => Shape
<1> SUFFICES ASSUME Init PROVE Shape
  OBVIOUS
<1>1. ClientTypes
  <2>1. cur \in 0..MaxSessions /\ at \in Files /\ pos \in Nat /\ exit \in 0..1
    BY SyncAssumption DEF Init, Files
  <2>2. flag \in [Files -> BOOLEAN] /\ told \in BOOLEAN
    BY DEF Init
  <2> QED BY <2>1, <2>2 DEF Init, ClientTypes, Places
<1>2. StreamTypes
  BY ClosedType DEF Init, StreamTypes
<1>3. FileTypes
  <2>1. path \in [Files -> {None} \cup (0..MaxSessions)]
    BY SyncAssumption DEF Init
  <2>2. len \in [Files -> 0..MaxChunks]
    BY SyncAssumption DEF Init
  <2>3. <<links, special>> \in Kinds
    <3>1. PICK k \in Kinds : links = k[1] /\ special = k[2]
      BY DEF Init
    <3>2. k = <<k[1], k[2]>>
      BY SyncAssumption
    <3> QED BY <3>1, <3>2
  <2>4. inode \in [Files -> [0..MaxSessions -> Inodes]]
    <3> DEFINE r == [Fresh EXCEPT !.size = MaxChunks]
    <3>1. Fresh \in Inodes /\ r \in Inodes
      <4>1. Fresh \in Inodes
        BY SyncAssumption DEF Fresh, Inodes
      <4>2. MaxChunks \in 0..MaxChunks
        BY SyncAssumption
      <4> QED BY <4>1, <4>2 DEF Inodes
    <3>2. inode = [f \in Files |-> [k \in 0..MaxSessions |-> IF k = 0 THEN r ELSE Fresh]]
      BY DEF Init
    <3> HIDE DEF r
    <3> QED BY <3>1, <3>2
  <2> QED BY <2>1, <2>2, <2>3, <2>4 DEF Init, FileTypes
<1>4. Future
  BY DEF Init, Future
<1> QED BY <1>1, <1>2, <1>3, <1>4 DEF Shape

LEMMA ShapeStep == Shape /\ [Next]_vars => Shape'
<1> SUFFICES ASSUME Shape, [Next]_vars PROVE Shape'
  OBVIOUS
<1>1. CASE \E c \in Commands : Begin(c)
  BY <1>1, BeginShape
<1>2. CASE Client
  BY <1>2, AskShape, StatAnsweredShape, EntryShape, ListedShape, SkipShape, SendRequestShape,
     SendDataShape, SendDoneShape, SendStatusShape, RecvRequestShape, RecvDataShape, QuitShape,
     LeaveShape DEF Client
<1>3. CASE ClientKilled
  BY <1>3, LeaveShape
<1>4. CASE \E s \in Sessions : Service(s)
  BY <1>4, do_statShape, ListBeginShape, ListEntryShape, do_sendShape, OpenShape,
     SendPacketShape, SendEndShape, RecvBeginShape, RecvPacketShape, ServiceEndsShape DEF Service
<1>5. CASE \E s \in Sessions : LinkDown(s)
  BY <1>5, LinkDownShape
<1>6. CASE UNCHANGED vars
  BY <1>6 DEF vars, Shape, ClientTypes, StreamTypes, FileTypes, Future
<1> QED BY <1>1, <1>2, <1>3, <1>4, <1>5, <1>6 DEF Next

LEMMA ShapeHolds == Spec => []Shape
BY InitShape, ShapeStep, PTL DEF Spec

-----------------------------------------------------------------------------
(* The conversation of the client with its service, phase by phase. *)

Up == up[cur]
Down == down[cur]
Svc == svc[cur]

Pushes == {"push", "pushdir", "sync"}
Pulls == {"pull", "pulldir"}

InStat == pc = "ask" \/ (pc = "answer" /\ ~Lists)
InList == pc = "answer" /\ Lists
InRest == pc \in {"copy", "quit"}
InSend == pc \in {"data", "done", "status"}
InRecv == pc \in {"first", "more"}

\* Answers that the client has read, and requests that it has made.
Base == IF pc = "ask" THEN 0 ELSE at - 1
Asked == IF pc = "ask" THEN at - 1 ELSE StatEnd

\* The last answer is one of ids.
Finished(ids) == Len(Down) > 0 /\ Down[Len(Down)].id \in ids

\* Answers and open requests are those for the next files of the list.
StatTalk ==
    /\ Svc.pc \in {"wait", "closed"} /\ at <= StatEnd
    /\ \A i \in 1..Len(Up) : Up[i].id = "STAT"
    /\ \A i \in 1..Len(Down) : Down[i].id = "STAT" /\ Down[i].file = Base + i
    /\ Base + Len(Down) + Len(Up) <= Asked
    /\ ~Broken(cur) =>
          /\ Base + Len(Down) + Len(Up) = Asked
          /\ \A i \in 1..Len(Up) : Up[i].file = Base + Len(Down) + i

\* DONE is the last of the entries.
ListTalk ==
    /\ Svc.pc \in {"wait", "list", "closed"} /\ at = 1
    /\ Len(Up) > 0 =>
          Len(Up) = 1 /\ Up[1].id = "LIST" /\ Svc.pc # "list" /\ Len(Down) = 0
    /\ \A i \in 1..Len(Down) :
          /\ Down[i].id \in {"DENT", "DONE"}
          /\ Down[i].id = "DONE" => i = Len(Down) /\ Svc.pc # "list" /\ Len(Up) = 0
    /\ ~Broken(cur) /\ Len(Up) = 0 /\ Svc.pc = "wait" => Finished({"DONE"})

\* Between two files nothing is under way.
RestTalk == Len(Up) = 0 /\ Len(Down) = 0 /\ Svc.pc \in {"wait", "closed"}

\* All of it is about one file.  OKAY is the last answer; as long as there is a
\* file to write to there is at most one FAIL, and if there is none a FAIL waits.
SendTalk ==
    /\ \A i \in 1..Len(Up) :
          /\ Up[i].file = at /\ Up[i].id \in {"SEND", "DATA", "DONE"}
          /\ Up[i].id = "SEND" => i = 1 /\ Svc.pc \in {"wait", "closed"} /\ Len(Down) = 0
          /\ Up[i].id = "DONE" => i = Len(Up) /\ pc = "status"
    /\ \A i \in 1..Len(Down) :
          /\ Down[i].file = at
          /\ Down[i].id = "OKAY" =>
                /\ i = Len(Down) /\ pc = "status" /\ Len(Up) = 0
                /\ Svc.pc \in {"wait", "closed"}
    /\ Svc.pc \in {"wait", "open", "send", "closed"}
    /\ Svc.pc \in Working => Svc.file = at
    /\ Svc.pc = "wait" /\ Len(Up) > 0 => Up[1].id = "SEND"
    /\ Svc.pc = "open" => Len(Down) = 0
    /\ Svc.pc = "send" /\ Svc.fd # None => Len(Down) <= 1
    /\ ~Broken(cur) =>
          /\ pc = "status" /\ (Svc.pc # "wait" \/ Len(Up) > 0) =>
                Len(Up) > 0 /\ Up[Len(Up)].id = "DONE"
          /\ Svc.pc = "wait" /\ Len(Up) = 0 => pc = "status" /\ Len(Down) > 0
          /\ Svc.pc = "send" /\ Svc.fd = None => Len(Down) > 0

\* DONE or FAIL is the last answer; the packets are counted on.
RecvTalk ==
    /\ \A i \in 1..Len(Up) : Up[i].file = at
    /\ Svc.pc \in {"wait", "recv", "closed"}
    /\ Svc.pc = "recv" => Svc.file = at
    /\ Len(Up) > 0 => /\ Len(Up) = 1 /\ Up[1].id = "RECV" /\ Svc.pc # "recv"
                      /\ Len(Down) = 0 /\ pos = 0
    /\ \A i \in 1..Len(Down) :
          /\ Down[i].file = at
          /\ Down[i].id = "DATA" => pos + i <= MaxChunks
          /\ Down[i].id \in {"DONE", "FAIL"} =>
                i = Len(Down) /\ Svc.pc # "recv" /\ Len(Up) = 0
    /\ ~Broken(cur) /\ Len(Up) = 0 /\ Svc.pc = "wait" => Finished({"DONE", "FAIL"})
    /\ ~Broken(cur) /\ Svc.pc = "recv" => Svc.n = pos + Len(Down)

\* The client's own part.
Course ==
    /\ pc \notin {"idle", "ask", "answer", "quit"} => at <= CopyEnd /\ cmd \in Pushes \cup Pulls
    /\ InSend => cmd \in Pushes /\ pos <= len[at]
    /\ InRecv => cmd \in Pulls
    /\ pos <= MaxChunks
    /\ lcopy \in [Files -> {Old, None} \cup (0..MaxChunks)]

Talk ==
    /\ Course
    /\ InStat => StatTalk
    /\ InList => ListTalk
    /\ InRest => RestTalk
    /\ InSend => SendTalk
    /\ InRecv => RecvTalk

\* r is q with m at its end; q without its first.
Grown(q, r, m) ==
    /\ Len(q) \in Nat /\ Len(r) = Len(q) + 1
    /\ \A i \in 1..Len(q) : r[i] = q[i]
    /\ r[Len(q) + 1] = m

Shrunk(q, r) ==
    /\ Len(q) \in Nat /\ Len(q) > 0 /\ Len(r) = Len(q) - 1
    /\ \A i \in 1..Len(r) : r[i] = q[i + 1]
    /\ Head(q) = q[1]

Cut(q, r) ==
    /\ Len(q) \in Nat /\ Len(r) \in 0..Len(q)
    /\ \A i \in 1..Len(r) : r[i] = q[i]

LEMMA Shifts ==
  ASSUME NEW a \in Int, NEW i \in Int, NEW k \in Int
  PROVE  /\ a + (i + 1) = (a + 1) + i /\ a + i + 1 = a + (i + 1)
         /\ i + 1 = k => i = k - 1
OBVIOUS

LEMMA JoinFacts ==
  ASSUME NEW S, NEW q \in Seq(S), NEW m \in S, NEW r, r = q \o <<m>>
  PROVE  r \in Seq(S) /\ Grown(q, r, m)
BY DEF Grown

LEMMA JoinTwo ==
  ASSUME NEW S, NEW q \in Seq(S), NEW m \in S, NEW r, r = q \o <<m, m>>
  PROVE  /\ r \in Seq(S) /\ Len(q) \in Nat /\ Len(r) = Len(q) + 2
         /\ \A i \in 1..Len(q) : r[i] = q[i]
         /\ r[Len(q) + 1] = m /\ r[Len(q) + 2] = m
OBVIOUS

\* A request of the client.
LEMMA WroteUp ==
  ASSUME Shape, pc # "idle", cur' = cur, UNCHANGED others, NEW m \in Requests, Wrote(m)
  PROVE  /\ Broken(cur)' = Broken(cur) /\ Svc' = Svc
         /\ Len(Up) \in Nat /\ Len(Down) \in Nat
         /\ \/ Broken(cur) /\ Up' = Up
            \/ ~Broken(cur) /\ Len(Up) < Cap /\ Grown(Up, Up', m)
<1>1. Broken(cur)' = Broken(cur) /\ Svc' = Svc
  BY DEF Broken, Svc, others
<1>2. up[cur] \in Seq(Requests) /\ down[cur] \in Seq(Answers)
  BY CurSession
<1>3. Len(Up) \in Nat /\ Len(Down) \in Nat
  BY <1>2, EmptyFacts DEF Up, Down
<1>4. ~Broken(cur) /\ up'[cur] = Append(up[cur], m) => Grown(up[cur], up'[cur], m)
  BY <1>2, AppendFacts DEF Grown
<1> QED BY <1>1, <1>3, <1>4 DEF Wrote, Up

\* The client has read an answer.
LEMMA ConsumedDown ==
  ASSUME Shape, pc # "idle", cur' = cur, UNCHANGED <<up, others>>, down[cur] # <<>>, Consume
  PROVE  /\ Broken(cur)' = Broken(cur) /\ Svc' = Svc /\ Up' = Up
         /\ Len(Up) \in Nat /\ Len(Down) \in Nat
         /\ Shrunk(Down, Down') /\ Head(down[cur]) = Down[1]
<1>1. Broken(cur)' = Broken(cur) /\ Svc' = Svc /\ Up' = Up
  BY DEF Broken, Svc, Up, others
<1>2. up[cur] \in Seq(Requests) /\ down[cur] \in Seq(Answers)
  BY CurSession
<1>3. Len(Up) \in Nat /\ Len(Down) \in Nat
  BY <1>2, EmptyFacts DEF Up, Down
<1>4. down'[cur] = Tail(down[cur])
  BY ConsumeFacts DEF Leaves
<1>5. Shrunk(down[cur], down'[cur])
  BY <1>2, <1>4, TailFacts DEF Shrunk
<1> QED BY <1>1, <1>3, <1>5 DEF Down, Shrunk

\* The service has said m to the client.
LEMMA ToldDown ==
  ASSUME Shape, pc # "idle", NEW m \in Answers, Told(cur, <<m>>)
  PROVE  \/ cut[cur] /\ down'[cur] = down[cur]
         \/ ~cut[cur] /\ Grown(down[cur], down'[cur], m)
<1>1. down[cur] \in Seq(Answers) /\ ~ClientGone(cur)
  BY CurSession
<1> QED BY <1>1, JoinFacts DEF Told

\* The service has read a request.
LEMMA TookUp ==
  ASSUME Shape, NEW s \in Sessions, Took(s)
  PROVE  Shrunk(up[s], up'[s])
<1>1. up[s] \in Seq(Requests)
  BY SessionTypes
<1> QED BY <1>1, TailFacts DEF Took, Shrunk

\* The types that the arithmetic needs.
LEMMA TalkTypes ==
  ASSUME Shape, Talk
  PROVE  /\ at \in Nat /\ at >= 1 /\ at <= NumFiles /\ pos \in Nat /\ pos <= MaxChunks
         /\ StatEnd \in Nat /\ CopyEnd \in Nat /\ StatEnd >= 1 /\ CopyEnd >= 1
         /\ NumFiles \in Nat /\ MaxChunks \in Nat /\ Cap \in Nat /\ Cap >= 2
         /\ NumFiles <= 2 * Cap /\ len[at] \in 0..MaxChunks
         /\ cmd \in AllCommands
         /\ lcopy \in [Files -> {Old, None} \cup (0..MaxChunks)]
<1>1. at \in Nat /\ at >= 1 /\ at <= NumFiles /\ pos \in Nat /\ at \in Files
  BY SyncAssumption DEF Shape, ClientTypes, Files
<1>2. StatEnd \in Nat /\ CopyEnd \in Nat /\ StatEnd >= 1 /\ CopyEnd >= 1
  BY ListEnds, SyncAssumption DEF Files
<1>3. len[at] \in 0..MaxChunks
  BY <1>1 DEF Shape, FileTypes
<1>4. cmd \in AllCommands
  BY SyncAssumption DEF Shape, ClientTypes, AllCommands
<1>5. pos <= MaxChunks /\ lcopy \in [Files -> {Old, None} \cup (0..MaxChunks)]
  BY DEF Talk, Course
<1>6. NumFiles \in Nat /\ MaxChunks \in Nat /\ Cap \in Nat /\ Cap >= 2 /\ NumFiles <= 2 * Cap
  BY SyncAssumption
<1> QED BY <1>1, <1>2, <1>3, <1>4, <1>5, <1>6

\* A client that ends leaves nothing to say.
LEMMA EndTalk ==
  ASSUME Shape, Talk, pc' = "idle", pos' = 0,
         lcopy' \in [Files -> {Old, None} \cup (0..MaxChunks)]
  PROVE  Talk'
<1>1. pos' <= MaxChunks
  BY TalkTypes
<1> QED BY <1>1 DEF Talk, Course, InStat, InList, InRest, InSend, InRecv

\* A client that goes on to the next file, with nothing under way.
LEMMA RestStep ==
  ASSUME Shape, Talk, pc' \in {"copy", "quit"}, RestTalk', Course'
  PROVE  Talk'
BY DEF Talk, InStat, InList, InRest, InSend, InRecv

LEMMA AskTalk ==
  ASSUME Shape, Talk, Ask
  PROVE  Talk'
<1> DEFINE m == Msg(IF Lists THEN "LIST" ELSE "STAT", at, 0)
<1>1. pc = "ask" /\ UNCHANGED <<cmd, cur, pos, flag, told, exit, lcopy, down, others>>
  BY DEF Ask
<1>2. Wrote(m) /\ m \in Requests /\ m.file = at /\ m.id = IF Lists THEN "LIST" ELSE "STAT"
  <2>1. at \in Files
    BY DEF Shape, ClientTypes
  <2>2. m \in Requests
    BY <2>1, RequestType
  <2> QED BY <2>2, AskShape, MsgFields
<1> HIDE DEF m
<1>3. /\ Broken(cur)' = Broken(cur) /\ Svc' = Svc
      /\ Len(Up) \in Nat /\ Len(Down) \in Nat
      /\ \/ Broken(cur) /\ Up' = Up
         \/ ~Broken(cur) /\ Grown(Up, Up', m)
  BY <1>1, <1>2, WroteUp
<1>4. Down' = Down /\ StatEnd' = StatEnd /\ Lists' = Lists
  BY <1>1 DEF Down, StatEnd, Lists
<1>5. StatTalk
  BY <1>1 DEF Talk, InStat
<1>6. Base = 0 /\ Asked = at - 1
  BY <1>1 DEF Base, Asked
<1>7. Course'
  <2>1. pc' \in {"ask", "answer"}
    BY <1>1 DEF Ask
  <2> QED BY <1>1, <2>1 DEF Talk, Course, InSend, InRecv
<1>8. CASE ~Lists
  <2>1. Base' = 0 /\ Asked' = at /\ at' <= StatEnd' /\ pc' \in {"ask", "answer"}
    BY <1>1, <1>4, <1>5, <1>8, TalkTypes DEF Ask, Base, Asked, StatTalk
  <2>2. StatTalk'
    <3>1. Svc'.pc \in {"wait", "closed"}
      BY <1>3, <1>5 DEF StatTalk
    <3>2. \A i \in 1..Len(Up') : Up'[i].id = "STAT"
      BY <1>2, <1>3, <1>5, <1>8 DEF StatTalk, Grown
    <3>3. \A i \in 1..Len(Down') : Down'[i].id = "STAT" /\ Down'[i].file = Base' + i
      BY <1>4, <1>5, <1>6, <2>1 DEF StatTalk
    <3>4. Base' + Len(Down') + Len(Up') <= Asked'
      <4>1. Len(Down) \in Nat /\ Len(Up) \in Nat /\ at \in Nat
            /\ Base' = 0 /\ Asked' = at /\ Len(Down') = Len(Down)
        BY <1>3, <1>4, <2>1, TalkTypes
      <4>2. 0 + Len(Down) + Len(Up) <= at - 1
        BY <1>5, <1>6 DEF StatTalk
      <4>3. Len(Up') = Len(Up) \/ Len(Up') = Len(Up) + 1
        BY <1>3 DEF Grown
      <4> QED BY ONLY <4>1, <4>2, <4>3
    <3>5. ~Broken(cur)' => Base' + Len(Down') + Len(Up') = Asked'
      <4> SUFFICES ASSUME ~Broken(cur) PROVE Base' + Len(Down') + Len(Up') = Asked'
        BY <1>3
      <4>1. Len(Down) \in Nat /\ Len(Up) \in Nat /\ at \in Nat
            /\ Base' = 0 /\ Asked' = at /\ Len(Down') = Len(Down)
        BY <1>3, <1>4, <2>1, TalkTypes
      <4>2. 0 + Len(Down) + Len(Up) = at - 1
        BY <1>5, <1>6 DEF StatTalk
      <4>3. Len(Up') = Len(Up) + 1
        BY <1>3 DEF Grown
      <4> QED BY ONLY <4>1, <4>2, <4>3
    <3>6. ~Broken(cur)' => \A i \in 1..Len(Up') : Up'[i].file = Base' + Len(Down') + i
      <4> SUFFICES ASSUME ~Broken(cur), NEW i \in 1..Len(Up')
                   PROVE  Up'[i].file = Len(Down) + i
        BY <1>3, <1>4, <2>1
      <4>1. Len(Down) + Len(Up) = at - 1 /\ at \in Nat
            /\ \A j \in 1..Len(Up) : Up[j].file = Len(Down) + j
        BY <1>3, <1>5, <1>6, TalkTypes DEF StatTalk
      <4>2. Len(Up') = Len(Up) + 1 /\ Up'[Len(Up) + 1] = m
            /\ \A j \in 1..Len(Up) : Up'[j] = Up[j]
        BY <1>3 DEF Grown
      <4>3. CASE i = Len(Up) + 1
        BY <1>2, <1>3, <4>1, <4>2, <4>3
      <4>4. CASE i \in 1..Len(Up)
        BY <4>1, <4>2, <4>4
      <4> QED BY <1>3, <4>2, <4>3, <4>4
    <3> QED BY <2>1, <3>1, <3>2, <3>3, <3>4, <3>5, <3>6 DEF StatTalk
  <2>3. InStat' /\ ~InList' /\ ~InRest' /\ ~InSend' /\ ~InRecv'
    BY <1>4, <1>8, <2>1 DEF InStat, InList, InRest, InSend, InRecv
  <2> QED BY <1>7, <2>2, <2>3 DEF Talk
<1>9. CASE Lists
  <2>1. pc' = "answer" /\ at' = 1
    BY <1>1, <1>9 DEF Ask
  <2>2. at = 1
    BY <1>5, <1>9, TalkTypes DEF StatTalk, StatEnd, Lists
  <2>3. Len(Down) = 0 /\ Len(Up) = 0
    BY <1>3, <1>5, <1>6, <2>2 DEF StatTalk
  <2>4. ListTalk'
    <3>1. Svc'.pc \in {"wait", "closed"}
      BY <1>3, <1>5 DEF StatTalk
    <3>2. Len(Up') > 0 => Len(Up') = 1 /\ Up'[1].id = "LIST"
      BY <1>2, <1>3, <1>9, <2>3 DEF Grown
    <3>3. ~Broken(cur)' => Len(Up') > 0
      BY <1>3, <2>3 DEF Grown
    <3> QED BY <1>4, <2>1, <2>3, <3>1, <3>2, <3>3 DEF ListTalk
  <2>5. ~InStat' /\ InList' /\ ~InRest' /\ ~InSend' /\ ~InRecv'
    BY <1>4, <1>9, <2>1 DEF InStat, InList, InRest, InSend, InRecv
  <2> QED BY <1>7, <2>4, <2>5 DEF Talk
<1> QED BY <1>8, <1>9

LEMMA StatAnsweredTalk ==
  ASSUME Shape, Talk, StatAnswered
  PROVE  Talk'
<1>1. pc = "answer" /\ down[cur] # <<>> /\ Head(down[cur]).id = "STAT" /\ UNCHANGED <<up, others>>
  BY DEF StatAnswered, Received
<1>2. CASE told' = TRUE /\ GiveUp
  BY <1>1, <1>2, EndTalk, TalkTypes DEF GiveUp, Exit
<1>3. CASE ~(cmd = "pull" /\ Head(down[cur]).n = Missing)
  <2>1. Consume /\ UNCHANGED <<cmd, cur, pos, told, exit, lcopy>>
    BY <1>3 DEF StatAnswered
  <2>2. /\ Broken(cur)' = Broken(cur) /\ Svc' = Svc /\ Up' = Up
        /\ Len(Up) \in Nat /\ Len(Down) \in Nat
        /\ Shrunk(Down, Down') /\ Head(down[cur]) = Down[1]
    BY <1>1, <2>1, ConsumedDown
  <2>3. ~Lists
    <3>1. Down[1].id = "STAT" /\ 1 \in 1..Len(Down)
      BY <1>1, <2>2 DEF Shrunk
    <3> QED BY <1>1, <3>1 DEF Talk, InList, ListTalk
  <2>4. StatTalk /\ StatEnd' = StatEnd /\ Lists' = Lists
    BY <1>1, <2>1, <2>3 DEF Talk, InStat, StatEnd, Lists
  <2>5. Base = at - 1 /\ Asked = StatEnd
    BY <1>1 DEF Base, Asked
  <2>6. CASE at < StatEnd
    <3>1. at' = at + 1 /\ pc' = "answer"
      BY <1>1, <1>3, <2>6 DEF StatAnswered
    <3>2. Base' = at /\ Asked' = StatEnd /\ at' <= StatEnd'
      BY <2>4, <2>6, <3>1, TalkTypes DEF Base, Asked
    <3>3. StatTalk'
      <4>1. \A i \in 1..Len(Down') : Down'[i].id = "STAT" /\ Down'[i].file = Base' + i
        <5> SUFFICES ASSUME NEW i \in 1..Len(Down')
                     PROVE  Down'[i].id = "STAT" /\ Down'[i].file = at + i
          BY <3>2
        <5>1. i + 1 \in 1..Len(Down) /\ Down'[i] = Down[i + 1] /\ i \in Nat
          BY <2>2 DEF Shrunk
        <5>2. Down[i + 1].id = "STAT" /\ Down[i + 1].file = (at - 1) + (i + 1)
          BY <2>4, <2>5, <5>1 DEF StatTalk
        <5> QED BY <5>1, <5>2, TalkTypes
      <4>2. Base' + Len(Down') = Base + Len(Down)
        <5>1. Len(Down') = Len(Down) - 1
          BY <2>2 DEF Shrunk
        <5>2. at \in Nat /\ Len(Down) \in Nat /\ Base' = at /\ Base = at - 1
          BY <2>2, <2>5, <3>2, TalkTypes
        <5> QED BY ONLY <5>1, <5>2
      <4>3. Base' + Len(Down') + Len(Up') <= Asked'
            /\ (~Broken(cur)' => Base' + Len(Down') + Len(Up') = Asked')
        BY <2>2, <2>4, <2>5, <3>2, <4>2 DEF StatTalk
      <4>4. ~Broken(cur)' => \A i \in 1..Len(Up') : Up'[i].file = Base' + Len(Down') + i
        BY <2>2, <2>4, <4>2 DEF StatTalk
      <4>5. Svc'.pc \in {"wait", "closed"} /\ \A i \in 1..Len(Up') : Up'[i].id = "STAT"
        BY <2>2, <2>4 DEF StatTalk
      <4> QED BY <3>2, <4>1, <4>3, <4>4, <4>5 DEF StatTalk
    <3>4. Course'
      BY <2>1, <3>1 DEF Talk, Course, InSend, InRecv
    <3>5. InStat' /\ ~InList' /\ ~InRest' /\ ~InSend' /\ ~InRecv'
      BY <2>3, <2>4, <3>1 DEF InStat, InList, InRest, InSend, InRecv
    <3> QED BY <3>3, <3>4, <3>5 DEF Talk
  <2>7. CASE ~(at < StatEnd)
    <3>1. at' = 1 /\ pc' = IF cmd = "dry" THEN "quit" ELSE "copy"
      BY <1>3, <2>7 DEF StatAnswered
    <3>2. Len(Down') = 0 /\ Len(Up') = 0
      <4>1. at <= StatEnd /\ (at - 1) + Len(Down) + Len(Up) <= StatEnd
        BY <2>4, <2>5 DEF StatTalk
      <4>2. Len(Down) > 0 /\ Len(Down') = Len(Down) - 1
        BY <2>2 DEF Shrunk
      <4>3. at \in Nat /\ StatEnd \in Nat /\ Len(Up') = Len(Up)
            /\ Len(Up) \in Nat /\ Len(Down) \in Nat
        BY <2>2, TalkTypes
      <4> QED BY ONLY <2>7, <4>1, <4>2, <4>3
    <3>3. RestTalk'
      BY <2>2, <2>4, <3>2 DEF RestTalk, StatTalk
    <3>4. Course'
      <4>1. cmd # "dry" => cmd \in Pushes \cup Pulls
        BY <2>3, TalkTypes DEF AllCommands, Lists, Pushes, Pulls
      <4>2. CopyEnd' = CopyEnd /\ at' <= CopyEnd'
        BY <2>1, <3>1, TalkTypes DEF CopyEnd
      <4> QED BY <2>1, <3>1, <4>1, <4>2 DEF Talk, Course, InSend, InRecv
    <3> QED BY <3>1, <3>3, <3>4, RestStep
  <2> QED BY <2>6, <2>7
<1> QED BY <1>2, <1>3 DEF StatAnswered

LEMMA EntryTalk ==
  ASSUME Shape, Talk, Entry
  PROVE  Talk'
<1>1. pc = "answer" /\ down[cur] # <<>> /\ Head(down[cur]).id = "DENT" /\ Consume
      /\ UNCHANGED <<pc, cmd, cur, at, pos, told, exit, lcopy, up, others>>
  BY DEF Entry, Received
<1>2. /\ Broken(cur)' = Broken(cur) /\ Svc' = Svc /\ Up' = Up
      /\ Len(Up) \in Nat /\ Len(Down) \in Nat
      /\ Shrunk(Down, Down') /\ Head(down[cur]) = Down[1]
  BY <1>1, ConsumedDown
<1>3. Lists /\ Lists' = Lists
  <2>1. Down[1].id = "DENT" /\ 1 \in 1..Len(Down)
    BY <1>1, <1>2 DEF Shrunk
  <2> QED BY <1>1, <2>1 DEF Talk, InStat, StatTalk, Lists
<1>4. ListTalk
  BY <1>1, <1>3 DEF Talk, InList
<1>5. ListTalk'
  <2>1. Len(Down) > 0 /\ Len(Down') = Len(Down) - 1
        /\ \A i \in 1..Len(Down') : i + 1 \in 1..Len(Down) /\ Down'[i] = Down[i + 1]
    BY <1>2 DEF Shrunk
  <2>2. Len(Up) = 0
    BY <1>2, <1>4, <2>1 DEF ListTalk
  <2>3. \A i \in 1..Len(Down') :
          /\ Down'[i].id \in {"DENT", "DONE"}
          /\ Down'[i].id = "DONE" => i = Len(Down') /\ Svc'.pc # "list" /\ Len(Up') = 0
    <3> SUFFICES ASSUME NEW i \in 1..Len(Down')
                 PROVE  /\ Down'[i].id \in {"DENT", "DONE"}
                        /\ Down'[i].id = "DONE" => i = Len(Down') /\ Svc.pc # "list"
      BY <1>2, <2>2
    <3>1. i + 1 \in 1..Len(Down) /\ Down'[i] = Down[i + 1]
      BY <2>1
    <3>2. /\ Down[i + 1].id \in {"DENT", "DONE"}
          /\ Down[i + 1].id = "DONE" => i + 1 = Len(Down) /\ Svc.pc # "list"
      BY <1>4, <3>1 DEF ListTalk
    <3> QED BY <1>2, <2>1, <3>1, <3>2
  <2>4. ~Broken(cur) /\ Svc.pc = "wait" => Finished({"DONE"})'
    <3>1. SUFFICES ASSUME ~Broken(cur), Svc.pc = "wait"
                   PROVE  Len(Down') > 0 /\ Down'[Len(Down')].id = "DONE"
      BY DEF Finished
    <3>2. Down[Len(Down)].id = "DONE" /\ Down[1].id = "DENT"
      BY <1>1, <1>2, <1>4, <2>2, <3>1 DEF ListTalk, Finished
    <3>3. Len(Down) # 1
      BY <3>2
    <3>4. Len(Down') \in 1..Len(Down') /\ Len(Down') + 1 = Len(Down)
      BY <1>2, <2>1, <3>3
    <3> QED BY <2>1, <3>2, <3>4
  <2> QED BY <1>1, <1>2, <1>4, <2>2, <2>3, <2>4 DEF ListTalk
<1>6. Course'
  BY <1>1 DEF Talk, Course, InSend, InRecv
<1>7. ~InStat' /\ InList' /\ ~InRest' /\ ~InSend' /\ ~InRecv'
  BY <1>1, <1>3 DEF InStat, InList, InRest, InSend, InRecv
<1> QED BY <1>5, <1>6, <1>7 DEF Talk

LEMMA ListedTalk ==
  ASSUME Shape, Talk, Listed
  PROVE  Talk'
<1>1. pc = "answer" /\ down[cur] # <<>> /\ Head(down[cur]).id = "DONE" /\ Consume
      /\ pc' = (IF cmd = "ls" THEN "quit" ELSE "copy")
      /\ UNCHANGED <<cmd, cur, at, pos, flag, told, exit, lcopy, up, others>>
  BY DEF Listed, Received
<1>2. /\ Broken(cur)' = Broken(cur) /\ Svc' = Svc /\ Up' = Up
      /\ Len(Up) \in Nat /\ Len(Down) \in Nat
      /\ Shrunk(Down, Down') /\ Head(down[cur]) = Down[1]
  BY <1>1, ConsumedDown
<1>3. Down[1].id = "DONE" /\ 1 \in 1..Len(Down)
  BY <1>1, <1>2 DEF Shrunk
<1>4. Lists
  BY <1>1, <1>3 DEF Talk, InStat, StatTalk, Lists
<1>5. ListTalk
  BY <1>1, <1>4 DEF Talk, InList
<1>6. Len(Down) = 1 /\ Len(Up) = 0 /\ Svc.pc # "list" /\ at = 1
  BY <1>3, <1>5 DEF ListTalk
<1>7. RestTalk'
  BY <1>2, <1>5, <1>6 DEF RestTalk, ListTalk, Shrunk
<1>8. Course'
  <2>1. cmd # "ls" => cmd \in Pushes \cup Pulls
    BY <1>4 DEF Lists, Pushes, Pulls
  <2>2. at' <= CopyEnd'
    BY <1>1, <1>6, TalkTypes DEF CopyEnd
  <2> QED BY <1>1, <2>1, <2>2 DEF Talk, Course, InSend, InRecv
<1> QED BY <1>1, <1>7, <1>8, RestStep

LEMMA SkipTalk ==
  ASSUME Shape, Talk, Skip
  PROVE  Talk'
<1>1. pc = "copy" /\ Advance /\ UNCHANGED <<cmd, cur, pos, flag, told, exit, lcopy, up, down, others>>
  BY DEF Skip
<1>2. RestTalk'
  BY <1>1 DEF Talk, InRest, RestTalk, Up, Down, Svc, others
<1>3. \/ at < CopyEnd /\ at' = at + 1 /\ pc' = "copy"
      \/ ~(at < CopyEnd) /\ at' = at /\ pc' = "quit"
  BY <1>1, AdvanceFacts
<1>4. Course'
  <2>1. CopyEnd' = CopyEnd /\ (pc' = "copy" => at' <= CopyEnd')
    BY <1>1, <1>3, TalkTypes DEF CopyEnd
  <2> QED BY <1>1, <1>3, <2>1 DEF Talk, Course, InSend, InRecv
<1> QED BY <1>2, <1>3, <1>4, RestStep

LEMMA SendRequestTalk ==
  ASSUME Shape, Talk, SendRequest
  PROVE  Talk'
<1> DEFINE m == Msg("SEND", at, 0)
<1>1. pc = "copy" /\ cmd \in Pushes /\ UNCHANGED others
  BY DEF SendRequest, Pushes
<1>2. CASE told' = TRUE /\ GiveUp
  BY <1>1, <1>2, EndTalk, TalkTypes DEF GiveUp, Exit
<1>3. CASE at \notin links
  <2>1. pc' = "data" /\ pos' = 0 /\ UNCHANGED <<cmd, cur, at, flag, told, exit, lcopy, down>>
    BY <1>3 DEF SendRequest
  <2>2. Wrote(m) /\ m \in Requests /\ m.file = at /\ m.id = "SEND"
    <3>1. at \in Files
      BY DEF Shape, ClientTypes
    <3>2. m \in Requests
      BY <3>1, RequestType
    <3> QED BY <3>2, SendRequestShape, MsgFields
  <2> HIDE DEF m
  <2>3. /\ Broken(cur)' = Broken(cur) /\ Svc' = Svc
        /\ Len(Up) \in Nat /\ Len(Down) \in Nat
        /\ \/ Broken(cur) /\ Up' = Up
           \/ ~Broken(cur) /\ Grown(Up, Up', m)
    BY <1>1, <2>1, <2>2, WroteUp
  <2>4. Len(Up) = 0 /\ Len(Down) = 0 /\ Svc.pc \in {"wait", "closed"} /\ Down' = Down
    BY <1>1, <2>1 DEF Talk, InRest, RestTalk, Down
  <2>5. /\ \A i \in 1..Len(Up') : i = 1 /\ Up'[i] = m
        /\ ~Broken(cur)' => Len(Up') = 1
    BY <2>3, <2>4 DEF Grown
  <2>6. SendTalk'
    BY <2>1, <2>2, <2>3, <2>4, <2>5 DEF SendTalk, Working
  <2>7. Course'
    <3>1. pos' <= MaxChunks /\ pos' <= len'[at']
      BY <1>1, <2>1, TalkTypes DEF others, fixed
    <3>2. CopyEnd' = CopyEnd /\ at <= CopyEnd
      BY <1>1, <2>1 DEF CopyEnd, Talk, Course
    <3> QED BY <1>1, <2>1, <3>1, <3>2 DEF Talk, Course, InSend, InRecv
  <2>8. ~InStat' /\ ~InList' /\ ~InRest' /\ InSend' /\ ~InRecv'
    BY <2>1 DEF InStat, InList, InRest, InSend, InRecv
  <2> QED BY <2>6, <2>7, <2>8 DEF Talk
<1> QED BY <1>2, <1>3 DEF SendRequest

\* The client goes on to send, and writes m or nothing.
LEMMA SendOn ==
  ASSUME Shape, Talk, InSend, InSend', UNCHANGED <<cmd, cur, at, lcopy, down, others>>,
         pos' \in Nat, pos' <= len[at], pc # "status", NEW m \in Requests,
         m.file = at, m.id = IF pc' = "status" THEN "DONE" ELSE "DATA",
         (up' = up /\ pc' # "status") \/ Wrote(m)
  PROVE  Talk'
<1>1. SendTalk /\ pc # "idle" /\ ~InStat' /\ ~InList' /\ ~InRest' /\ ~InRecv'
  BY DEF Talk, InStat, InList, InRest, InSend, InRecv
<1>2. Down' = Down /\ Svc' = Svc /\ Broken(cur)' = Broken(cur) /\ at' = at
  BY DEF Down, Svc, Broken, others
<1>3. Len(Up) \in Nat /\ Len(Down) \in Nat
  BY <1>1, CurSession, EmptyFacts DEF Up, Down
<1>4. Course'
  <2>1. pos' <= MaxChunks
    BY TalkTypes
  <2>2. CopyEnd' = CopyEnd /\ len' = len
    BY DEF CopyEnd, others, fixed
  <2> QED BY <1>1, <2>1, <2>2 DEF Talk, Course, InSend, InRecv
<1>5. \/ Up' = Up /\ (Broken(cur) \/ pc' # "status")
      \/ ~Broken(cur) /\ Grown(Up, Up', m)
  <2>1. CASE Wrote(m)
    BY <1>1, <2>1, WroteUp
  <2> QED BY <2>1 DEF Up
<1>6. /\ \A i \in 1..Len(Up) : Up[i].file = at /\ Up[i].id \in {"SEND", "DATA"}
      /\ \A i \in 1..Len(Down) : Down[i].file = at /\ Down[i].id # "OKAY"
  BY <1>1 DEF SendTalk
<1>7. CASE Up' = Up /\ (Broken(cur) \/ pc' # "status")
  <2>1. SendTalk'
    BY <1>1, <1>2, <1>3, <1>6, <1>7 DEF SendTalk
  <2> QED BY <1>1, <1>4, <2>1 DEF Talk
<1>8. CASE ~Broken(cur) /\ Grown(Up, Up', m)
  <2>1. Len(Up') = Len(Up) + 1 /\ Len(Up') > 0 /\ Up'[Len(Up')] = m
        /\ \A i \in 1..Len(Up) : Up'[i] = Up[i]
    BY <1>8 DEF Grown
  <2>2. Svc.pc = "wait" => Len(Up) > 0 /\ Up[1].id = "SEND"
    BY <1>1, <1>3, <1>8 DEF SendTalk
  <2>3. \A i \in 1..Len(Up') :
          /\ Up'[i].file = at' /\ Up'[i].id \in {"SEND", "DATA", "DONE"}
          /\ Up'[i].id = "SEND" => i = 1 /\ Svc'.pc \in {"wait", "closed"} /\ Len(Down') = 0
          /\ Up'[i].id = "DONE" => i = Len(Up') /\ pc' = "status"
    <3> SUFFICES ASSUME NEW i \in 1..Len(Up')
                 PROVE  /\ Up'[i].file = at /\ Up'[i].id \in {"SEND", "DATA", "DONE"}
                        /\ Up'[i].id = "SEND" =>
                              i = 1 /\ Svc.pc \in {"wait", "closed"} /\ Len(Down) = 0
                        /\ Up'[i].id = "DONE" => i = Len(Up') /\ pc' = "status"
      BY <1>2
    <3>1. CASE i \in 1..Len(Up)
      BY <1>1, <1>6, <2>1, <3>1 DEF SendTalk
    <3>2. CASE i = Len(Up')
      BY <2>1, <3>2
    <3> QED BY <1>3, <2>1, <3>1, <3>2
  <2>4. Svc.pc = "wait" => Up'[1].id = "SEND"
    BY <1>3, <2>1, <2>2
  <2>5. /\ pc' = "status" => Up'[Len(Up')].id = "DONE"
        /\ Svc.pc = "open" => Len(Down) = 0
        /\ Svc.pc = "send" /\ Svc.fd # None => Len(Down) <= 1
        /\ Svc.pc = "send" /\ Svc.fd = None => Len(Down) > 0
    BY <1>1, <1>8, <2>1 DEF SendTalk
  <2>6. SendTalk'
    BY <1>1, <1>2, <1>6, <2>1, <2>3, <2>4, <2>5 DEF SendTalk
  <2> QED BY <1>1, <1>4, <2>6 DEF Talk
<1> QED BY <1>5, <1>7, <1>8

LEMMA SendDataTalk ==
  ASSUME Shape, Talk, SendData
  PROVE  Talk'
<1>1. pc = "data" /\ pos < len[at] /\ UNCHANGED <<cmd, cur, at, flag, exit, lcopy, down, others>>
      /\ \/ ClientWrites(Msg("DATA", at, pos + 1)) /\ pos' = pos + 1 /\ UNCHANGED <<pc, told>>
         \/ pc' = "done" /\ told' = TRUE /\ UNCHANGED <<pos, up>>
  BY DEF SendData, HasMore
<1> DEFINE m == Msg("DATA", at, pos + 1)
<1>2. m \in Requests /\ m.file = at /\ m.id = "DATA"
  <2>1. pos + 1 \in Nat /\ pos + 1 <= MaxChunks
    BY <1>1, TalkTypes
  <2>2. at \in Files
    BY DEF Shape, ClientTypes
  <2> QED BY <2>1, <2>2, RequestType, MsgFields
<1>3. (up' = up /\ pc' # "status") \/ Wrote(m)
  BY <1>1, <1>2, WritesFacts
<1> HIDE DEF m
<1>4. pos' \in Nat /\ pos' <= len[at]
  BY <1>1, TalkTypes
<1>5. InSend /\ InSend' /\ pc' # "status"
  BY <1>1 DEF InSend
<1> QED BY <1>1, <1>2, <1>3, <1>4, <1>5, SendOn

LEMMA SendDoneTalk ==
  ASSUME Shape, Talk, SendDone
  PROVE  Talk'
<1>1. pc \in {"data", "done"} /\ ClientWrites(Msg("DONE", at, pos)) /\ pc' = "status"
      /\ UNCHANGED <<cmd, cur, at, pos, flag, told, exit, lcopy, down, others>>
  BY DEF SendDone
<1> DEFINE m == Msg("DONE", at, pos)
<1>2. m \in Requests /\ m.file = at /\ m.id = "DONE"
  <2>1. pos \in Nat /\ at \in Files
    BY DEF Shape, ClientTypes
  <2> QED BY <2>1, RequestType, MsgFields
<1>3. Wrote(m)
  BY <1>1, <1>2, WritesFacts
<1> HIDE DEF m
<1>4. InSend /\ InSend'
  BY <1>1 DEF InSend
<1>5. pos' \in Nat /\ pos' <= len[at]
  BY <1>1, <1>4, TalkTypes DEF Talk, Course
<1> QED BY <1>1, <1>2, <1>3, <1>4, <1>5, SendOn

LEMMA SendStatusTalk ==
  ASSUME Shape, Talk, SendStatus
  PROVE  Talk'
<1>1. pc = "status" /\ down[cur] # <<>> /\ UNCHANGED <<up, others>>
  BY DEF SendStatus, Received
<1>2. CASE FailStatus
  BY <1>1, <1>2, EndTalk, TalkTypes DEF FailStatus, GiveUp, Exit
<1>3. CASE Received("OKAY") /\ Consume /\ Advance
           /\ UNCHANGED <<cmd, cur, pos, flag, told, exit, lcopy>>
  <2>1. /\ Broken(cur)' = Broken(cur) /\ Svc' = Svc /\ Up' = Up
        /\ Len(Up) \in Nat /\ Len(Down) \in Nat
        /\ Shrunk(Down, Down') /\ Head(down[cur]) = Down[1]
    BY <1>1, <1>3, ConsumedDown
  <2>2. SendTalk
    BY <1>1 DEF Talk, InSend
  <2>3. Down[1].id = "OKAY" /\ 1 \in 1..Len(Down)
    BY <1>3, <2>1 DEF Received, Shrunk
  <2>4. Len(Down) = 1 /\ Len(Up) = 0 /\ Svc.pc \in {"wait", "closed"}
    BY <2>2, <2>3 DEF SendTalk
  <2>5. RestTalk'
    BY <2>1, <2>4 DEF RestTalk, Shrunk
  <2>6. \/ at < CopyEnd /\ at' = at + 1 /\ pc' = "copy"
        \/ ~(at < CopyEnd) /\ at' = at /\ pc' = "quit"
    BY <1>3, AdvanceFacts
  <2>7. Course'
    <3>1. CopyEnd' = CopyEnd /\ (pc' = "copy" => at' <= CopyEnd')
      BY <1>3, <2>6, TalkTypes DEF CopyEnd
    <3> QED BY <1>1, <1>3, <2>6, <3>1 DEF Talk, Course, InSend, InRecv
  <2> QED BY <2>5, <2>6, <2>7, RestStep
<1> QED BY <1>2, <1>3 DEF SendStatus

LEMMA RecvRequestTalk ==
  ASSUME Shape, Talk, RecvRequest
  PROVE  Talk'
<1> DEFINE m == Msg("RECV", at, 0)
<1>1. pc = "copy" /\ cmd \in Pulls /\ pc' = "first" /\ pos' = 0
      /\ UNCHANGED <<cmd, cur, at, flag, told, exit, lcopy, down, others>>
  BY DEF RecvRequest, Pulls
<1>2. Wrote(m) /\ m \in Requests /\ m.file = at /\ m.id = "RECV"
  <2>1. at \in Files
    BY DEF Shape, ClientTypes
  <2>2. m \in Requests
    BY <2>1, RequestType
  <2> QED BY <2>2, RecvRequestShape, MsgFields
<1> HIDE DEF m
<1>3. /\ Broken(cur)' = Broken(cur) /\ Svc' = Svc
      /\ Len(Up) \in Nat /\ Len(Down) \in Nat
      /\ \/ Broken(cur) /\ Up' = Up
         \/ ~Broken(cur) /\ Grown(Up, Up', m)
  BY <1>1, <1>2, WroteUp
<1>4. Len(Up) = 0 /\ Len(Down) = 0 /\ Svc.pc \in {"wait", "closed"} /\ Down' = Down
  BY <1>1 DEF Talk, InRest, RestTalk, Down
<1>5. /\ \A i \in 1..Len(Up') : i = 1 /\ Up'[i] = m
      /\ Len(Up') > 0 => Len(Up') = 1 /\ Up'[1] = m
      /\ ~Broken(cur)' => Len(Up') = 1
  <2>1. CASE Broken(cur) /\ Up' = Up
    BY <1>3, <1>4, <2>1
  <2>2. CASE ~Broken(cur) /\ Grown(Up, Up', m)
    <3>1. Len(Up') = 1 /\ Up'[1] = m
      BY <1>4, <2>2 DEF Grown
    <3> QED BY <3>1
  <2> QED BY <1>3, <2>1, <2>2
<1>6. RecvTalk'
  <2>1. (\A i \in 1..Len(Up') : Up'[i].file = at') /\ Svc'.pc \in {"wait", "closed"}
    BY <1>1, <1>2, <1>3, <1>4, <1>5
  <2>2. Len(Up') > 0 => /\ Len(Up') = 1 /\ Up'[1].id = "RECV" /\ Svc'.pc # "recv"
                        /\ Len(Down') = 0 /\ pos' = 0
    BY <1>1, <1>2, <1>4, <1>5, <2>1
  <2>3. Len(Down') = 0 /\ (~Broken(cur)' => ~(Len(Up') = 0)) /\ Svc'.pc # "recv"
    BY <1>4, <1>5, <2>1
  <2>4. 1..Len(Down') = {}
    BY <2>3
  <2> QED BY <2>1, <2>2, <2>3, <2>4 DEF RecvTalk
<1>7. Course'
  <2>1. pos' <= MaxChunks
    BY <1>1, TalkTypes
  <2>2. CopyEnd' = CopyEnd /\ at <= CopyEnd
    BY <1>1 DEF CopyEnd, Talk, Course
  <2> QED BY <1>1, <2>1, <2>2 DEF Talk, Course, InSend, InRecv
<1>8. ~InStat' /\ ~InList' /\ ~InRest' /\ ~InSend' /\ InRecv'
  BY <1>1 DEF InStat, InList, InRest, InSend, InRecv
<1> QED BY <1>6, <1>7, <1>8 DEF Talk

LEMMA RecvDataTalk ==
  ASSUME Shape, Talk, RecvData
  PROVE  Talk'
<1>1. /\ pc # "idle" /\ down[cur] # <<>> /\ UNCHANGED <<up, others>>
      /\ RecvMore \/ RecvLast \/ RecvFailed \/ RecvStops
      /\ InRecv /\ cmd \in Pulls /\ RecvTalk /\ at <= CopyEnd
  BY RecvCases DEF RecvData, Talk, InRecv, Course
<1>2. CASE RecvStops
  <2>1. pc' = "idle" /\ pos' = 0
    BY <1>2 DEF RecvStops, Exit
  <2>2. lcopy' \in [Files -> {Old, None} \cup (0..MaxChunks)]
    <3>1. pos \in {Old, None} \cup (0..MaxChunks)
      BY TalkTypes
    <3> QED BY <1>2, <3>1, TalkTypes DEF RecvStops
  <2> QED BY <2>1, <2>2, EndTalk
<1>3. CASE RecvMore \/ RecvLast \/ RecvFailed
  <2>1. cur' = cur /\ cmd' = cmd /\ Consume
    BY <1>3 DEF RecvMore, RecvLast, RecvFailed
  <2>2. /\ Broken(cur)' = Broken(cur) /\ Svc' = Svc /\ Up' = Up
        /\ Len(Up) \in Nat /\ Len(Down) \in Nat
        /\ Shrunk(Down, Down') /\ Head(down[cur]) = Down[1]
    BY <1>1, <2>1, ConsumedDown
  <2>3. Len(Down) > 0 /\ Len(Down') = Len(Down) - 1 /\ 1 \in 1..Len(Down)
        /\ \A i \in 1..Len(Down') : i + 1 \in 1..Len(Down) /\ Down'[i] = Down[i + 1]
    BY <2>2 DEF Shrunk
  <2>4. Len(Up) = 0
    BY <1>1, <2>2, <2>3 DEF RecvTalk
  <2>5. CASE RecvMore
    <3>1. Down[1].id = "DATA" /\ pos' = pos + 1 /\ pc' = "more" /\ at' = at
          /\ lcopy' = [lcopy EXCEPT ![at] = pos + 1]
      BY <2>2, <2>5 DEF RecvMore, Received
    <3>2. pos + 1 <= MaxChunks
      BY <1>1, <2>3, <3>1 DEF RecvTalk
    <3>3. \A i \in 1..Len(Down') :
            /\ Down'[i].file = at'
            /\ Down'[i].id = "DATA" => pos' + i <= MaxChunks
            /\ Down'[i].id \in {"DONE", "FAIL"} =>
                  i = Len(Down') /\ Svc'.pc # "recv" /\ Len(Up') = 0
      <4> SUFFICES ASSUME NEW i \in 1..Len(Down')
                   PROVE  /\ Down'[i].file = at
                          /\ Down'[i].id = "DATA" => (pos + 1) + i <= MaxChunks
                          /\ Down'[i].id \in {"DONE", "FAIL"} =>
                                i = Len(Down') /\ Svc.pc # "recv"
        BY <2>2, <2>4, <3>1
      <4>1. i + 1 \in 1..Len(Down) /\ Down'[i] = Down[i + 1] /\ i \in Nat
        BY <2>2, <2>3
      <4>2. /\ Down[i + 1].file = at
            /\ Down[i + 1].id = "DATA" => pos + (i + 1) <= MaxChunks
            /\ Down[i + 1].id \in {"DONE", "FAIL"} => i + 1 = Len(Down) /\ Svc.pc # "recv"
        BY <1>1, <4>1 DEF RecvTalk
      <4>3. pos + (i + 1) = (pos + 1) + i /\ (i + 1 = Len(Down) => i = Len(Down) - 1)
        <5>1. pos \in Nat /\ i \in Nat /\ Len(Down) \in Nat
          BY <2>2, <4>1, TalkTypes
        <5> QED BY <5>1, Shifts
      <4> QED BY <2>3, <4>1, <4>2, <4>3
    <3>4. ~Broken(cur) /\ Svc.pc = "wait" => Finished({"DONE", "FAIL"})'
      <4>1. SUFFICES ASSUME ~Broken(cur), Svc.pc = "wait"
                     PROVE  Len(Down') > 0 /\ Down'[Len(Down')].id \in {"DONE", "FAIL"}
        BY DEF Finished
      <4>2. Down[Len(Down)].id \in {"DONE", "FAIL"}
        BY <1>1, <2>4, <4>1 DEF RecvTalk, Finished
      <4>3. Len(Down) # 1
        BY <3>1, <4>2
      <4>4. Len(Down') \in 1..Len(Down') /\ Len(Down') + 1 = Len(Down)
        BY <2>2, <2>3, <4>3
      <4> QED BY <2>3, <4>2, <4>4
    <3>5. ~Broken(cur) /\ Svc.pc = "recv" => Svc.n = pos' + Len(Down')
      BY <1>1, <2>2, <2>3, <3>1, TalkTypes DEF RecvTalk
    <3>6. /\ \A i \in 1..Len(Up') : Up'[i].file = at'
          /\ Svc'.pc \in {"wait", "recv", "closed"}
          /\ Svc'.pc = "recv" => Svc'.file = at'
      BY <1>1, <2>2, <3>1 DEF RecvTalk
    <3>7. RecvTalk'
      BY <2>2, <2>4, <3>3, <3>4, <3>5, <3>6 DEF RecvTalk
    <3>8. Course'
      <4>1. lcopy' \in [Files -> {Old, None} \cup (0..MaxChunks)]
        <5>1. pos + 1 \in {Old, None} \cup (0..MaxChunks)
          BY <3>2, TalkTypes
        <5> QED BY <3>1, <5>1, TalkTypes
      <4>2. CopyEnd' = CopyEnd /\ pos' <= MaxChunks
        BY <2>1, <3>1, <3>2 DEF CopyEnd
      <4> QED BY <1>1, <2>1, <3>1, <4>1, <4>2 DEF Course, InSend, InRecv
    <3>9. ~InStat' /\ ~InList' /\ ~InRest' /\ ~InSend' /\ InRecv'
      BY <3>1 DEF InStat, InList, InRest, InSend, InRecv
    <3> QED BY <3>7, <3>8, <3>9 DEF Talk
  <2>6. CASE RecvLast \/ RecvFailed
    <3>1. Down[1].id \in {"DONE", "FAIL"} /\ Advance /\ pos' = pos
          /\ (lcopy' = [lcopy EXCEPT ![at] = pos] \/ lcopy' = [lcopy EXCEPT ![at] = None])
      BY <2>2, <2>6 DEF RecvLast, RecvFailed, Received
    <3>2. Len(Down) = 1 /\ Svc.pc # "recv"
      BY <1>1, <2>3, <3>1 DEF RecvTalk
    <3>3. RestTalk'
      BY <1>1, <2>2, <2>3, <2>4, <3>2 DEF RestTalk, RecvTalk
    <3>4. \/ at < CopyEnd /\ at' = at + 1 /\ pc' = "copy"
          \/ ~(at < CopyEnd) /\ at' = at /\ pc' = "quit"
      BY <3>1, AdvanceFacts
    <3>5. Course'
      <4>1. CopyEnd' = CopyEnd /\ (pc' = "copy" => at' <= CopyEnd')
        BY <2>1, <3>4, TalkTypes DEF CopyEnd
      <4>2. lcopy' \in [Files -> {Old, None} \cup (0..MaxChunks)] /\ pos' <= MaxChunks
        <5>1. pos \in {Old, None} \cup (0..MaxChunks)
          BY TalkTypes
        <5> QED BY <3>1, <5>1, TalkTypes
      <4> QED BY <1>1, <2>1, <3>4, <4>1, <4>2 DEF Course, InSend, InRecv
    <3> QED BY <3>3, <3>4, <3>5, RestStep
  <2> QED BY <1>3, <2>5, <2>6
<1> QED BY <1>1, <1>2, <1>3

LEMMA LeaveTalk ==
  ASSUME Shape, Talk, Quit \/ ClientFails \/ ClientKilled
  PROVE  Talk'
BY EndTalk, TalkTypes DEF Quit, ClientFails, ClientKilled, GiveUp, Exit

LEMMA BeginTalk ==
  ASSUME Shape, Talk, NEW c \in Commands, Begin(c)
  PROVE  Talk'
<1>1. cur \in Nat /\ cur + 1 \in Sessions /\ cur' = cur + 1 /\ cur + 1 > cur
  BY SyncAssumption DEF Begin, Shape, ClientTypes, Sessions
<1>2. up[cur + 1] = <<>> /\ down[cur + 1] = <<>>
  BY <1>1 DEF Shape, Future
<1>3. Up' = <<>> /\ Down' = <<>> /\ Svc' = Waiting
  BY <1>1, <1>2 DEF Begin, Up, Down, Svc, Shape, StreamTypes
<1>4. Len(Up') = 0 /\ Len(Down') = 0 /\ Svc'.pc = "wait"
  BY <1>3, ClosedType
<1>5. at' = 1 /\ pos' = 0 /\ cmd' = c /\ lcopy' = lcopy
      /\ pc' = IF c = "pushdir" THEN "copy" ELSE "ask"
  BY DEF Begin
<1>6. StatEnd' \in Nat /\ StatEnd' >= 1 /\ CopyEnd' \in Nat /\ CopyEnd' >= 1
  BY SyncAssumption DEF StatEnd, CopyEnd
<1>7. Course'
  <2>1. pos' <= MaxChunks /\ at' <= CopyEnd'
    BY <1>5, <1>6, SyncAssumption
  <2> QED BY <1>5, <2>1, TalkTypes DEF Course, InSend, InRecv, Pushes
<1>8. CASE c = "pushdir"
  <2>1. RestTalk'
    BY <1>4 DEF RestTalk
  <2> QED BY <1>5, <1>7, <1>8, <2>1, RestStep
<1>9. CASE c # "pushdir"
  <2>1. Base' = 0 /\ Asked' = 0
    BY <1>5, <1>9 DEF Base, Asked
  <2>2. StatTalk'
    <3>1. 1..Len(Up') = {} /\ 1..Len(Down') = {}
      BY <1>4
    <3>2. Base' + Len(Down') + Len(Up') = Asked' /\ Base' + Len(Down') + Len(Up') <= Asked'
          /\ at' <= StatEnd'
      BY <1>4, <1>5, <1>6, <2>1
    <3> QED BY <1>4, <3>1, <3>2 DEF StatTalk
  <2> QED BY <1>5, <1>7, <1>9, <2>2 DEF Talk, InStat, InList, InRest, InSend, InRecv
<1> QED BY <1>8, <1>9

\* The steps of other sessions, and of a service without a client.
LEMMA Elsewhere ==
  ASSUME Shape, Talk, UNCHANGED <<client, len>>,
         pc = "idle" \/ (Up' = Up /\ Down' = Down /\ Svc' = Svc /\ Broken(cur)' = Broken(cur))
  PROVE  Talk'
<1>1. UNCHANGED <<pc, cmd, cur, at, pos, lcopy>>
  BY DEF client
<1>2. Course'
  BY <1>1 DEF Talk, Course, InSend, InRecv, CopyEnd
<1>3. CASE pc = "idle"
  BY <1>1, <1>2, <1>3 DEF Talk, InStat, InList, InRest, InSend, InRecv
<1>4. CASE Up' = Up /\ Down' = Down /\ Svc' = Svc /\ Broken(cur)' = Broken(cur)
  <2>1. StatTalk => StatTalk'
    BY <1>1, <1>4 DEF StatTalk, Base, Asked, StatEnd
  <2>2. ListTalk => ListTalk'
    BY <1>1, <1>4 DEF ListTalk, Finished
  <2>3. RestTalk => RestTalk'
    BY <1>1, <1>4 DEF RestTalk
  <2>4. SendTalk => SendTalk'
    BY <1>1, <1>4 DEF SendTalk
  <2>5. RecvTalk => RecvTalk'
    BY <1>1, <1>4 DEF RecvTalk, Finished
  <2> QED BY <1>1, <1>2, <2>1, <2>2, <2>3, <2>4, <2>5
          DEF Talk, InStat, InList, InRest, InSend, InRecv, Lists
<1> QED BY <1>3, <1>4

\* In the client's own session only the phase that it is in can change.
LEMMA SamePhase ==
  ASSUME Shape, Talk, UNCHANGED <<client, len>>,
         InStat => StatTalk', InList => ListTalk', InRest => RestTalk',
         InSend => SendTalk', InRecv => RecvTalk'
  PROVE  Talk'
<1>1. UNCHANGED <<pc, cmd, cur, at, pos, lcopy>>
  BY DEF client
<1>2. Course'
  BY <1>1 DEF Talk, Course, InSend, InRecv, CopyEnd
<1> QED BY <1>1, <1>2 DEF Talk, InStat, InList, InRest, InSend, InRecv, Lists

\* A broken link: a part of what was under way is left.
LEMMA BrokenTalk ==
  ASSUME Shape, Talk, pc # "idle", UNCHANGED <<client, len>>, Cut(Up, Up'), Cut(Down, Down'),
         Broken(cur)', Svc' = Svc \/ (Svc' = Closed /\ Len(Up') = 0)
  PROVE  Talk'
<1>1. UNCHANGED <<pc, cmd, cur, at, pos, lcopy>>
  BY DEF client
<1>2. /\ Len(Up) \in Nat /\ Len(Up') \in Nat /\ Len(Up') <= Len(Up)
      /\ \A i \in 1..Len(Up') : i \in 1..Len(Up) /\ Up'[i] = Up[i]
      /\ Len(Down) \in Nat /\ Len(Down') \in Nat /\ Len(Down') <= Len(Down)
      /\ \A i \in 1..Len(Down') : i \in 1..Len(Down) /\ Down'[i] = Down[i]
  BY DEF Cut
<1>3. Svc' = Svc \/ (Svc'.pc = "closed" /\ Len(Up') = 0)
  BY ClosedType
<1>4. ASSUME StatTalk PROVE StatTalk'
  <2>1. Base' = Base /\ Asked' = Asked /\ StatEnd' = StatEnd /\ Base \in Int /\ Asked \in Int
    BY <1>1, TalkTypes DEF Base, Asked, StatEnd
  <2>2. Base + Len(Down') + Len(Up') <= Asked
    BY <1>2, <1>4, <2>1 DEF StatTalk
  <2>3. /\ \A i \in 1..Len(Up') : Up'[i].id = "STAT"
        /\ \A i \in 1..Len(Down') : Down'[i].id = "STAT" /\ Down'[i].file = Base + i
    BY <1>2, <1>4 DEF StatTalk
  <2> QED BY <1>1, <1>3, <1>4, <2>1, <2>2, <2>3 DEF StatTalk
<1>5. ASSUME ListTalk PROVE ListTalk'
  <2>1. Len(Up') > 0 =>
          Len(Up') = 1 /\ Up'[1].id = "LIST" /\ Svc'.pc # "list" /\ Len(Down') = 0
    <3> SUFFICES ASSUME Len(Up') > 0
                 PROVE  Len(Up') = 1 /\ Up'[1].id = "LIST" /\ Svc'.pc # "list" /\ Len(Down') = 0
      OBVIOUS
    <3>1. Len(Up) > 0 /\ 1 \in 1..Len(Up') /\ Svc' = Svc
      BY <1>2, <1>3
    <3>2. Len(Up) = 1 /\ Up[1].id = "LIST" /\ Svc.pc # "list" /\ Len(Down) = 0
      BY <1>5, <3>1 DEF ListTalk
    <3>3. Up'[1] = Up[1]
      BY <1>2, <3>1
    <3>4. Len(Up') \in Nat /\ Len(Up') <= Len(Up) /\ Len(Down') \in Nat /\ Len(Down') <= Len(Down)
      BY <1>2
    <3>5. Len(Up') = 1 /\ Len(Down') = 0
      <4> DEFINE a == Len(Up')
                 b == Len(Down')
      <4>1. a \in Nat /\ a <= 1 /\ a > 0 /\ b \in Nat /\ b <= 0
        BY <3>2, <3>4
      <4> HIDE DEF a, b
      <4>2. a = 1 /\ b = 0
        BY <4>1
      <4> QED BY <4>2 DEF a, b
    <3> QED BY <3>1, <3>2, <3>3, <3>5
  <2>2. \A i \in 1..Len(Down') :
          /\ Down'[i].id \in {"DENT", "DONE"}
          /\ Down'[i].id = "DONE" => i = Len(Down') /\ Svc'.pc # "list" /\ Len(Up') = 0
    BY <1>2, <1>3, <1>5 DEF ListTalk
  <2> QED BY <1>1, <1>3, <1>5, <2>1, <2>2 DEF ListTalk
<1>6. ASSUME RestTalk PROVE RestTalk'
  BY <1>2, <1>3, <1>6 DEF RestTalk
<1>7. ASSUME SendTalk PROVE SendTalk'
  <2>1. \A i \in 1..Len(Up') :
          /\ Up'[i].file = at' /\ Up'[i].id \in {"SEND", "DATA", "DONE"}
          /\ Up'[i].id = "SEND" => i = 1 /\ Svc'.pc \in {"wait", "closed"} /\ Len(Down') = 0
          /\ Up'[i].id = "DONE" => i = Len(Up') /\ pc' = "status"
    <3> SUFFICES ASSUME NEW i \in 1..Len(Up')
                 PROVE  /\ Up'[i].file = at' /\ Up'[i].id \in {"SEND", "DATA", "DONE"}
                        /\ Up'[i].id = "SEND" =>
                              i = 1 /\ Svc'.pc \in {"wait", "closed"} /\ Len(Down') = 0
                        /\ Up'[i].id = "DONE" => i = Len(Up') /\ pc' = "status"
      OBVIOUS
    <3>1. i \in 1..Len(Up) /\ Up'[i] = Up[i] /\ i <= Len(Up') /\ Svc' = Svc
      BY <1>2, <1>3
    <3>2. /\ Up[i].file = at /\ Up[i].id \in {"SEND", "DATA", "DONE"}
          /\ Up[i].id = "SEND" => i = 1 /\ Svc.pc \in {"wait", "closed"} /\ Len(Down) = 0
          /\ Up[i].id = "DONE" => i = Len(Up) /\ pc = "status"
      BY <1>7, <3>1 DEF SendTalk
    <3>3. (i = Len(Up) => i = Len(Up')) /\ (Len(Down) = 0 => Len(Down') = 0)
      BY <1>2, <3>1
    <3> QED BY <1>1, <3>1, <3>2, <3>3
  <2>2. \A i \in 1..Len(Down') :
          /\ Down'[i].file = at'
          /\ Down'[i].id = "OKAY" =>
                /\ i = Len(Down') /\ pc' = "status" /\ Len(Up') = 0
                /\ Svc'.pc \in {"wait", "closed"}
    BY <1>1, <1>2, <1>3, <1>7 DEF SendTalk
  <2>3. /\ Svc'.pc \in {"wait", "open", "send", "closed"}
        /\ Svc'.pc \in Working => Svc'.file = at'
        /\ Svc'.pc = "open" => Len(Down') = 0
        /\ Svc'.pc = "send" /\ Svc'.fd # None => Len(Down') <= 1
    BY <1>1, <1>2, <1>3, <1>7 DEF SendTalk, Working
  <2>4. Svc'.pc = "wait" /\ Len(Up') > 0 => Up'[1].id = "SEND"
    BY <1>2, <1>3, <1>7 DEF SendTalk
  <2> QED BY <2>1, <2>2, <2>3, <2>4 DEF SendTalk
<1>8. ASSUME RecvTalk PROVE RecvTalk'
  <2>1. /\ \A i \in 1..Len(Up') : Up'[i].file = at'
        /\ Svc'.pc \in {"wait", "recv", "closed"}
        /\ Svc'.pc = "recv" => Svc'.file = at'
    BY <1>1, <1>2, <1>3, <1>8 DEF RecvTalk
  <2>2. Len(Up') > 0 => /\ Len(Up') = 1 /\ Up'[1].id = "RECV" /\ Svc'.pc # "recv"
                        /\ Len(Down') = 0 /\ pos' = 0
    BY <1>1, <1>2, <1>3, <1>8 DEF RecvTalk
  <2>3. \A i \in 1..Len(Down') :
          /\ Down'[i].file = at'
          /\ Down'[i].id = "DATA" => pos' + i <= MaxChunks
          /\ Down'[i].id \in {"DONE", "FAIL"} =>
                i = Len(Down') /\ Svc'.pc # "recv" /\ Len(Up') = 0
    BY <1>1, <1>2, <1>3, <1>8 DEF RecvTalk
  <2> QED BY <2>1, <2>2, <2>3 DEF RecvTalk
<1> QED BY <1>4, <1>5, <1>6, <1>7, <1>8, SamePhase DEF Talk

LEMMA LinkDownTalk ==
  ASSUME Shape, Talk, NEW s \in Sessions, LinkDown(s)
  PROVE  Talk'
<1>1. Shortened(s) /\ s = cur /\ pc # "idle" /\ UNCHANGED <<client, svc, remote, fixed>>
  BY LinkDownShape DEF LinkDown
<1>2. cur' = cur /\ len' = len /\ Svc' = Svc
  BY <1>1 DEF client, fixed, Svc
<1>3. up[cur] \in Seq(Requests) /\ down[cur] \in Seq(Answers)
  BY <1>1, CurSession
<1>4. Cut(Up, Up')
  <2>1. PICK n \in 0..Len(up[s]) : up'[s] = SubSeq(up[s], 1, n)
    BY <1>1 DEF Shortened
  <2> QED BY <1>1, <1>2, <1>3, <2>1, PrefixFacts DEF Cut, Up
<1>5. Cut(Down, Down')
  <2>1. PICK n \in 0..Len(down[s]) : down'[s] = SubSeq(down[s], 1, n)
    BY <1>1 DEF Shortened
  <2> QED BY <1>1, <1>2, <1>3, <2>1, PrefixFacts DEF Cut, Down
<1>6. Broken(cur)'
  BY <1>1, <1>2 DEF Shortened, Broken
<1> QED BY <1>1, <1>2, <1>4, <1>5, <1>6, BrokenTalk

LEMMA ServiceEndsTalk ==
  ASSUME Shape, Talk, NEW s \in Sessions, s = cur, pc # "idle", ServiceEnds(s)
  PROVE  Talk'
<1>1. /\ up'[s] = <<>> /\ Turns(s, Closed)
      /\ UNCHANGED <<client, down, cut, inode, contested, fixed>>
  BY ServiceEndsFacts
<1>2. cur' = cur /\ len' = len /\ Svc' = Closed /\ Up' = <<>> /\ Down' = Down
  BY <1>1 DEF client, fixed, Svc, Turns, Up, Down
<1>3. Len(Up) \in Nat /\ Len(Down) \in Nat /\ Len(Up') = 0
  <2>1. Len(up[cur]) \in Nat /\ Len(down[cur]) \in Nat
    BY CurSession, EmptyFacts
  <2>2. Len(<<>>) = 0
    OBVIOUS
  <2> QED BY <1>2, <2>1, <2>2 DEF Up, Down
<1>4. Cut(Up, Up') /\ Cut(Down, Down')
  BY <1>2, <1>3 DEF Cut
<1>5. Broken(cur)'
  BY <1>1, <1>2, ClosedType DEF Broken, Svc
<1> QED BY <1>1, <1>2, <1>3, <1>4, <1>5, BrokenTalk

LEMMA Counts ==
  ASSUME NEW a \in Nat
  PROVE  /\ a > 0 /\ a # 1 => a > 1
         /\ a = 0 \/ a = 1 => a <= 1
OBVIOUS

LEMMA GrownAll ==
  ASSUME NEW q, NEW r, NEW m, Grown(q, r, m)
  PROVE  /\ Len(q) \in Nat /\ Len(r) = Len(q) + 1 /\ Len(r) > 0 /\ r[Len(r)] = m
         /\ \A i \in 1..Len(r) : (i \in 1..Len(q) /\ r[i] = q[i] /\ i # Len(r))
                                 \/ (i = Len(r) /\ r[i] = m)
BY DEF Grown

LEMMA ShrunkAll ==
  ASSUME NEW q, NEW r, Shrunk(q, r)
  PROVE  /\ Len(q) \in Nat /\ Len(q) > 0 /\ Len(r) = Len(q) - 1 /\ Len(r) \in Nat
         /\ 1 \in 1..Len(q) /\ Head(q) = q[1]
         /\ Len(q) > 1 => Len(r) > 0 /\ r[Len(r)] = q[Len(q)]
         /\ \A i \in 1..Len(r) : i + 1 \in 1..Len(q) /\ r[i] = q[i + 1] /\ i + 1 # 1
                                 /\ (i + 1 = Len(q) => i = Len(r))
<1>1. /\ Len(q) \in Nat /\ Len(q) > 0 /\ Len(r) = Len(q) - 1 /\ Len(r) \in Nat
      /\ 1 \in 1..Len(q) /\ Head(q) = q[1]
      /\ \A i \in 1..Len(r) : r[i] = q[i + 1]
  BY DEF Shrunk
<1>2. Len(q) > 1 => Len(r) > 0 /\ Len(r) \in 1..Len(r) /\ Len(r) + 1 = Len(q)
  BY <1>1
<1>3. \A i \in 1..Len(r) : i + 1 \in 1..Len(q) /\ i + 1 # 1 /\ (i + 1 = Len(q) => i = Len(r))
  BY <1>1
<1> QED BY <1>1, <1>2, <1>3

\* A step of the service in the client's own session.
LEMMA OwnStep ==
  ASSUME Shape, Talk, NEW s \in Sessions, s = cur, pc # "idle", svc[s].pc # "closed",
         UNCHANGED <<client, cut, fixed>>
  PROVE  /\ UNCHANGED <<pc, cmd, cur, at, pos, len>> /\ UNCHANGED <<client, len>>
         /\ Base' = Base /\ Asked' = Asked /\ StatEnd' = StatEnd
         /\ Base \in Int /\ Asked \in Int
         /\ Up' = up'[s] /\ Down' = down'[s] /\ Svc' = svc'[s]
         /\ Up = up[s] /\ Down = down[s] /\ Svc = svc[s]
         /\ Len(Up) \in Nat /\ Len(Down) \in Nat
         /\ Broken(cur) = cut[s] /\ ~ClientGone(s)
         /\ cut[s] => Broken(cur)' 
         /\ Svc'.pc # "closed" => Broken(cur)' = cut[s]
         /\ Svc'.pc = "closed" => Broken(cur)'
<1>1. UNCHANGED <<pc, cmd, cur, at, pos, len>> /\ UNCHANGED <<client, len>> /\ UNCHANGED cut
  BY DEF client, fixed
<1>2. Base' = Base /\ Asked' = Asked /\ StatEnd' = StatEnd /\ Base \in Int /\ Asked \in Int
  BY <1>1, TalkTypes DEF Base, Asked, StatEnd
<1>3. /\ Up' = up'[s] /\ Down' = down'[s] /\ Svc' = svc'[s]
      /\ Up = up[s] /\ Down = down[s] /\ Svc = svc[s]
  BY <1>1 DEF Up, Down, Svc
<1>4. Len(Up) \in Nat /\ Len(Down) \in Nat
  BY <1>3, CurSession, EmptyFacts
<1>5. Broken(cur) = cut[s] /\ ~ClientGone(s)
  BY CurSession DEF Broken
<1>6. /\ cut[s] => Broken(cur)'
      /\ Svc'.pc = "closed" => Broken(cur)'
  BY <1>1, <1>3 DEF Broken
<1>7. Svc'.pc # "closed" => Broken(cur)' = cut[s]
  BY <1>1, <1>3, CurSession DEF Broken
<1> QED BY <1>1, <1>2, <1>3, <1>4, <1>5, <1>6, <1>7

\* What a service reads tells the phase.
LEMMA PhaseOfRequest ==
  ASSUME Shape, Talk, pc # "idle", Svc.pc = "wait", Len(Up) > 0
  PROVE  /\ Up[1].id = "STAT" => InStat /\ StatTalk
         /\ Up[1].id = "LIST" => InList /\ ListTalk
         /\ Up[1].id = "SEND" => InSend /\ SendTalk
         /\ Up[1].id = "RECV" => InRecv /\ RecvTalk
         /\ Up[1].id # "QUIT"
<1>1. Len(Up) \in Nat
  BY CurSession, EmptyFacts DEF Up
<1>2. 1 \in 1..Len(Up)
  BY <1>1
<1>3. \/ InStat /\ StatTalk /\ Up[1].id = "STAT"
      \/ InList /\ ListTalk /\ Up[1].id = "LIST"
      \/ InSend /\ SendTalk /\ Up[1].id = "SEND"
      \/ InRecv /\ RecvTalk /\ Up[1].id = "RECV"
  <2>1. CASE InStat
    BY <1>2, <2>1 DEF Talk, StatTalk
  <2>2. CASE InList
    BY <1>2, <2>2 DEF Talk, ListTalk
  <2>3. CASE InRest
    BY <1>1, <2>3 DEF Talk, RestTalk
  <2>4. CASE InSend
    BY <1>2, <2>4 DEF Talk, SendTalk
  <2>5. CASE InRecv
    BY <1>2, <2>5 DEF Talk, RecvTalk
  <2> QED BY <2>1, <2>2, <2>3, <2>4, <2>5
          DEF Shape, ClientTypes, Places, InStat, InList, InRest, InSend, InRecv
<1> QED BY <1>3

\* What a service is at tells the phase.
LEMMA PhaseOfWork ==
  ASSUME Shape, Talk, pc # "idle"
  PROVE  /\ Svc.pc = "list" => InList /\ ListTalk
         /\ Svc.pc \in {"open", "send"} => InSend /\ SendTalk
         /\ Svc.pc = "recv" => InRecv /\ RecvTalk
<1>1. \/ (InStat \/ InRest) /\ Svc.pc \in {"wait", "closed"}
      \/ InList /\ ListTalk /\ Svc.pc \in {"wait", "list", "closed"}
      \/ InSend /\ SendTalk /\ Svc.pc \in {"wait", "open", "send", "closed"}
      \/ InRecv /\ RecvTalk /\ Svc.pc \in {"wait", "recv", "closed"}
  BY DEF Talk, StatTalk, ListTalk, RestTalk, SendTalk, RecvTalk, Shape, ClientTypes, Places,
         InStat, InList, InRest, InSend, InRecv
<1> QED BY <1>1

\* One phase is all that there is to show.
LEMMA PhaseStep ==
  ASSUME Shape, Talk, UNCHANGED <<client, len>>,
         \/ InStat /\ StatTalk'
         \/ InList /\ ListTalk'
         \/ InSend /\ SendTalk'
         \/ InRecv /\ RecvTalk'
  PROVE  Talk'
<1>1. /\ InStat => StatTalk'
      /\ InList => ListTalk'
      /\ InRest => RestTalk'
      /\ InSend => SendTalk'
      /\ InRecv => RecvTalk'
  BY DEF InStat, InList, InRest, InSend, InRecv
<1> QED BY <1>1, SamePhase

LEMMA do_statTalk ==
  ASSUME Shape, Talk, NEW s \in Sessions, s = cur, pc # "idle", do_stat(s)
  PROVE  Talk'
<1> DEFINE f == Head(up[s]).file
           m == Msg("STAT", f, StatOf(f))
<1>1. /\ Took(s) /\ Head(up[s]).id = "STAT" /\ f \in Files /\ Told(s, <<m>>)
      /\ Turns(s, Waiting) \/ ((cut[s] \/ ClientGone(s)) /\ Turns(s, Closed))
      /\ svc[s].pc = "wait" /\ UNCHANGED <<client, cut, remote, fixed>>
      /\ StatOf(f) \in 0..3
  BY do_statFacts
<1>2. m \in Answers /\ m.id = "STAT" /\ m.file = f
  <2>1. StatOf(f) \in Nat
    BY <1>1
  <2> QED BY <1>1, <2>1, AnswerType, MsgFields
<1> HIDE DEF m
<1>3. /\ UNCHANGED <<pc, cmd, cur, at, pos, len>> /\ UNCHANGED <<client, len>>
      /\ Base' = Base /\ Asked' = Asked /\ StatEnd' = StatEnd
      /\ Base \in Int /\ Asked \in Int
      /\ Up' = up'[s] /\ Down' = down'[s] /\ Svc' = svc'[s]
      /\ Up = up[s] /\ Down = down[s] /\ Svc = svc[s]
      /\ Len(Up) \in Nat /\ Len(Down) \in Nat
      /\ Broken(cur) = cut[s] /\ ~ClientGone(s)
      /\ cut[s] => Broken(cur)'
  BY <1>1, OwnStep
<1>4. Shrunk(Up, Up')
  BY <1>1, <1>3, TookUp
<1>5. (cut[s] /\ Down' = Down) \/ (~cut[s] /\ Grown(Down, Down', m))
  BY <1>1, <1>2, <1>3, ToldDown
<1>6. Svc'.pc \in {"wait", "closed"}
  BY <1>1, <1>3, ClosedType DEF Turns
<1>7. Len(Up) > 0 /\ Up[1].id = "STAT" /\ Up[1].file = f
  BY <1>1, <1>3, <1>4, ShrunkAll
<1>8. InStat /\ StatTalk
  BY <1>1, <1>3, <1>7, PhaseOfRequest
<1> HIDE DEF f
<1>9. /\ Len(Up') = Len(Up) - 1 /\ Len(Up') \in Nat
      /\ \A i \in 1..Len(Up') : i + 1 \in 1..Len(Up) /\ Up'[i] = Up[i + 1]
  BY <1>4, ShrunkAll
<1>10. /\ \A i \in 1..Len(Up') : Up'[i].id = "STAT"
       /\ at' <= StatEnd'
  BY <1>3, <1>8, <1>9 DEF StatTalk
<1>11. /\ Base' = Base /\ Asked' = Asked /\ Base \in Int /\ Asked \in Int
       /\ Len(Up) \in Nat /\ Len(Down) \in Nat
  BY <1>3
<1>12. CASE cut[s] /\ Down' = Down
  <2>1. Base' + Len(Down') + Len(Up') <= Asked'
    <3>1. Base + Len(Down) + Len(Up) <= Asked
      BY <1>8 DEF StatTalk
    <3> QED BY <1>9, <1>12, <1>11, <3>1
  <2>2. \A i \in 1..Len(Down') : Down'[i].id = "STAT" /\ Down'[i].file = Base' + i
    BY <1>3, <1>8, <1>12 DEF StatTalk
  <2>3. StatTalk'
    BY <1>3, <1>6, <1>10, <1>12, <2>1, <2>2 DEF StatTalk
  <2> QED BY <1>3, <1>8, <2>3, PhaseStep
<1>13. CASE ~cut[s] /\ Grown(Down, Down', m)
  <2>1. Len(Down') = Len(Down) + 1
        /\ \A i \in 1..Len(Down') : (i \in 1..Len(Down) /\ Down'[i] = Down[i])
                                    \/ (i = Len(Down') /\ Down'[i] = m)
    BY <1>13, GrownAll
  <2>2. /\ Base + Len(Down) + Len(Up) = Asked
        /\ \A i \in 1..Len(Up) : Up[i].file = Base + Len(Down) + i
        /\ \A i \in 1..Len(Down) : Down[i].id = "STAT" /\ Down[i].file = Base + i
    BY <1>3, <1>8, <1>13 DEF StatTalk
  <2>3. f = Base + Len(Down')
    <3>1. 1 \in 1..Len(Up)
      BY <1>3, <1>7
    <3>2. Up[1].file = Base + Len(Down) + 1
      BY <2>2, <3>1
    <3>3. Base + Len(Down) + 1 = Base + (Len(Down) + 1)
      BY <1>11, Shifts
    <3> QED BY <1>3, <1>7, <2>1, <3>2, <3>3
  <2>4. \A i \in 1..Len(Down') : Down'[i].id = "STAT" /\ Down'[i].file = Base' + i
    <3> SUFFICES ASSUME NEW i \in 1..Len(Down')
                 PROVE  Down'[i].id = "STAT" /\ Down'[i].file = Base + i
      BY <1>11
    <3>1. CASE i \in 1..Len(Down) /\ Down'[i] = Down[i]
      BY <2>2, <3>1
    <3>2. CASE i = Len(Down') /\ Down'[i] = m
      BY <1>2, <2>3, <3>2
    <3> QED BY <2>1, <3>1, <3>2
  <2>5. Base' + Len(Down') + Len(Up') = Asked' /\ Base' + Len(Down') + Len(Up') <= Asked'
    <3>1. Base + Len(Down) + Len(Up) = Asked
      BY <2>2
    <3>2. Len(Up') = Len(Up) - 1 /\ Len(Down') = Len(Down) + 1
      BY <1>9, <2>1
    <3> QED BY ONLY <1>11, <3>1, <3>2
  <2>6. \A i \in 1..Len(Up') : Up'[i].file = Base' + Len(Down') + i
    <3> SUFFICES ASSUME NEW i \in 1..Len(Up')
                 PROVE  Up'[i].file = Base + Len(Down') + i
      BY <1>3
    <3>1. Up'[i].file = Base + Len(Down) + (i + 1) /\ i \in Nat
      BY <1>9, <2>2
    <3>2. Base + Len(Down) + (i + 1) = Base + Len(Down') + i
      BY <1>11, <2>1, <3>1
    <3> QED BY <3>1, <3>2
  <2>7. StatTalk'
    BY <1>6, <1>10, <2>4, <2>5, <2>6 DEF StatTalk
  <2> QED BY <1>3, <1>8, <2>7, PhaseStep
<1> QED BY <1>5, <1>12, <1>13

LEMMA ListBeginTalk ==
  ASSUME Shape, Talk, NEW s \in Sessions, s = cur, pc # "idle", ListBegin(s)
  PROVE  Talk'
<1>1. /\ Took(s) /\ Head(up[s]).id = "LIST"
      /\ \E f \in {1, NumFiles + 1} : Turns(s, Serving("list", f, None))
      /\ svc[s].pc = "wait" /\ UNCHANGED <<client, down, cut, remote, fixed>>
  BY ListBeginFacts
<1>2. /\ at' = at /\ UNCHANGED <<client, len>>
      /\ Up' = up'[s] /\ Down' = down'[s] /\ Svc' = svc'[s]
      /\ Up = up[s] /\ Down = down[s] /\ Svc = svc[s]
  BY <1>1, OwnStep
<1>3. Shrunk(Up, Up') /\ Down' = Down
  BY <1>1, <1>2, TookUp
<1>4. Svc'.pc = "list"
  BY <1>1, <1>2 DEF Turns, Serving
<1>5. Len(Up) > 0 /\ Up[1].id = "LIST"
  BY <1>1, <1>2, <1>3, ShrunkAll
<1>6. InList /\ ListTalk
  BY <1>1, <1>2, <1>5, PhaseOfRequest
<1>7. Len(Down) = 0 /\ Len(Up) = 1 /\ at = 1
  BY <1>5, <1>6 DEF ListTalk
<1>8. Len(Up') = 0 /\ Len(Down') = 0
  BY <1>3, <1>7, ShrunkAll
<1>9. 1..Len(Down') = {}
  BY <1>8
<1>10. ListTalk'
  BY <1>2, <1>4, <1>7, <1>8, <1>9 DEF ListTalk
<1> QED BY <1>2, <1>6, <1>10, PhaseStep

LEMMA ListEntryTalk ==
  ASSUME Shape, Talk, NEW s \in Sessions, s = cur, pc # "idle", ListEntry(s)
  PROVE  Talk'
<1>1. svc[s].pc = "list" /\ UNCHANGED <<client, up, cut, remote, fixed>>
  BY ListEntryFacts
<1>2. /\ at' = at /\ UNCHANGED <<client, len>>
      /\ Up' = up'[s] /\ Down' = down'[s] /\ Svc' = svc'[s]
      /\ Up = up[s] /\ Down = down[s] /\ Svc = svc[s]
      /\ Len(Up) \in Nat /\ Len(Down) \in Nat
      /\ cut[s] => Broken(cur)'
  BY <1>1, OwnStep
<1>3. InList /\ ListTalk
  BY <1>1, <1>2, PhaseOfWork
<1>4. /\ Up' = Up /\ Len(Up) = 0 /\ at = 1
      /\ \A i \in 1..Len(Down) : Down[i].id = "DENT"
  BY <1>1, <1>2, <1>3 DEF ListTalk
<1>5. CASE Turns(s, [svc[s] EXCEPT !.file = svc[s].file + 1]) /\ svc[s].file \in Files
           /\ (UNCHANGED down \/ Told(s, <<Msg("DENT", svc[s].file, 0)>>))
  <2> DEFINE m == Msg("DENT", svc[s].file, 0)
  <2>1. m \in Answers /\ m.id = "DENT"
    BY <1>5, AnswerType, MsgFields
  <2> HIDE DEF m
  <2>2. Told(s, <<m>>) => Down' = Down \/ Grown(Down, Down', m)
    BY <1>2, <2>1, ToldDown
  <2>3. Down' = Down \/ Grown(Down, Down', m)
    BY <1>2, <1>5, <2>2 DEF m
  <2>4. \A i \in 1..Len(Down') : Down'[i].id = "DENT"
    BY <1>4, <2>1, <2>3, GrownAll
  <2>5. Svc'.pc = "list"
    BY <1>1, <1>2, <1>5, SessionTypes DEF Turns, Services
  <2>6. ListTalk'
    BY <1>2, <1>4, <2>4, <2>5 DEF ListTalk
  <2> QED BY <1>2, <1>3, <2>6, PhaseStep
<1>6. CASE Turns(s, Waiting) /\ Told(s, <<Msg("DONE", 0, 0)>>)
  <2> DEFINE m == Msg("DONE", 0, 0)
  <2>1. m \in Answers /\ m.id = "DONE"
    BY AnswerType, MsgFields
  <2> HIDE DEF m
  <2>2. (cut[s] /\ Down' = Down) \/ Grown(Down, Down', m)
    BY <1>2, <1>6, <2>1, ToldDown DEF m
  <2>3. Svc'.pc = "wait"
    BY <1>2, <1>6, ClosedType DEF Turns
  <2>4. CASE cut[s] /\ Down' = Down
    <3>1. ListTalk'
      BY <1>2, <1>4, <2>3, <2>4 DEF ListTalk
    <3> QED BY <1>2, <1>3, <3>1, PhaseStep
  <2>5. CASE Grown(Down, Down', m)
    <3>1. /\ Len(Down') > 0 /\ Down'[Len(Down')] = m
          /\ \A i \in 1..Len(Down') : Down'[i].id \in {"DENT", "DONE"}
                                      /\ (Down'[i].id = "DONE" => i = Len(Down'))
      BY <1>4, <2>1, <2>5, GrownAll
    <3>2. Finished({"DONE"})'
      BY <2>1, <3>1 DEF Finished
    <3>3. ListTalk'
      BY <1>2, <1>4, <2>3, <3>1, <3>2 DEF ListTalk
    <3> QED BY <1>2, <1>3, <3>3, PhaseStep
  <2> QED BY <2>2, <2>4, <2>5
<1> QED BY <1>5, <1>6, ListEntryFacts

LEMMA do_sendTalk ==
  ASSUME Shape, Talk, NEW s \in Sessions, s = cur, pc # "idle", do_send(s)
  PROVE  Talk'
<1> DEFINE f == Head(up[s]).file
<1>0. f = Head(up[s]).file
  OBVIOUS
<1> HIDE DEF f
<1>1. /\ Took(s) /\ Head(up[s]).id = "SEND" /\ f \in Files
      /\ svc[s].pc = "wait" /\ UNCHANGED <<client, cut, fixed, inode>>
      /\ \/ Told(s, <<Msg("FAIL", f, 0)>>) /\ Turns(s, Closed)
         \/ Turns(s, Serving("open", f, None)) /\ UNCHANGED down
  BY <1>0, do_sendFacts
<1>2. /\ at' = at /\ pc' = pc /\ UNCHANGED <<client, len>>
      /\ Up' = up'[s] /\ Down' = down'[s] /\ Svc' = svc'[s]
      /\ Up = up[s] /\ Down = down[s] /\ Svc = svc[s]
      /\ Len(Up) \in Nat /\ Len(Down) \in Nat
      /\ Broken(cur) = cut[s]
      /\ Svc'.pc # "closed" => Broken(cur)' = cut[s]
      /\ Svc'.pc = "closed" => Broken(cur)'
  BY <1>1, OwnStep
<1>3. Shrunk(Up, Up')
  BY <1>1, <1>2, TookUp
<1>4. Len(Up) > 0 /\ Up[1].id = "SEND" /\ Up[1].file = f /\ 1 \in 1..Len(Up)
  BY <1>0, <1>1, <1>2, <1>3, ShrunkAll
<1>5. InSend /\ SendTalk
  BY <1>1, <1>2, <1>4, PhaseOfRequest
<1>6. Len(Down) = 0 /\ f = at
  BY <1>4, <1>5 DEF SendTalk
<1>7. \A i \in 1..Len(Up') : i + 1 \in 1..Len(Up) /\ Up'[i] = Up[i + 1] /\ i + 1 # 1
                            /\ (i + 1 = Len(Up) => i = Len(Up'))
  BY <1>3, ShrunkAll
<1>8. \A i \in 1..Len(Up') :
        /\ Up'[i].file = at' /\ Up'[i].id \in {"DATA", "DONE"}
        /\ Up'[i].id = "DONE" => i = Len(Up') /\ pc' = "status"
  BY <1>2, <1>5, <1>7 DEF SendTalk
<1>9. CASE Told(s, <<Msg("FAIL", f, 0)>>) /\ Turns(s, Closed)
  <2> DEFINE m == Msg("FAIL", f, 0)
  <2>1. m \in Answers /\ m.id = "FAIL" /\ m.file = f
    BY <1>1, AnswerType, MsgFields
  <2> HIDE DEF m
  <2>2. Down' = Down \/ Grown(Down, Down', m)
    BY <1>2, <1>9, <2>1, ToldDown DEF m
  <2>3. \A i \in 1..Len(Down') : Down'[i] = m
    <3>1. 1..Len(Down) = {}
      BY <1>6
    <3> QED BY <2>2, <3>1, GrownAll
  <2>4. Svc'.pc = "closed"
    BY <1>2, <1>9, ClosedType DEF Turns
  <2>5. SendTalk'
    BY <1>2, <1>6, <1>8, <2>1, <2>3, <2>4 DEF SendTalk, Working
  <2> QED BY <1>2, <1>5, <2>5, PhaseStep
<1>10. CASE Turns(s, Serving("open", f, None)) /\ UNCHANGED down
  <2>1. Svc'.pc = "open" /\ Svc'.file = f /\ Down' = Down
    BY <1>2, <1>10 DEF Turns, Serving
  <2>2. ~Broken(cur)' /\ pc = "status" => Len(Up') > 0 /\ Up'[Len(Up')].id = "DONE"
    <3> SUFFICES ASSUME ~Broken(cur)', pc = "status"
                 PROVE  Len(Up') > 0 /\ Up'[Len(Up')].id = "DONE"
      OBVIOUS
    <3>1. Up[Len(Up)].id = "DONE"
      BY <1>2, <1>4, <1>5, <2>1 DEF SendTalk
    <3>2. Len(Up) # 1
      BY <1>4, <3>1
    <3>3. Len(Up) \in Nat /\ Len(Up) > 0
      BY <1>2, <1>4
    <3>4. Len(Up) > 1
      BY ONLY <3>2, <3>3, Counts
    <3> QED BY <1>3, <3>1, <3>4, ShrunkAll
  <2>3. 1..Len(Down') = {} /\ Len(Down') = 0
    BY <1>6, <2>1
  <2>4. SendTalk'
    BY <1>2, <1>6, <1>8, <2>1, <2>2, <2>3 DEF SendTalk, Working
  <2> QED BY <1>2, <1>5, <2>4, PhaseStep
<1> QED BY <1>1, <1>9, <1>10

LEMMA OpenTalk ==
  ASSUME Shape, Talk, NEW s \in Sessions, s = cur, pc # "idle", Open(s)
  PROVE  Talk'
<1> DEFINE f == svc[s].file
           m == Msg("FAIL", f, 0)
<1>1. /\ svc[s].pc = "open" /\ f \in Files
      /\ UNCHANGED <<client, up, cut, fixed, contested>>
      /\ \/ /\ Told(s, <<m>>) \/ Told(s, <<m, m>>)
            /\ \/ Turns(s, Serving("send", f, None))
               \/ (cut[s] \/ ClientGone(s)) /\ Turns(s, Closed)
         \/ /\ UNCHANGED down \/ Told(s, <<m>>)
            /\ path'[f] # None
            /\ Turns(s, Serving("send", f, path'[f]))
  BY OpenFacts
<1>2. m \in Answers /\ m.id = "FAIL" /\ m.file = f
  BY <1>1, AnswerType, MsgFields
<1> HIDE DEF m
<1>3. /\ at' = at /\ pc' = pc /\ UNCHANGED <<client, len>>
      /\ Up' = up'[s] /\ Down' = down'[s] /\ Svc' = svc'[s]
      /\ Up = up[s] /\ Down = down[s] /\ Svc = svc[s]
      /\ Len(Up) \in Nat /\ Len(Down) \in Nat
      /\ Broken(cur) = cut[s] /\ ~ClientGone(s)
      /\ cut[s] => Broken(cur)'
      /\ Svc'.pc # "closed" => Broken(cur)' = cut[s]
      /\ Svc'.pc = "closed" => Broken(cur)'
  BY <1>1, OwnStep
<1>4. InSend /\ SendTalk
  BY <1>1, <1>3, PhaseOfWork
<1>5. Len(Down) = 0 /\ f = at /\ Up' = Up
  BY <1>1, <1>3, <1>4 DEF SendTalk, Working
<1> HIDE DEF f
<1>6. /\ \A i \in 1..Len(Up) :
           /\ Up[i].file = at /\ Up[i].id \in {"DATA", "DONE"}
           /\ Up[i].id = "DONE" => i = Len(Up) /\ pc = "status"
      /\ ~Broken(cur) /\ pc = "status" => Len(Up) > 0 /\ Up[Len(Up)].id = "DONE"
  BY <1>1, <1>3, <1>4 DEF SendTalk
<1>7. Told(s, <<m>>) => (cut[s] /\ Down' = Down) \/ (Len(Down') = 1 /\ Down'[1] = m)
  <2>1. SUFFICES ASSUME Told(s, <<m>>) PROVE (cut[s] /\ Down' = Down) \/ (Len(Down') = 1 /\ Down'[1] = m)
    OBVIOUS
  <2>2. (cut[s] /\ Down' = Down) \/ Grown(Down, Down', m)
    BY <1>2, <1>3, <2>1, ToldDown
  <2> QED BY <1>5, <2>2 DEF Grown
<1>8. Told(s, <<m, m>>) =>
        (cut[s] /\ Down' = Down) \/ (Len(Down') = 2 /\ Down'[1] = m /\ Down'[2] = m)
  <2>1. SUFFICES ASSUME Told(s, <<m, m>>)
                 PROVE (cut[s] /\ Down' = Down) \/ (Len(Down') = 2 /\ Down'[1] = m /\ Down'[2] = m)
    OBVIOUS
  <2>2. down[s] \in Seq(Answers) /\ Len(down[s]) = 0
    BY <1>3, <1>5, CurSession
  <2>3. down'[s] = down[s] \o <<m, m>> =>
          Len(down'[s]) = 2 /\ down'[s][1] = m /\ down'[s][2] = m
    <3>1. SUFFICES ASSUME down'[s] = down[s] \o <<m, m>>
                   PROVE  Len(down'[s]) = 2 /\ down'[s][1] = m /\ down'[s][2] = m
      OBVIOUS
    <3>2. /\ Len(down'[s]) = Len(down[s]) + 2
          /\ down'[s][Len(down[s]) + 1] = m /\ down'[s][Len(down[s]) + 2] = m
      BY <1>2, <2>2, <3>1, JoinTwo
    <3> QED BY <2>2, <3>2
  <2> QED BY <1>3, <2>1, <2>3 DEF Told
<1>9. /\ \A i \in 1..Len(Down') : Down'[i] = m
      /\ Len(Down') \in 0..2
  <2>1. Len(Down') = 0 \/ (Len(Down') = 1 /\ Down'[1] = m)
        \/ (Len(Down') = 2 /\ Down'[1] = m /\ Down'[2] = m)
    BY <1>1, <1>3, <1>5, <1>7, <1>8
  <2> QED BY <2>1
<1>10. CASE /\ Told(s, <<m>>) \/ Told(s, <<m, m>>)
            /\ \/ Turns(s, Serving("send", f, None))
               \/ (cut[s] \/ ClientGone(s)) /\ Turns(s, Closed)
  <2>1. (Svc'.pc = "send" /\ Svc'.file = f /\ Svc'.fd = None) \/ Svc'.pc = "closed"
    BY <1>3, <1>10, ClosedType DEF Turns, Serving
  <2>2. ~Broken(cur)' => Len(Down') > 0
    BY <1>3, <1>7, <1>8, <1>10
  <2>3. SendTalk'
    BY <1>2, <1>3, <1>5, <1>6, <1>9, <2>1, <2>2 DEF SendTalk, Working
  <2> QED BY <1>3, <1>4, <2>3, PhaseStep
<1>11. CASE /\ UNCHANGED down \/ Told(s, <<m>>)
            /\ path'[f] # None /\ Turns(s, Serving("send", f, path'[f]))
  <2>1. Svc'.pc = "send" /\ Svc'.file = f /\ Svc'.fd # None
    BY <1>3, <1>11 DEF Turns, Serving
  <2>2. Len(Down') <= 1
    <3>1. Down' = Down \/ Len(Down') = 1
      BY <1>3, <1>7, <1>11
    <3>2. Len(Down') = 0 \/ Len(Down') = 1
      BY <1>5, <3>1
    <3>3. Len(Down') \in Nat
      BY <3>2
    <3> QED BY ONLY <3>2, <3>3, Counts
  <2>3. SendTalk'
    BY <1>2, <1>3, <1>5, <1>6, <1>9, <2>1, <2>2 DEF SendTalk, Working
  <2> QED BY <1>3, <1>4, <2>3, PhaseStep
<1> QED BY <1>1, <1>10, <1>11

\* What is left of the client's data when a packet of it has been read.
LEMMA PacketRead ==
  ASSUME Shape, Talk, InSend, SendTalk, Svc.pc = "send", Shrunk(Up, Up'), Up[1].id = "DATA",
         UNCHANGED <<pc, at>>, Len(Up) \in Nat
  PROVE  /\ \A i \in 1..Len(Up') :
              /\ Up'[i].file = at' /\ Up'[i].id \in {"DATA", "DONE"}
              /\ Up'[i].id = "DONE" => i = Len(Up') /\ pc' = "status"
         /\ ~Broken(cur) /\ pc = "status" => Len(Up') > 0 /\ Up'[Len(Up')].id = "DONE"
<1>1. \A i \in 1..Len(Up') : i + 1 \in 1..Len(Up) /\ Up'[i] = Up[i + 1] /\ i + 1 # 1
                            /\ (i + 1 = Len(Up) => i = Len(Up'))
  BY ShrunkAll
<1>2. \A i \in 1..Len(Up') :
        /\ Up'[i].file = at' /\ Up'[i].id \in {"DATA", "DONE"}
        /\ Up'[i].id = "DONE" => i = Len(Up') /\ pc' = "status"
  BY <1>1 DEF SendTalk
<1>3. ~Broken(cur) /\ pc = "status" => Len(Up') > 0 /\ Up'[Len(Up')].id = "DONE"
  <2> SUFFICES ASSUME ~Broken(cur), pc = "status"
               PROVE  Len(Up') > 0 /\ Up'[Len(Up')].id = "DONE"
    OBVIOUS
  <2>1. Up[Len(Up)].id = "DONE" /\ Len(Up) > 0
    BY DEF SendTalk
  <2>2. Len(Up) # 1
    BY <2>1
  <2>3. Len(Up) > 1
    BY <2>1, <2>2
  <2> QED BY <2>1, <2>3, ShrunkAll
<1> QED BY <1>2, <1>3

LEMMA SendPacketTalk ==
  ASSUME Shape, Talk, NEW s \in Sessions, s = cur, pc # "idle", SendPacket(s)
  PROVE  Talk'
<1> DEFINE f == svc[s].file
           d == svc[s].fd
           n == Head(up[s]).n
           m == Msg("FAIL", f, 0)
<1>0. f = svc[s].file /\ d = svc[s].fd /\ n = Head(up[s]).n /\ m = Msg("FAIL", f, 0)
  OBVIOUS
<1> HIDE DEF f, d, n, m
<1>1. /\ Took(s) /\ Head(up[s]).id = "DATA" /\ svc[s].pc = "send" /\ f \in Files
      /\ UNCHANGED <<client, cut, contested, fixed>>
      /\ \/ d = None /\ UNCHANGED <<svc, down>>
         \/ d # None /\ UNCHANGED down /\ Turns(s, [svc[s] EXCEPT !.n = n])
         \/ /\ d # None /\ Told(s, <<m>>)
            /\ \/ Turns(s, [svc[s] EXCEPT !.fd = None])
               \/ (cut[s] \/ ClientGone(s)) /\ Turns(s, Closed)
  BY <1>0, SendPacketFacts
<1>2. m \in Answers /\ m.id = "FAIL" /\ m.file = f
  BY <1>0, <1>1, AnswerType, MsgFields
<1>3. /\ at' = at /\ pc' = pc /\ UNCHANGED <<client, len>>
      /\ Up' = up'[s] /\ Down' = down'[s] /\ Svc' = svc'[s]
      /\ Up = up[s] /\ Down = down[s] /\ Svc = svc[s]
      /\ Len(Up) \in Nat /\ Len(Down) \in Nat
      /\ Broken(cur) = cut[s] /\ ~ClientGone(s)
      /\ cut[s] => Broken(cur)'
      /\ Svc'.pc # "closed" => Broken(cur)' = cut[s]
      /\ Svc'.pc = "closed" => Broken(cur)'
  BY <1>1, OwnStep
<1>4. InSend /\ SendTalk /\ f = at
  <2>1. InSend /\ SendTalk
    BY <1>1, <1>3, PhaseOfWork
  <2> QED BY <1>0, <1>1, <1>3, <2>1 DEF SendTalk, Working
<1>5. Shrunk(Up, Up') /\ Up[1].id = "DATA"
  BY <1>1, <1>3, TookUp, ShrunkAll
<1>6. /\ \A i \in 1..Len(Up') :
           /\ Up'[i].file = at' /\ Up'[i].id \in {"DATA", "DONE"}
           /\ Up'[i].id = "DONE" => i = Len(Up') /\ pc' = "status"
      /\ ~Broken(cur) /\ pc = "status" => Len(Up') > 0 /\ Up'[Len(Up')].id = "DONE"
  BY <1>1, <1>3, <1>4, <1>5, PacketRead
<1>7. /\ \A i \in 1..Len(Down) : Down[i].file = at /\ Down[i].id # "OKAY"
      /\ d # None => Len(Down) <= 1
      /\ ~Broken(cur) /\ d = None => Len(Down) > 0
  BY <1>0, <1>1, <1>3, <1>4 DEF SendTalk
<1>8. svc[s] \in Services
  BY SessionTypes
<1>9. CASE d = None /\ UNCHANGED <<svc, down>>
  <2>1. Svc' = Svc /\ Down' = Down
    BY <1>3, <1>9
  <2>2. Svc.pc = "send" /\ Svc.file = at /\ Svc.fd = None
    BY <1>0, <1>1, <1>3, <1>4, <1>9
  <2>3. SendTalk'
    BY <1>3, <1>6, <1>7, <1>9, <2>1, <2>2 DEF SendTalk, Working
  <2> QED BY <1>3, <1>4, <2>3, PhaseStep
<1>10. CASE d # None /\ UNCHANGED down /\ Turns(s, [svc[s] EXCEPT !.n = n])
  <2>1. Down' = Down
    BY <1>3, <1>10
  <2>2. Svc'.pc = "send" /\ Svc'.file = at /\ Svc'.fd # None
    BY <1>0, <1>1, <1>3, <1>4, <1>8, <1>10 DEF Turns, Services
  <2>3. SendTalk'
    BY <1>3, <1>6, <1>7, <1>10, <2>1, <2>2 DEF SendTalk, Working
  <2> QED BY <1>3, <1>4, <2>3, PhaseStep
<1>11. CASE /\ d # None /\ Told(s, <<m>>)
            /\ \/ Turns(s, [svc[s] EXCEPT !.fd = None])
               \/ (cut[s] \/ ClientGone(s)) /\ Turns(s, Closed)
  <2>1. (cut[s] /\ Down' = Down) \/ Grown(Down, Down', m)
    BY <1>2, <1>3, <1>11, ToldDown
  <2>2. (Svc'.pc = "send" /\ Svc'.file = at /\ Svc'.fd = None) \/ Svc'.pc = "closed"
    BY <1>0, <1>1, <1>3, <1>4, <1>8, <1>11, ClosedType DEF Turns, Services
  <2>3. \A i \in 1..Len(Down') : Down'[i].file = at /\ Down'[i].id # "OKAY"
    BY <1>2, <1>4, <1>7, <2>1, GrownAll
  <2>4. ~Broken(cur)' => Len(Down') > 0
    BY <1>3, <2>1, GrownAll
  <2>5. SendTalk'
    BY <1>3, <1>6, <2>2, <2>3, <2>4 DEF SendTalk, Working
  <2> QED BY <1>3, <1>4, <2>5, PhaseStep
<1> QED BY <1>1, <1>9, <1>10, <1>11

LEMMA SendEndTalk ==
  ASSUME Shape, Talk, NEW s \in Sessions, s = cur, pc # "idle", SendEnd(s)
  PROVE  Talk'
<1> DEFINE f == svc[s].file
           m == Msg("OKAY", f, Head(up[s]).n)
<1>0. f = svc[s].file /\ m = Msg("OKAY", f, Head(up[s]).n)
  OBVIOUS
<1> HIDE DEF f, m
<1>1. /\ Took(s) /\ Head(up[s]).id = "DONE" /\ svc[s].pc = "send" /\ f \in Files
      /\ UNCHANGED <<client, cut, path, contested, fixed>>
      /\ \/ svc[s].fd = None /\ Turns(s, Waiting) /\ UNCHANGED down
         \/ /\ svc[s].fd # None /\ Told(s, <<m>>)
            /\ Turns(s, Waiting) \/ ((cut[s] \/ ClientGone(s)) /\ Turns(s, Closed))
  BY <1>0, SendEndFacts
<1>2. m \in Answers /\ m.id = "OKAY" /\ m.file = f
  <2>1. Head(up[s]).n \in Nat
    BY <1>1, HeadFacts DEF Took
  <2> QED BY <1>0, <1>1, <2>1, AnswerType, MsgFields
<1>3. /\ at' = at /\ pc' = pc /\ UNCHANGED <<client, len>>
      /\ Up' = up'[s] /\ Down' = down'[s] /\ Svc' = svc'[s]
      /\ Up = up[s] /\ Down = down[s] /\ Svc = svc[s]
      /\ Len(Up) \in Nat /\ Len(Down) \in Nat
      /\ Broken(cur) = cut[s] /\ ~ClientGone(s)
      /\ cut[s] => Broken(cur)'
      /\ Svc'.pc # "closed" => Broken(cur)' = cut[s]
      /\ Svc'.pc = "closed" => Broken(cur)'
  BY <1>1, OwnStep
<1>4. InSend /\ SendTalk /\ f = at
  <2>1. InSend /\ SendTalk
    BY <1>1, <1>3, PhaseOfWork
  <2> QED BY <1>0, <1>1, <1>3, <2>1 DEF SendTalk, Working
<1>5. Shrunk(Up, Up') /\ Up[1].id = "DONE" /\ 1 \in 1..Len(Up)
  BY <1>1, <1>3, TookUp, ShrunkAll
<1>6. Len(Up) = 1 /\ pc = "status"
  BY <1>4, <1>5 DEF SendTalk
<1>7. Len(Up') = 0 /\ 1..Len(Up') = {}
  <2>1. Len(Up') = 0
    BY <1>5, <1>6, ShrunkAll
  <2> QED BY <2>1
<1>8. /\ \A i \in 1..Len(Down) : Down[i].file = at /\ Down[i].id # "OKAY"
      /\ ~Broken(cur) /\ svc[s].fd = None => Len(Down) > 0
  BY <1>1, <1>3, <1>4 DEF SendTalk
<1>9. Svc'.pc \in {"wait", "closed"}
  BY <1>1, <1>3, ClosedType DEF Turns
<1>10. CASE svc[s].fd = None /\ Turns(s, Waiting) /\ UNCHANGED down
  <2>1. Down' = Down
    BY <1>3, <1>10
  <2>2. ~Broken(cur)' => Len(Down) > 0
    BY <1>3, <1>8, <1>9, <1>10
  <2>3. SendTalk'
    BY <1>3, <1>6, <1>7, <1>8, <1>9, <2>1, <2>2 DEF SendTalk, Working
  <2> QED BY <1>3, <1>4, <2>3, PhaseStep
<1>11. CASE Told(s, <<m>>)
  <2>1. (cut[s] /\ Down' = Down) \/ Grown(Down, Down', m)
    BY <1>2, <1>3, <1>11, ToldDown
  <2>2. \A i \in 1..Len(Down') : Down'[i].file = at /\ (Down'[i].id = "OKAY" => i = Len(Down'))
    BY <1>2, <1>4, <1>8, <2>1, GrownAll
  <2>3. ~Broken(cur)' => Len(Down') > 0
    BY <1>3, <2>1, GrownAll
  <2>4. SendTalk'
    BY <1>3, <1>6, <1>7, <1>9, <2>2, <2>3 DEF SendTalk, Working
  <2> QED BY <1>3, <1>4, <2>4, PhaseStep
<1> QED BY <1>1, <1>10, <1>11

LEMMA RecvBeginTalk ==
  ASSUME Shape, Talk, NEW s \in Sessions, s = cur, pc # "idle", RecvBegin(s)
  PROVE  Talk'
<1> DEFINE f == Head(up[s]).file
           m == Msg("FAIL", f, 0)
<1>0. f = Head(up[s]).file /\ m = Msg("FAIL", f, 0)
  OBVIOUS
<1> HIDE DEF f, m
<1>1. /\ Took(s) /\ Head(up[s]).id = "RECV" /\ svc[s].pc = "wait" /\ f \in Files
      /\ UNCHANGED <<client, cut, path, inode, stuck, fixed>>
      /\ \/ /\ Told(s, <<m>>)
            /\ Turns(s, Waiting) \/ ((cut[s] \/ ClientGone(s)) /\ Turns(s, Closed))
         \/ Turns(s, Serving("recv", f, path[f])) /\ UNCHANGED down
  BY <1>0, RecvBeginFacts
<1>2. m \in Answers /\ m.id = "FAIL" /\ m.file = f
  BY <1>0, <1>1, AnswerType, MsgFields
<1>3. /\ at' = at /\ pos' = pos /\ UNCHANGED <<client, len>>
      /\ Up' = up'[s] /\ Down' = down'[s] /\ Svc' = svc'[s]
      /\ Up = up[s] /\ Down = down[s] /\ Svc = svc[s]
      /\ cut[s] => Broken(cur)'
  BY <1>1, OwnStep
<1>4. Shrunk(Up, Up') /\ Up[1].id = "RECV" /\ Up[1].file = f /\ 1 \in 1..Len(Up) /\ Len(Up) > 0
  BY <1>0, <1>1, <1>3, TookUp, ShrunkAll
<1>5. InRecv /\ RecvTalk
  BY <1>1, <1>3, <1>4, PhaseOfRequest
<1>6. f = at /\ Len(Up) = 1 /\ Len(Down) = 0 /\ pos = 0
  BY <1>4, <1>5 DEF RecvTalk
<1>7. Len(Up') = 0 /\ 1..Len(Up') = {} /\ 1..Len(Down) = {}
  <2>1. Len(Up') = 0
    BY <1>4, <1>6, ShrunkAll
  <2> QED BY <1>6, <2>1
<1>8. CASE /\ Told(s, <<m>>)
           /\ Turns(s, Waiting) \/ ((cut[s] \/ ClientGone(s)) /\ Turns(s, Closed))
  <2>1. (cut[s] /\ Down' = Down) \/ Grown(Down, Down', m)
    BY <1>2, <1>3, <1>8, ToldDown
  <2>2. Svc'.pc \in {"wait", "closed"}
    BY <1>3, <1>8, ClosedType DEF Turns
  <2>3. \A i \in 1..Len(Down') : Down'[i] = m /\ i = Len(Down')
    BY <1>7, <2>1, GrownAll
  <2>4. ~Broken(cur)' => Finished({"DONE", "FAIL"})'
    BY <1>2, <1>3, <2>1, GrownAll DEF Finished
  <2>5. RecvTalk'
    BY <1>2, <1>3, <1>6, <1>7, <2>2, <2>3, <2>4 DEF RecvTalk
  <2> QED BY <1>3, <1>5, <2>5, PhaseStep
<1>9. CASE Turns(s, Serving("recv", f, path[f])) /\ UNCHANGED down
  <2>1. Down' = Down /\ Svc'.pc = "recv" /\ Svc'.file = at /\ Svc'.n = 0
    BY <1>3, <1>6, <1>9 DEF Turns, Serving
  <2>2. Svc'.n = pos' + Len(Down')
    BY <1>3, <1>6, <2>1
  <2>3. RecvTalk'
    BY <1>3, <1>6, <1>7, <2>1, <2>2 DEF RecvTalk
  <2> QED BY <1>3, <1>5, <2>3, PhaseStep
<1> QED BY <1>1, <1>8, <1>9

LEMMA RecvPacketTalk ==
  ASSUME Shape, Talk, NEW s \in Sessions, s = cur, pc # "idle", RecvPacket(s)
  PROVE  Talk'
<1> DEFINE f == svc[s].file
           n == svc[s].n
           d == svc[s].fd
<1>0. f = svc[s].file /\ n = svc[s].n /\ d = svc[s].fd
  OBVIOUS
<1> HIDE DEF f, n, d
<1>1. /\ svc[s].pc = "recv" /\ f \in Files /\ n \in 0..MaxChunks
      /\ UNCHANGED <<client, up, cut, remote, fixed>>
      /\ \/ /\ n + 1 <= MaxChunks /\ Told(s, <<Msg("DATA", f, n + 1)>>)
            /\ Turns(s, [svc[s] EXCEPT !.n = n + 1])
         \/ Told(s, <<Msg("DONE", f, n)>>) /\ Turns(s, Waiting)
         \/ Told(s, <<Msg("FAIL", f, 0)>>) /\ Turns(s, Waiting)
  BY <1>0, RecvPacketFacts
<1>2. /\ at' = at /\ pos' = pos /\ UNCHANGED <<client, len>>
      /\ Up' = up'[s] /\ Down' = down'[s] /\ Svc' = svc'[s]
      /\ Up = up[s] /\ Down = down[s] /\ Svc = svc[s]
      /\ Len(Up) \in Nat /\ Len(Down) \in Nat
      /\ Broken(cur) = cut[s] /\ ~ClientGone(s)
      /\ cut[s] => Broken(cur)'
  BY <1>1, OwnStep
<1>3. InRecv /\ RecvTalk
  BY <1>1, <1>2, PhaseOfWork
<1>4. /\ Up' = Up /\ Len(Up) = 0 /\ f = at
      /\ \A i \in 1..Len(Down) : /\ Down[i].file = at /\ Down[i].id \notin {"DONE", "FAIL"}
                                 /\ Down[i].id = "DATA" => pos + i <= MaxChunks
      /\ ~cut[s] => n = pos + Len(Down)
  BY <1>0, <1>1, <1>2, <1>3 DEF RecvTalk
<1>5. 1..Len(Up') = {} /\ Len(Up') = 0
  BY <1>4
<1>6. CASE /\ n + 1 <= MaxChunks /\ Told(s, <<Msg("DATA", f, n + 1)>>)
           /\ Turns(s, [svc[s] EXCEPT !.n = n + 1])
  <2> DEFINE m == Msg("DATA", f, n + 1)
  <2>1. m \in Answers /\ m.id = "DATA" /\ m.file = f
    <3>1. n + 1 \in Nat
      BY <1>1
    <3> QED BY <1>1, <3>1, AnswerType, MsgFields
  <2> HIDE DEF m
  <2>2. (cut[s] /\ Down' = Down) \/ (~cut[s] /\ Grown(Down, Down', m))
    BY <1>2, <1>6, <2>1, ToldDown DEF m
  <2>3. Svc'.pc = "recv" /\ Svc'.file = at /\ Svc'.n = n + 1
    <3>1. svc[s] \in Services /\ svc[s].pc = "recv" /\ svc[s].file = at
      BY <1>0, <1>1, <1>2, <1>4, SessionTypes
    <3>2. Svc' = [svc[s] EXCEPT !.n = n + 1]
      BY <1>2, <1>6 DEF Turns
    <3> QED BY ONLY <3>1, <3>2 DEF Services
  <2>4. CASE cut[s] /\ Down' = Down
    <3>1. RecvTalk'
      BY <1>2, <1>4, <1>5, <2>3, <2>4 DEF RecvTalk
    <3> QED BY <1>2, <1>3, <3>1, PhaseStep
  <2>5. CASE ~cut[s] /\ Grown(Down, Down', m)
    <3>1. /\ Len(Down') = Len(Down) + 1
          /\ \A i \in 1..Len(Down') : (i \in 1..Len(Down) /\ Down'[i] = Down[i])
                                      \/ (i = Len(Down') /\ Down'[i] = m)
      BY <2>5, GrownAll
    <3>2. pos + Len(Down') = n + 1
      BY <1>2, <1>4, <2>5, <3>1, TalkTypes
    <3>3. \A i \in 1..Len(Down') : /\ Down'[i].file = at
                                   /\ Down'[i].id \notin {"DONE", "FAIL"}
                                   /\ Down'[i].id = "DATA" => pos + i <= MaxChunks
      BY <1>4, <1>6, <2>1, <3>1, <3>2
    <3>4. RecvTalk'
      BY <1>2, <1>5, <2>3, <3>2, <3>3 DEF RecvTalk
    <3> QED BY <1>2, <1>3, <3>4, PhaseStep
  <2> QED BY <2>2, <2>4, <2>5
<1>7. ASSUME NEW m \in Answers, m.id \in {"DONE", "FAIL"}, m.file = f, Told(s, <<m>>),
             Turns(s, Waiting)
      PROVE  Talk'
  <2>1. (cut[s] /\ Down' = Down) \/ Grown(Down, Down', m)
    BY <1>2, <1>7, ToldDown
  <2>2. Svc'.pc = "wait"
    BY <1>2, <1>7, ClosedType DEF Turns
  <2>3. CASE cut[s] /\ Down' = Down
    <3>1. RecvTalk'
      BY <1>2, <1>4, <1>5, <2>2, <2>3 DEF RecvTalk
    <3> QED BY <1>2, <1>3, <3>1, PhaseStep
  <2>4. CASE Grown(Down, Down', m)
    <3>1. /\ Len(Down') > 0 /\ Down'[Len(Down')] = m
          /\ \A i \in 1..Len(Down') : (i \in 1..Len(Down) /\ Down'[i] = Down[i])
                                      \/ (i = Len(Down') /\ Down'[i] = m)
      BY <2>4, GrownAll
    <3>2. \A i \in 1..Len(Down') : /\ Down'[i].file = at
                                   /\ Down'[i].id \in {"DONE", "FAIL"} => i = Len(Down')
                                   /\ Down'[i].id = "DATA" => pos + i <= MaxChunks
      BY <1>4, <1>7, <3>1
    <3>3. Finished({"DONE", "FAIL"})'
      BY <1>7, <3>1 DEF Finished
    <3>4. RecvTalk'
      BY <1>2, <1>5, <2>2, <3>2, <3>3 DEF RecvTalk
    <3> QED BY <1>2, <1>3, <3>4, PhaseStep
  <2> QED BY <2>1, <2>3, <2>4
<1>8. CASE Told(s, <<Msg("DONE", f, n)>>) /\ Turns(s, Waiting)
  <2>1. n \in Nat
    BY <1>1
  <2>2. Msg("DONE", f, n) \in Answers /\ Msg("DONE", f, n).id \in {"DONE", "FAIL"}
        /\ Msg("DONE", f, n).file = f
    BY <1>1, <2>1, AnswerType, MsgFields
  <2> QED BY <1>7, <1>8, <2>2
<1>9. CASE Told(s, <<Msg("FAIL", f, 0)>>) /\ Turns(s, Waiting)
  <2>1. Msg("FAIL", f, 0) \in Answers /\ Msg("FAIL", f, 0).id \in {"DONE", "FAIL"}
        /\ Msg("FAIL", f, 0).file = f
    BY <1>1, AnswerType, MsgFields
  <2> QED BY <1>7, <1>9, <2>1
<1> QED BY <1>1, <1>6, <1>8, <1>9

\* A step of any service is one of ServiceMove.
LEMMA ServiceMoves ==
  ASSUME Shape, NEW s \in Sessions, Service(s)
  PROVE  ServiceMove(s)
<1>1. CASE do_stat(s)
  BY <1>1, do_statFacts DEF ServiceMove
<1>2. CASE ListBegin(s)
  BY <1>2, ListBeginFacts DEF ServiceMove
<1>3. CASE ListEntry(s)
  BY <1>3, ListEntryFacts DEF ServiceMove
<1>4. CASE do_send(s)
  <2>1. /\ Took(s) /\ svc[s].pc = "wait" /\ UNCHANGED <<client, cut, fixed>>
        /\ UNCHANGED down \/ \E p : Told(s, p)
        /\ \E r : Turns(s, r)
    BY <1>4, do_sendFacts
  <2> QED BY <2>1 DEF ServiceMove
<1>5. CASE Open(s)
  <2>1. /\ svc[s].pc = "open" /\ UNCHANGED <<client, up, cut, fixed>>
        /\ UNCHANGED down \/ \E p : Told(s, p)
        /\ \E r : Turns(s, r)
    BY <1>5, OpenFacts
  <2> QED BY <2>1 DEF ServiceMove
<1>6. CASE SendPacket(s)
  <2>1. /\ Took(s) /\ svc[s].pc = "send" /\ UNCHANGED <<client, cut, fixed>>
        /\ UNCHANGED down \/ \E p : Told(s, p)
        /\ UNCHANGED svc \/ \E r : Turns(s, r)
    BY <1>6, SendPacketFacts
  <2> QED BY <2>1 DEF ServiceMove
<1>7. CASE SendEnd(s)
  <2>1. /\ Took(s) /\ svc[s].pc = "send" /\ UNCHANGED <<client, cut, fixed>>
        /\ UNCHANGED down \/ \E p : Told(s, p)
        /\ \E r : Turns(s, r)
    BY <1>7, SendEndFacts
  <2> QED BY <2>1 DEF ServiceMove
<1>8. CASE RecvBegin(s)
  <2>1. /\ Took(s) /\ svc[s].pc = "wait" /\ UNCHANGED <<client, cut, fixed>>
        /\ UNCHANGED down \/ \E p : Told(s, p)
        /\ \E r : Turns(s, r)
    BY <1>8, RecvBeginFacts
  <2> QED BY <2>1 DEF ServiceMove
<1>9. CASE RecvPacket(s)
  <2>1. /\ svc[s].pc = "recv" /\ UNCHANGED <<client, up, cut, fixed>>
        /\ \E p : Told(s, p)
        /\ \E r : Turns(s, r)
    BY <1>9, RecvPacketFacts
  <2> QED BY <2>1 DEF ServiceMove
<1>10. CASE ServiceEnds(s)
  BY <1>10, ServiceEndsFacts DEF ServiceMove
<1> QED BY <1>1, <1>2, <1>3, <1>4, <1>5, <1>6, <1>7, <1>8, <1>9, <1>10 DEF Service

\* Other sessions are not touched.
LEMMA MoveElsewhere ==
  ASSUME Shape, NEW s \in Sessions, ServiceMove(s), s # cur, pc # "idle"
  PROVE  /\ Up' = Up /\ Down' = Down /\ Svc' = Svc /\ Broken(cur)' = Broken(cur)
<1>1. cur \in Sessions /\ UNCHANGED <<cur, cut>>
  BY CurSession DEF ServiceMove, client
<1>2. up'[cur] = up[cur] /\ down'[cur] = down[cur] /\ svc'[cur] = svc[cur]
  BY <1>1 DEF ServiceMove, Took, Told, Turns
<1> QED BY <1>1, <1>2 DEF Up, Down, Svc, Broken

LEMMA TalkStep == Shape /\ Talk /\ [Next]_vars => Talk'
<1> SUFFICES ASSUME Shape, Talk, [Next]_vars PROVE Talk'
  OBVIOUS
<1>1. CASE \E c \in Commands : Begin(c)
  BY <1>1, BeginTalk
<1>2. CASE Client
  BY <1>2, AskTalk, StatAnsweredTalk, EntryTalk, ListedTalk, SkipTalk, SendRequestTalk,
     SendDataTalk, SendDoneTalk, SendStatusTalk, RecvRequestTalk, RecvDataTalk, LeaveTalk
     DEF Client
<1>3. CASE ClientKilled
  BY <1>3, LeaveTalk
<1>4. ASSUME NEW s \in Sessions, Service(s) PROVE Talk'
  <2>1. ServiceMove(s) /\ UNCHANGED <<client, len>>
    BY <1>4, ServiceMoves DEF ServiceMove, fixed
  <2>2. CASE s # cur \/ pc = "idle"
    BY <2>1, <2>2, Elsewhere, MoveElsewhere
  <2>3. CASE s = cur /\ pc # "idle"
    BY <1>4, <2>3, do_statTalk, ListBeginTalk, ListEntryTalk, do_sendTalk, OpenTalk,
       SendPacketTalk, SendEndTalk, RecvBeginTalk, RecvPacketTalk, ServiceEndsTalk DEF Service
  <2> QED BY <2>2, <2>3
<1>5. CASE \E s \in Sessions : LinkDown(s)
  BY <1>5, LinkDownTalk
<1>6. CASE UNCHANGED vars
  <2>1. UNCHANGED <<client, len>> /\ Up' = Up /\ Down' = Down /\ Svc' = Svc
        /\ Broken(cur)' = Broken(cur)
    BY <1>6 DEF vars, client, Up, Down, Svc, Broken
  <2> QED BY <2>1, Elsewhere
<1> QED BY <1>1, <1>2, <1>3, <1>4, <1>5, <1>6 DEF Next

LEMMA InitTalk == Init => Talk
<1> SUFFICES ASSUME Init PROVE Talk
  OBVIOUS
<1>1. pc = "idle" /\ pos = 0 /\ lcopy = [f \in Files |-> Old] /\ pos <= MaxChunks
  BY SyncAssumption DEF Init
<1>2. lcopy \in [Files -> {Old, None} \cup (0..MaxChunks)]
  BY <1>1
<1> QED BY <1>1, <1>2 DEF Talk, Course, InStat, InList, InRest, InSend, InRecv

LEMMA TalkHolds == Spec => [](Shape /\ Talk)
<1>1. Init => Shape /\ Talk
  BY InitShape, InitTalk
<1>2. Shape /\ Talk /\ [Next]_vars => (Shape /\ Talk)'
  BY ShapeStep, TalkStep
<1> QED BY <1>1, <1>2, PTL DEF Spec

\* The state has its types: no packet is counted beyond the size of a file, no
\* inode or file is named that there is not, in the client, on the stream and
\* in the service.
THEOREM TypeCorrect == Spec => []TypeOK
<1>1. Shape /\ Talk => TypeOK
  <2> SUFFICES ASSUME Shape, Talk PROVE TypeOK
    OBVIOUS
  <2>1. pos \in 0..MaxChunks /\ lcopy \in [Files -> {Old, None} \cup (0..MaxChunks)]
    BY TalkTypes
  <2>2. Requests \subseteq Message /\ Answers \subseteq Message
    BY DEF Requests, Answers
  <2>3. up \in [Sessions -> Seq(Message)] /\ down \in [Sessions -> Seq(Message)]
    <3>1. Seq(Requests) \subseteq Seq(Message) /\ Seq(Answers) \subseteq Seq(Message)
      BY <2>2
    <3> QED BY <3>1 DEF Shape, StreamTypes
  <2>4. svc \in [Sessions ->
                 [pc: {"closed", "wait", "list", "open", "send", "recv"},
                  file: 0..(NumFiles + 1), fd: {None} \cup (0..MaxSessions),
                  n: 0..MaxChunks]]
    BY DEF Shape, StreamTypes, Services
  <2> QED BY <2>1, <2>3, <2>4
          DEF TypeOK, Shape, ClientTypes, StreamTypes, FileTypes, Places, Inodes
<1> QED BY <1>1, TalkHolds, PTL

\* An answer that waits for the client is the answer to what it asks, however
\* many files, packets and failures there have been: sync_send() ends the command
\* at a FAIL, so that a second FAIL or an OKAY after it never counts for the next
\* file, and sync_finish_readtime() reads the answers in the order of the list.
THEOREM InStepHolds == Spec => []InStep
<1>1. Shape /\ Talk => InStep
  <2> SUFFICES ASSUME Shape, Talk,
                      pc \in {"status", "first", "more"} \/ (pc = "answer" /\ ~Lists),
                      down[cur] # <<>>
               PROVE  Head(down[cur]).file = at
    BY DEF InStep
  <2>1. pc # "idle"
    OBVIOUS
  <2>2. Head(down[cur]) = Down[1] /\ 1 \in 1..Len(Down)
    <3>1. down[cur] \in Seq(Answers)
      BY <2>1, CurSession
    <3>2. Len(down[cur]) \in Nat /\ Len(down[cur]) # 0 /\ Head(down[cur]) = down[cur][1]
      BY <3>1, EmptyFacts
    <3> QED BY <3>2 DEF Down
  <2>3. CASE pc = "answer" /\ ~Lists
    <3>1. Down[1].file = (at - 1) + 1
      BY <2>2, <2>3 DEF Talk, InStat, StatTalk, Base
    <3> QED BY <2>2, <3>1, TalkTypes, SMTT(60)
  <2>4. CASE pc = "status"
    BY <2>2, <2>4 DEF Talk, InSend, SendTalk
  <2>5. CASE pc \in {"first", "more"}
    BY <2>2, <2>5 DEF Talk, InRecv, RecvTalk
  <2> QED BY <2>3, <2>4, <2>5
<1> QED BY <1>1, TalkHolds, PTL

\* Client and service never wait for each other, for every capacity of the
\* stream that holds two messages and half of the requests for a directory: the
\* service answers before it reads on, the client of sync reads no answer before
\* it has asked for all files, and none while it sends a file.
THEOREM NoWaitHolds == Spec => []NeverBothWait
<1>1. Shape /\ Talk => NeverBothWait
  <2> SUFFICES ASSUME Shape, Talk, pc # "idle", ~Broken(cur)
               PROVE  /\ pc \in Reads =>
                            \/ down[cur] # <<>> \/ up[cur] # <<>>
                            \/ svc[cur].pc \in {"list", "open", "recv"}
                      /\ pc \notin Reads /\ Len(up[cur]) >= Cap =>
                            CanReply(cur) \/ (svc[cur].pc = "send" /\ svc[cur].fd = None)
    BY DEF NeverBothWait
  <2>1. /\ Len(Up) \in Nat /\ Len(Down) \in Nat
        /\ Up = <<>> <=> Len(Up) = 0
        /\ Down = <<>> <=> Len(Down) = 0
    BY CurSession, EmptyFacts DEF Up, Down
  <2>2. Svc.pc # "closed"
    BY DEF Broken, Svc
  <2>3. ASSUME pc \in Reads, Len(Up) = 0, Len(Down) = 0
        PROVE  Svc.pc \in {"list", "open", "recv"}
    <3>1. CASE pc = "answer" /\ ~Lists
      <4>1. at <= StatEnd /\ (at - 1) + Len(Down) + Len(Up) = StatEnd
        BY <3>1 DEF Talk, InStat, StatTalk, Base, Asked
      <4> QED BY <2>3, <4>1, TalkTypes
    <3>2. CASE pc = "answer" /\ Lists
      BY <2>2, <2>3, <3>2 DEF Talk, InList, ListTalk, Finished
    <3>3. CASE pc = "status"
      BY <2>2, <2>3, <3>3 DEF Talk, InSend, SendTalk
    <3>4. CASE pc \in {"first", "more"}
      BY <2>2, <2>3, <3>4 DEF Talk, InRecv, RecvTalk, Finished
    <3> QED BY <2>3, <3>1, <3>2, <3>3, <3>4 DEF Reads
  <2>4. ASSUME pc \notin Reads, Len(Up) >= Cap
        PROVE  Len(Down) < Cap \/ (Svc.pc = "send" /\ Svc.fd = None)
    <3>1. Len(Up) > 0
      BY <2>1, <2>4, TalkTypes
    <3>2. CASE pc = "ask"
      <4>1. 0 + Len(Down) + Len(Up) = at - 1
        BY <3>2 DEF Talk, InStat, StatTalk, Base, Asked
      <4> QED BY <2>1, <2>4, <4>1, TalkTypes
    <3>3. CASE pc \in {"copy", "quit"}
      BY <3>1, <3>3 DEF Talk, InRest, RestTalk
    <3>4. CASE pc \in {"data", "done"}
      <4>1. SendTalk /\ 1 \in 1..Len(Up)
        BY <2>1, <3>1, <3>4 DEF Talk, InSend
      <4>2. Len(Down) = 0 \/ Len(Down) <= 1 \/ (Svc.pc = "send" /\ Svc.fd = None)
        BY <2>2, <3>1, <4>1 DEF SendTalk
      <4> QED BY <2>1, <4>2, TalkTypes
    <3> QED BY <2>4, <3>2, <3>3, <3>4 DEF Reads, Shape, ClientTypes, Places
  <2> QED BY <2>1, <2>3, <2>4 DEF CanReply, Up, Down, Svc
<1> QED BY <1>1, TalkHolds, PTL

-----------------------------------------------------------------------------
(* The files of the device. *)

\* The service of session s writes file f.
Works(s, f) == svc[s].pc \in Working /\ svc[s].file = f

NoWorker(f) == \A s \in Sessions : ~Works(s, f)

\* The writer of a regular file has its own inode open, which has no time yet; if
\* it has none open, there is no file, or one that it could not remove.
Held(s, f) ==
    \/ svc[s].fd = None /\ path[f] = None
    \/ svc[s].fd = s /\ path[f] = s /\ ~inode[f][s].stamped
    \/ /\ svc[s].fd = None /\ svc[s].pc = "send" /\ f \in stuck
       /\ path[f] = s /\ ~inode[f][s].stamped

\* Without a writer, what is there was there before, is finished, or is stuck.
Settled(f) == path[f] \in {None, 0} \/ At(f).stamped \/ f \in stuck

\* Unless two sessions have met on it, a file has one writer, which has the inode
\* open that the path names.  Only a finished file has its time.
FileOK(f) ==
    /\ \A s, o \in Sessions : Works(s, f) /\ Works(o, f) => s = o
    /\ \A s \in Sessions : Works(s, f) /\ svc[s].fd # None => path[f] = svc[s].fd
    /\ f \notin special =>
          /\ \A s \in Sessions : Works(s, f) => Held(s, f)
          /\ NoWorker(f) => Settled(f)
          /\ path[f] # None /\ At(f).stamped => path[f] # 0

FileInv == \A f \in Files : f \notin contested => FileOK(f)

\* What a step of a service does to the files: nothing; it removes the old file
\* and begins; or it works on the file that it has begun.
Quiet(s) ==
    UNCHANGED <<path, inode, stuck>> /\ svc[s].pc \notin Working /\ svc'[s].pc \notin Working

Starts(s, f) ==
    /\ svc[s].pc = "wait" /\ Took(s) /\ Head(up[s]).id = "SEND" /\ Head(up[s]).file = f
    /\ Cleared(s, f) /\ inode' = inode
    /\ svc'[s] = Serving("open", f, None)

Handles(s, f) ==
    /\ Works(s, f) /\ contested' = contested /\ stuck \subseteq stuck'
    /\ \A g \in Files : g # f => path'[g] = path[g] /\ inode'[g] = inode[g]
    /\ svc'[s].pc \in Working => svc'[s].file = f

LEMMA Effects ==
  ASSUME Shape, NEW s \in Sessions, Service(s)
  PROVE  /\ contested \subseteq contested' /\ special' = special /\ len' = len
         /\ \A o \in Sessions : o # s => svc'[o] = svc[o]
         /\ Quiet(s) \/ \E f \in Files : Starts(s, f) \/ Handles(s, f)
<1>1. ServiceMove(s) /\ special' = special /\ len' = len
  BY ServiceMoves DEF ServiceMove, fixed
<1>2. \A o \in Sessions : o # s => svc'[o] = svc[o]
  BY <1>1 DEF ServiceMove, Turns
<1>3. CASE do_stat(s)
  <2>1. svc[s].pc = "wait" /\ UNCHANGED remote /\ (svc'[s] = Waiting \/ svc'[s] = Closed)
    BY <1>3, do_statFacts DEF Turns
  <2> QED BY <1>1, <1>2, <2>1, ClosedType DEF Quiet, Working, remote
<1>4. CASE ListBegin(s)
  <2>1. svc[s].pc = "wait" /\ UNCHANGED remote /\ svc'[s].pc = "list"
    BY <1>4, ListBeginFacts DEF Turns, Serving
  <2> QED BY <1>1, <1>2, <2>1 DEF Quiet, Working, remote
<1>5. CASE ListEntry(s)
  <2>1. svc[s].pc = "list" /\ UNCHANGED remote /\ svc[s] \in Services
    BY <1>5, ListEntryFacts, SessionTypes
  <2>2. svc'[s].pc \in {"list", "wait"}
    BY <1>5, <2>1, ListEntryFacts, ClosedType DEF Turns, Services
  <2> QED BY <1>1, <1>2, <2>1, <2>2 DEF Quiet, Working, remote
<1>6. CASE do_send(s)
  <2> DEFINE f == Head(up[s]).file
  <2>0. f = Head(up[s]).file
    OBVIOUS
  <2> HIDE DEF f
  <2>1. /\ Took(s) /\ Head(up[s]).id = "SEND" /\ f \in Files /\ svc[s].pc = "wait"
        /\ inode' = inode
        /\ \/ Turns(s, Closed) /\ UNCHANGED remote
           \/ Cleared(s, f) /\ Turns(s, Serving("open", f, None))
    BY <1>6, <2>0, do_sendFacts
  <2>2. CASE Turns(s, Closed) /\ UNCHANGED remote
    BY <1>1, <1>2, <2>1, <2>2, ClosedType DEF Quiet, Working, remote, Turns
  <2>3. CASE Cleared(s, f) /\ Turns(s, Serving("open", f, None))
    <3>1. Starts(s, f)
      BY <2>0, <2>1, <2>3 DEF Starts, Turns
    <3>2. contested \subseteq contested'
      BY <2>1, <2>3, ContestType DEF Cleared
    <3> QED BY <1>1, <1>2, <2>1, <3>1, <3>2
  <2> QED BY <2>1, <2>2, <2>3
<1>7. CASE Open(s)
  <2> DEFINE f == svc[s].file
  <2>0. f = svc[s].file
    OBVIOUS
  <2> HIDE DEF f
  <2>1. /\ svc[s].pc = "open" /\ f \in Files /\ contested' = contested /\ stuck' = stuck
        /\ \/ /\ UNCHANGED remote
              /\ Turns(s, Serving("send", f, None)) \/ Turns(s, Closed)
           \/ /\ path' = [path EXCEPT ![f] = IF @ = None THEN s ELSE @]
              /\ inode' = IF path[f] = None THEN [inode EXCEPT ![f][s] = Fresh] ELSE inode
              /\ Turns(s, Serving("send", f, path'[f]))
    BY <1>7, <2>0, OpenFacts
  <2>2. svc'[s].pc \in Working => svc'[s].file = f
    BY <2>1, ClosedType DEF Turns, Serving, Working
  <2>3. \A g \in Files : g # f => path'[g] = path[g]
    <3>1. path \in [Files -> {None} \cup (0..MaxSessions)]
          /\ (path' = path \/ path' = [path EXCEPT ![f] = IF @ = None THEN s ELSE @])
      BY <2>1 DEF remote, Shape, FileTypes
    <3> QED BY ONLY <3>1
  <2>4. \A g \in Files : g # f => inode'[g] = inode[g]
    <3>1. inode \in [Files -> [0..MaxSessions -> Inodes]]
          /\ (inode' = inode \/ inode' = [inode EXCEPT ![f][s] = Fresh])
      BY <2>1 DEF remote, Shape, FileTypes
    <3> QED BY ONLY <3>1
  <2>5. Handles(s, f)
    BY <2>0, <2>1, <2>2, <2>3, <2>4 DEF Handles, Works, Working
  <2> QED BY <1>1, <1>2, <2>1, <2>5
<1>8. CASE SendPacket(s)
  <2> DEFINE f == svc[s].file
             d == svc[s].fd
             n == Head(up[s]).n
  <2>0. f = svc[s].file /\ d = svc[s].fd /\ n = Head(up[s]).n
    OBVIOUS
  <2> HIDE DEF f, d, n
  <2>1. /\ svc[s].pc = "send" /\ f \in Files /\ contested' = contested /\ n \in 0..MaxChunks
        /\ \/ UNCHANGED <<path, inode, stuck, svc>>
           \/ /\ d \in 0..MaxSessions /\ UNCHANGED <<path, stuck>> /\ Written(f, d, n)
              /\ Turns(s, [svc[s] EXCEPT !.n = n])
           \/ /\ Removed(f) /\ UNCHANGED inode
              /\ Turns(s, [svc[s] EXCEPT !.fd = None]) \/ Turns(s, Closed)
    BY <1>8, <2>0, SendPacketFacts
  <2>2. svc'[s].pc \in Working => svc'[s].file = f
    BY <2>0, <2>1, ClosedType, SessionTypes DEF Turns, Services, Working
  <2>3. \A g \in Files : g # f => path'[g] = path[g]
    <3>1. f \in Files /\ (path' = path \/ path' = Unlink(f))
      BY <2>1 DEF Removed
    <3> QED BY <3>1, UnlinkType
  <2>4. \A g \in Files : g # f => inode'[g] = inode[g]
    <3>1. CASE UNCHANGED inode
      BY <3>1
    <3>2. CASE Written(f, d, n)
      BY <2>1, <3>2 DEF Written, Shape, FileTypes
    <3> QED BY <2>1, <3>1, <3>2
  <2>5. stuck \subseteq stuck'
    BY <2>1 DEF Removed
  <2>6. Handles(s, f)
    BY <2>0, <2>1, <2>2, <2>3, <2>4, <2>5 DEF Handles, Works, Working
  <2> QED BY <1>1, <1>2, <2>1, <2>6
<1>9. CASE SendEnd(s)
  <2> DEFINE f == svc[s].file
  <2>0. f = svc[s].file
    OBVIOUS
  <2> HIDE DEF f
  <2>1. /\ svc[s].pc = "send" /\ f \in Files /\ UNCHANGED <<path, contested>>
        /\ svc'[s] = Waiting \/ svc'[s] = Closed
        /\ inode' = inode \/ inode' = [inode EXCEPT ![f][path[f]].stamped = TRUE]
        /\ stuck \subseteq stuck'
    BY <1>9, <2>0, SendEndFacts DEF Turns, Stamps
  <2>2. svc'[s].pc \notin Working
    BY <2>1, ClosedType DEF Working
  <2>3. \A g \in Files : g # f => path'[g] = path[g] /\ inode'[g] = inode[g]
    BY <2>1 DEF Shape, FileTypes
  <2>4. Handles(s, f)
    BY <2>0, <2>1, <2>2, <2>3 DEF Handles, Works, Working
  <2> QED BY <1>1, <1>2, <2>1, <2>4
<1>10. CASE RecvBegin(s)
  <2> DEFINE f == Head(up[s]).file
  <2>0. f = Head(up[s]).file
    OBVIOUS
  <2> HIDE DEF f
  <2>1. /\ svc[s].pc = "wait" /\ f \in Files /\ Contest(s, f) /\ UNCHANGED <<path, inode, stuck>>
        /\ svc'[s] = Waiting \/ svc'[s] = Closed \/ svc'[s] = Serving("recv", f, path[f])
    BY <1>10, <2>0, RecvBeginFacts DEF Turns
  <2>2. svc'[s].pc \notin Working
    BY <2>1, ClosedType DEF Working, Serving
  <2>3. contested \subseteq contested'
    BY <2>1, ContestType
  <2> QED BY <1>1, <1>2, <2>1, <2>2, <2>3 DEF Quiet, Working
<1>11. CASE RecvPacket(s)
  <2>1. svc[s].pc = "recv" /\ UNCHANGED remote /\ svc[s] \in Services
        /\ \/ svc'[s] = [svc[s] EXCEPT !.n = svc[s].n + 1]
           \/ svc'[s] = Waiting
    BY <1>11, RecvPacketFacts, SessionTypes DEF Turns
  <2>2. svc'[s].pc \in {"recv", "wait"}
    BY <2>1, ClosedType DEF Services
  <2> QED BY <1>1, <1>2, <2>1, <2>2 DEF Quiet, Working, remote
<1>12. CASE ServiceEnds(s)
  <2> DEFINE f == svc[s].file
  <2>0. f = svc[s].file
    OBVIOUS
  <2> HIDE DEF f
  <2>1. /\ svc[s].pc \in {"wait", "send", "list", "recv"}
        /\ svc[s].pc = "send" => f \in Files
        /\ svc'[s] = Closed /\ UNCHANGED <<inode, contested>>
        /\ svc[s].pc = "send" => Removed(f)
        /\ svc[s].pc # "send" => UNCHANGED <<path, stuck>>
    BY <1>12, <2>0, ServiceEndsFacts DEF Turns
  <2>2. CASE svc[s].pc = "send"
    <3>1. f \in Files /\ (path' = path \/ path' = Unlink(f)) /\ stuck \subseteq stuck'
      BY <2>1, <2>2 DEF Removed
    <3>2. \A g \in Files : g # f => path'[g] = path[g]
      BY <3>1, UnlinkType
    <3>3. Handles(s, f)
      BY <2>0, <2>1, <2>2, <3>1, <3>2, ClosedType DEF Handles, Works, Working
    <3> QED BY <1>1, <1>2, <2>1, <2>2, <3>1, <3>3
  <2>3. CASE svc[s].pc # "send"
    BY <1>1, <1>2, <2>1, <2>3, ClosedType DEF Quiet, Working
  <2> QED BY <2>2, <2>3
<1> QED BY <1>3, <1>4, <1>5, <1>6, <1>7, <1>8, <1>9, <1>10, <1>11, <1>12 DEF Service

\* A file is as it was.
LEMMA FileFrame ==
  ASSUME Shape, NEW f \in Files, FileOK(f), path'[f] = path[f], inode'[f] = inode[f],
         special' = special, f \in stuck => f \in stuck',
         \A s \in Sessions : Works(s, f)' <=> Works(s, f),
         \A s \in Sessions : Works(s, f) => svc'[s] = svc[s]
  PROVE  FileOK(f)'
<1>1. NoWorker(f)' <=> NoWorker(f)
  BY DEF NoWorker
<1>2. At(f)' = At(f)
  BY DEF At
<1>3. Settled(f) => Settled(f)'
  BY <1>2 DEF Settled
<1>4. \A s \in Sessions : Works(s, f) /\ Held(s, f) => Held(s, f)'
  BY DEF Held
<1> QED BY <1>1, <1>2, <1>3, <1>4 DEF FileOK

\* What FileOK says of a file that session s alone may write.
Kept(s, f) ==
    /\ Works(s, f) /\ svc[s].fd # None => path[f] = svc[s].fd
    /\ f \notin special =>
          /\ Works(s, f) => Held(s, f)
          /\ ~Works(s, f) => Settled(f)
          /\ path[f] # None /\ At(f).stamped => path[f] # 0

LEMMA OneWorker ==
  ASSUME NEW s \in Sessions, NEW f, \A o \in Sessions : o # s => ~Works(o, f)
  PROVE  FileOK(f) <=> Kept(s, f)
<1>1. NoWorker(f) <=> ~Works(s, f)
  BY DEF NoWorker
<1> QED BY <1>1 DEF FileOK, Kept

LEMMA OneWorkerNext ==
  ASSUME NEW s \in Sessions, NEW f, \A o \in Sessions : o # s => ~Works(o, f)', Kept(s, f)'
  PROVE  FileOK(f)'
<1>1. NoWorker(f)' <=> ~Works(s, f)'
  BY DEF NoWorker
<1> QED BY <1>1 DEF FileOK, Kept

LEMMA Alone ==
  ASSUME NEW s \in Sessions, NEW f, Works(s, f), FileOK(f)
  PROVE  \A o \in Sessions : o # s => ~Works(o, f)
BY DEF FileOK

\* A worker is one of a number other than 0.
LEMMA SessionNumber ==
  ASSUME NEW s \in Sessions
  PROVE  s # 0 /\ s # None /\ s \in 0..MaxSessions /\ None # 0
BY SyncAssumption DEF Sessions, None

LEMMA OpenFile ==
  ASSUME Shape, NEW s \in Sessions, NEW f, f = svc[s].file, Kept(s, f), Open(s)
  PROVE  Kept(s, f)'
<1>1. /\ svc[s].pc = "open" /\ f \in Files /\ svc[s].fd = None /\ special' = special
      /\ \/ /\ UNCHANGED remote
            /\ Turns(s, Serving("send", f, None)) \/ Turns(s, Closed)
         \/ /\ path' = [path EXCEPT ![f] = IF @ = None THEN s ELSE @]
            /\ inode' = IF path[f] = None THEN [inode EXCEPT ![f][s] = Fresh] ELSE inode
            /\ path'[f] # None
            /\ Turns(s, Serving("send", f, path'[f]))
  BY OpenFacts DEF fixed
<1>2. f \notin special => path[f] = None
  BY <1>1, SessionNumber DEF Kept, Held, Works, Working
<1>3. CASE UNCHANGED remote /\ (Turns(s, Serving("send", f, None)) \/ Turns(s, Closed))
  <2>1. path'[f] = path[f] /\ inode' = inode
    BY <1>3 DEF remote
  <2>2. svc'[s].fd = None
    BY <1>3, ClosedType DEF Turns, Serving, Closed
  <2> QED BY <1>1, <1>2, <2>1, <2>2 DEF Kept, Held, Settled
<1>4. CASE /\ path' = [path EXCEPT ![f] = IF @ = None THEN s ELSE @]
           /\ inode' = IF path[f] = None THEN [inode EXCEPT ![f][s] = Fresh] ELSE inode
           /\ path'[f] # None
           /\ Turns(s, Serving("send", f, path'[f]))
  <2>1. Works(s, f)' /\ svc'[s].fd = path'[f]
    BY <1>4 DEF Turns, Serving, Works, Working
  <2>2. path'[f] = IF path[f] = None THEN s ELSE path[f]
    BY <1>1, <1>4 DEF Shape, FileTypes
  <2>3. path[f] = None => inode'[f][s] = Fresh
    <3>1. inode \in [Files -> [0..MaxSessions -> Inodes]] /\ s \in 0..MaxSessions
      BY SessionNumber DEF Shape, FileTypes
    <3>2. [inode EXCEPT ![f][s] = Fresh][f][s] = Fresh
      BY <1>1, <3>1
    <3> QED BY <1>4, <3>2
  <2>4. f \notin special => path'[f] = s /\ ~inode'[f][s].stamped
    BY <1>2, <2>2, <2>3 DEF Fresh
  <2> QED BY <1>1, <2>1, <2>4, SessionNumber DEF Kept, Held
<1> QED BY <1>1, <1>3, <1>4

LEMMA SendPacketFile ==
  ASSUME Shape, NEW s \in Sessions, NEW f, f = svc[s].file, Kept(s, f), SendPacket(s)
  PROVE  Kept(s, f)'
<1> DEFINE d == svc[s].fd
           n == Head(up[s]).n
<1>0. d = svc[s].fd /\ n = Head(up[s]).n
  OBVIOUS
<1> HIDE DEF d, n
<1>1. /\ svc[s].pc = "send" /\ f \in Files /\ n \in 0..MaxChunks /\ special' = special
      /\ \/ UNCHANGED <<path, inode, stuck, svc>>
         \/ /\ d \in 0..MaxSessions /\ d # None /\ UNCHANGED path /\ Written(f, d, n)
            /\ Turns(s, [svc[s] EXCEPT !.n = n])
         \/ /\ d # None /\ Removed(f) /\ UNCHANGED inode
            /\ Turns(s, [svc[s] EXCEPT !.fd = None]) \/ Turns(s, Closed)
  BY <1>0, SendPacketFacts DEF fixed
<1>2. Works(s, f) /\ svc[s] \in Services
  BY <1>1, SessionTypes DEF Works, Working
<1>3. CASE UNCHANGED <<path, inode, stuck, svc>>
  BY <1>1, <1>3 DEF Kept, Held, Settled, Works, At
<1>4. CASE /\ d \in 0..MaxSessions /\ d # None /\ UNCHANGED path /\ Written(f, d, n)
           /\ Turns(s, [svc[s] EXCEPT !.n = n])
  <2>1. svc'[s].pc = "send" /\ svc'[s].file = f /\ svc'[s].fd = d
    BY <1>0, <1>1, <1>2, <1>4 DEF Turns, Services
  <2>2. Works(s, f)'
    BY <2>1 DEF Works, Working
  <2>3. inode'[f][d].stamped = FALSE
    BY <1>1, <1>4, WrittenType
  <2>4. path'[f] = path[f] /\ path[f] = d
    BY <1>0, <1>2, <1>4 DEF Kept
  <2>5. f \notin special => d = s
    BY <1>0, <1>2, <1>4 DEF Kept, Held
  <2> QED BY <1>1, <2>1, <2>2, <2>3, <2>4, <2>5, SessionNumber DEF Kept, Held
<1>5. CASE /\ d # None /\ Removed(f) /\ UNCHANGED inode
           /\ Turns(s, [svc[s] EXCEPT !.fd = None]) \/ Turns(s, Closed)
  <2>1. svc'[s].fd = None /\ (svc'[s].pc = "send" \/ svc'[s].pc = "closed")
    BY <1>1, <1>2, <1>5, ClosedType DEF Turns, Services, Closed, Serving
  <2>2. CASE path' = Unlink(f)
    <3>1. f \notin special => path'[f] = None
      BY <1>1, <2>2, UnlinkType
    <3> QED BY <1>1, <2>1, <3>1 DEF Kept, Held, Settled
  <2>3. CASE path' = path /\ stuck' = stuck \cup {f}
    <3>1. f \notin special => path[f] = s /\ ~inode[f][s].stamped
      BY <1>0, <1>2, <1>5 DEF Kept, Held
    <3>2. f \notin special => path'[f] = s /\ ~inode'[f][s].stamped /\ f \in stuck'
      BY <1>5, <2>3, <3>1
    <3>3. f \notin special => ~At(f)'.stamped
      BY <3>2 DEF At
    <3>4. Works(s, f)' => svc'[s].pc = "send"
      BY <2>1 DEF Works, Working
    <3> QED BY <1>1, <2>1, <3>2, <3>3, <3>4 DEF Kept, Held, Settled
  <2> QED BY <1>5, <2>2, <2>3 DEF Removed
<1> QED BY <1>1, <1>3, <1>4, <1>5

LEMMA SendEndFile ==
  ASSUME Shape, NEW s \in Sessions, NEW f, f = svc[s].file, Kept(s, f), SendEnd(s)
  PROVE  Kept(s, f)'
<1>1. /\ svc[s].pc = "send" /\ f \in Files /\ path' = path /\ special' = special
      /\ Turns(s, Waiting) \/ Turns(s, Closed)
      /\ \/ svc[s].fd = None /\ inode' = inode /\ stuck' = stuck
         \/ svc[s].fd # None /\ Stamps(f)
  BY SendEndFacts DEF fixed
<1>2. Works(s, f) /\ ~Works(s, f)'
  BY <1>1, ClosedType DEF Works, Working, Turns
<1>3. path'[f] = path[f]
  BY <1>1
<1>4. CASE f \in special
  BY <1>1, <1>2, <1>4 DEF Kept
<1>5. CASE /\ f \notin special /\ inode' = inode
           /\ (svc[s].fd = None /\ stuck' = stuck) \/ stuck' = stuck \cup {f}
  <2>1. path[f] = None \/ f \in stuck'
    BY <1>2, <1>5, SessionNumber DEF Kept, Held
  <2>2. At(f)' = At(f)
    BY <1>1, <1>5 DEF At
  <2>3. Settled(f)'
    BY <1>3, <2>1 DEF Settled
  <2>4. path'[f] # None /\ At(f)'.stamped => path'[f] # 0
    BY <1>3, <1>5, <2>2 DEF Kept
  <2> QED BY <1>1, <1>2, <1>5, <2>3, <2>4 DEF Kept
<1>6. CASE /\ f \notin special /\ svc[s].fd # None
           /\ inode' = [inode EXCEPT ![f][path[f]].stamped = TRUE]
  <2>1. path[f] = s
    BY <1>2, <1>6 DEF Kept, Held
  <2>2. inode' = [inode EXCEPT ![f][s].stamped = TRUE]
    BY <1>6, <2>1
  <2>3. inode'[f][s].stamped = TRUE
    <3>1. s \in 0..MaxSessions /\ f \in Files
      BY <1>1, SessionNumber
    <3> QED BY <2>2, <3>1, StampedType
  <2>4. At(f)'.stamped
    BY <1>3, <2>1, <2>3 DEF At
  <2> QED BY <1>1, <1>2, <1>3, <2>1, <2>4, SessionNumber DEF Kept, Settled
<1> QED BY <1>1, <1>4, <1>5, <1>6 DEF Stamps

LEMMA ServiceEndsFile ==
  ASSUME Shape, NEW s \in Sessions, NEW f \in Files, f = svc[s].file, Works(s, f),
         Kept(s, f), ServiceEnds(s)
  PROVE  Kept(s, f)'
<1>1. /\ svc[s].pc = "send" /\ special' = special /\ inode' = inode
      /\ Turns(s, Closed) /\ Removed(f)
  BY ServiceEndsFacts DEF fixed, Works, Working
<1>2. ~Works(s, f)'
  BY <1>1, ClosedType DEF Works, Working, Turns
<1>3. CASE path' = Unlink(f)
  <2>1. f \notin special => path'[f] = None
    BY <1>1, <1>3, UnlinkType
  <2> QED BY <1>1, <1>2, <2>1 DEF Kept, Settled
<1>4. CASE path' = path /\ stuck' = stuck \cup {f}
  <2>1. At(f)' = At(f)
    BY <1>1, <1>4 DEF At
  <2> QED BY <1>1, <1>2, <1>4, <2>1 DEF Kept, Settled
<1> QED BY <1>1, <1>3, <1>4 DEF Removed

\* The one that writes a file keeps it in order.
LEMMA HandlesFile ==
  ASSUME Shape, NEW s \in Sessions, Service(s), NEW f \in Files, Works(s, f), FileOK(f)
  PROVE  FileOK(f)'
<1>1. \A o \in Sessions : o # s => ~Works(o, f)
  BY Alone
<1>2. \A o \in Sessions : o # s => ~Works(o, f)'
  BY <1>1, Effects DEF Works
<1>3. Kept(s, f) /\ f = svc[s].file /\ svc[s].pc \in Working
  BY <1>1, OneWorker DEF Works
<1>4. Kept(s, f)'
  <2>1. CASE Open(s)
    BY <1>3, <2>1, OpenFile
  <2>2. CASE SendPacket(s)
    BY <1>3, <2>2, SendPacketFile
  <2>3. CASE SendEnd(s)
    BY <1>3, <2>3, SendEndFile
  <2>4. CASE ServiceEnds(s)
    BY <1>3, <2>4, ServiceEndsFile
  <2> QED
    BY <1>3, <2>1, <2>2, <2>3, <2>4
       DEF Service, do_stat, ListBegin, ListEntry, do_send, RecvBegin, RecvPacket, Request,
           Working
<1> QED BY <1>2, <1>4, OneWorkerNext

\* The one that begins has it for itself.
LEMMA StartsFile ==
  ASSUME Shape, NEW s \in Sessions, NEW f \in Files, Starts(s, f), f \notin contested',
         special' = special, \A o \in Sessions : o # s => svc'[o] = svc[o]
  PROVE  FileOK(f)'
<1>0. path' = Unlink(f) /\ Contest(s, f) /\ svc'[s] = Serving("open", f, None)
  BY DEF Starts, Cleared
<1>1. /\ path' = Unlink(f) /\ svc'[s] = Serving("open", f, None)
      /\ \A o \in Sessions : o # s => ~Works(o, f)
  BY <1>0, ContestType DEF Works
<1>2. \A o \in Sessions : o # s => ~Works(o, f)'
  BY <1>1 DEF Works
<1>3. Works(s, f)' /\ svc'[s].fd = None
  BY <1>1 DEF Works, Working, Serving
<1>4. f \notin special => path'[f] = None
  BY <1>1, UnlinkType
<1>5. Kept(s, f)'
  BY <1>3, <1>4 DEF Kept, Held
<1> QED BY <1>2, <1>5, OneWorkerNext

LEMMA ServiceFiles ==
  ASSUME Shape, FileInv, NEW s \in Sessions, Service(s)
  PROVE  FileInv'
<1>1. /\ contested \subseteq contested' /\ special' = special
      /\ \A o \in Sessions : o # s => svc'[o] = svc[o]
      /\ Quiet(s) \/ \E f \in Files : Starts(s, f) \/ Handles(s, f)
  BY Effects
<1> SUFFICES ASSUME NEW g \in Files, g \notin contested' PROVE FileOK(g)'
  BY DEF FileInv
<1>2. FileOK(g)
  BY <1>1 DEF FileInv
<1>3. \A o \in Sessions : o # s => (Works(o, g)' <=> Works(o, g)) /\ svc'[o] = svc[o]
  BY <1>1 DEF Works
<1>4. ASSUME path'[g] = path[g], inode'[g] = inode[g], g \in stuck => g \in stuck',
             ~Works(s, g), ~Works(s, g)'
      PROVE  FileOK(g)'
  <2>1. \A o \in Sessions : Works(o, g)' <=> Works(o, g)
    BY <1>3, <1>4
  <2>2. \A o \in Sessions : Works(o, g) => svc'[o] = svc[o]
    BY <1>3, <1>4
  <2> QED BY <1>1, <1>2, <1>4, <2>1, <2>2, FileFrame
<1>5. CASE Quiet(s)
  BY <1>4, <1>5 DEF Quiet, Works
<1>6. ASSUME NEW f \in Files, Starts(s, f)
      PROVE  FileOK(g)'
  <2>1. CASE f = g
    BY <1>1, <1>6, <2>1, StartsFile
  <2>2. CASE f # g
    <3>1. ~Works(s, g) /\ ~Works(s, g)'
      BY <1>6, <2>2 DEF Starts, Works, Working, Serving
    <3>2. path'[g] = path[g] /\ inode'[g] = inode[g] /\ (g \in stuck => g \in stuck')
      BY <1>6, <2>2, UnlinkType DEF Starts, Cleared
    <3> QED BY <1>4, <3>1, <3>2
  <2> QED BY <2>1, <2>2
<1>7. ASSUME NEW f \in Files, Handles(s, f)
      PROVE  FileOK(g)'
  <2>1. CASE f = g
    BY <1>2, <1>7, <2>1, HandlesFile DEF Handles
  <2>2. CASE f # g
    <3>1. ~Works(s, g) /\ ~Works(s, g)'
      BY <1>7, <2>2 DEF Handles, Works
    <3>2. path'[g] = path[g] /\ inode'[g] = inode[g] /\ (g \in stuck => g \in stuck')
      BY <1>7, <2>2 DEF Handles
    <3> QED BY <1>4, <3>1, <3>2
  <2> QED BY <2>1, <2>2
<1> QED BY <1>1, <1>5, <1>6, <1>7

\* Client and link leave the files and their writers alone.
LEMMA ClientFiles ==
  ASSUME Shape, FileInv, UNCHANGED <<remote, fixed>>,
         \A s \in Sessions : svc'[s] = svc[s] \/ (svc[s] = Closed /\ svc'[s] = Waiting)
  PROVE  FileInv'
<1>1. UNCHANGED <<path, inode, contested, stuck, special>>
  BY DEF remote, fixed
<1>2. \A f \in Files, s \in Sessions :
         /\ Works(s, f)' <=> Works(s, f)
         /\ Works(s, f) => svc'[s] = svc[s]
  BY ClosedType DEF Works, Working
<1>3. \A f \in Files : FileOK(f) => FileOK(f)'
  BY <1>1, <1>2, FileFrame
<1> QED BY <1>1, <1>3 DEF FileInv

LEMMA FileStep == Shape /\ FileInv /\ [Next]_vars => FileInv'
<1> SUFFICES ASSUME Shape, FileInv, [Next]_vars PROVE FileInv'
  OBVIOUS
<1>1. ASSUME NEW c \in Commands, Begin(c) PROVE FileInv'
  <2>1. /\ UNCHANGED <<remote, fixed>> /\ svc' = [svc EXCEPT ![cur + 1] = Waiting]
        /\ cur < MaxSessions
    BY <1>1 DEF Begin
  <2>2. cur + 1 \in Sessions /\ cur + 1 > cur
    BY <2>1, SyncAssumption DEF Shape, ClientTypes, Sessions
  <2>3. svc[cur + 1] = Closed
    BY <2>2 DEF Shape, Future
  <2>4. \A s \in Sessions : svc'[s] = svc[s] \/ (svc[s] = Closed /\ svc'[s] = Waiting)
    BY <2>1, <2>2, <2>3 DEF Shape, StreamTypes
  <2> QED BY <2>1, <2>4, ClientFiles
<1>2. CASE Client \/ ClientKilled
  <2>1. UNCHANGED others
    BY <1>2
       DEF Client, ClientKilled, Ask, StatAnswered, Entry, Listed, Skip, SendRequest, SendData,
           SendDone, SendStatus, RecvRequest, RecvData, Quit, ClientFails
  <2>2. UNCHANGED <<svc, remote, fixed>>
    BY <2>1 DEF others
  <2> QED BY <2>2, ClientFiles
<1>3. ASSUME NEW s \in Sessions, Service(s) PROVE FileInv'
  BY <1>3, ServiceFiles
<1>4. ASSUME NEW s \in Sessions, LinkDown(s) PROVE FileInv'
  <2>1. UNCHANGED <<svc, remote, fixed>>
    BY <1>4 DEF LinkDown
  <2> QED BY <2>1, ClientFiles
<1>5. CASE UNCHANGED vars
  <2>1. UNCHANGED <<svc, remote, fixed>>
    BY <1>5 DEF vars, remote, fixed
  <2> QED BY <2>1, ClientFiles
<1> QED BY <1>1, <1>2, <1>3, <1>4, <1>5 DEF Next

LEMMA InitFiles == Init => FileInv
<1> SUFFICES ASSUME Init, NEW f \in Files PROVE FileOK(f)
  BY DEF FileInv
<1>1. \A s \in Sessions : ~Works(s, f)
  BY ClosedType DEF Init, Works, Working, Closed, Serving
<1>2. path[f] \in {None, 0}
  <2>1. PICK old \in {{}, Files} :
           path = [g \in Files |-> IF g \in old \cup special THEN 0 ELSE None]
    BY DEF Init
  <2> QED BY <2>1
<1>3. path[f] = 0 => ~At(f).stamped
  <2>1. inode[f][0] = [Fresh EXCEPT !.size = MaxChunks]
    <3>1. 0 \in 0..MaxSessions
      BY SyncAssumption
    <3> QED BY <3>1 DEF Init
  <2>2. inode[f][0].stamped = FALSE
    BY <2>1 DEF Fresh
  <2> QED BY <2>2 DEF At
<1> QED BY <1>1, <1>2, <1>3 DEF FileOK, Settled, None

LEMMA FilesHold == Spec => [](Shape /\ FileInv)
<1>1. Shape /\ FileInv /\ [Next]_vars => FileInv'
  BY FileStep
<1>2. Init => FileInv
  BY InitFiles
<1> QED BY <1>1, <1>2, ShapeHolds, PTL DEF Spec

\* No service leaves a part of a file behind: the end of do_send() and the error
\* paths of handle_send_file() remove what they have begun, and only a file that
\* was sent to its end gets its time.  The exceptions are those of NoPartLeft: the
\* paths where two sessions have met, and those where adb_unlink() or utime() has
\* failed since the last SEND.
THEOREM NoPartHolds == Spec => []NoPartLeft
<1>1. FileInv => NoPartLeft
  <2> SUFFICES ASSUME FileInv, NEW f \in Files \ (special \cup contested \cup stuck),
                      \A s \in Sessions : svc[s].pc \in Working => svc[s].file # f
               PROVE  path[f] \in {None, 0} \/ At(f).stamped
    BY DEF NoPartLeft
  <2>1. FileOK(f) /\ NoWorker(f)
    BY DEF FileInv, NoWorker, Works
  <2> QED BY <2>1 DEF FileOK, Settled
<1> QED BY <1>1, FilesHold, PTL

-----------------------------------------------------------------------------
(* What has arrived. *)

\* The file is there, whole, and nobody writes it; the copy that was pulled is
\* that of the file.
Complete(f) == path[f] # None /\ At(f).new = len[f] /\ NoWorker(f)

Pulled(f) == path[f] # None /\ lcopy[f] = At(f).size /\ NoWorker(f)

\* What is under way to a service that writes, or will write next, is about its
\* file, and no packet is one too many.
UpOK(s) ==
    \A i \in 1..Len(up[s]) :
        /\ up[s][i].id = "DATA" => up[s][i].n <= len[up[s][i].file]
        /\ up[s][i].id = "SEND" =>
              i = 1 /\ \A j \in 1..Len(up[s]) : up[s][j].file = up[s][i].file
        /\ svc[s].pc \in Working => up[s][i].file = svc[s].file

\* An inode that a service has created holds the new file and nothing else.
SizeOK(f, k) ==
    /\ inode[f][k].new <= len[f]
    /\ k # 0 => inode[f][k].size = inode[f][k].new

Sizes == \A f \in Files, k \in 0..MaxSessions : SizeOK(f, k)

Stock == (\A s \in Sessions : UpOK(s)) /\ Sizes

LEMMA CutUp ==
  ASSUME NEW s \in Sessions, UpOK(s), Cut(up[s], up'[s]), len' = len,
         svc'[s].pc \in Working => svc'[s].file = svc[s].file /\ svc[s].pc \in Working
  PROVE  UpOK(s)'
<1> SUFFICES ASSUME NEW i \in 1..Len(up'[s])
             PROVE  /\ up'[s][i].id = "DATA" => up'[s][i].n <= len[up'[s][i].file]
                    /\ up'[s][i].id = "SEND" =>
                          i = 1 /\ \A j \in 1..Len(up'[s]) : up'[s][j].file = up'[s][i].file
                    /\ svc'[s].pc \in Working => up'[s][i].file = svc'[s].file
  BY DEF UpOK
<1>1. \A j \in 1..Len(up'[s]) : j \in 1..Len(up[s]) /\ up'[s][j] = up[s][j]
  BY DEF Cut
<1>2. i \in 1..Len(up[s]) /\ up'[s][i] = up[s][i]
  BY <1>1
<1>3. /\ up[s][i].id = "DATA" => up[s][i].n <= len[up[s][i].file]
      /\ up[s][i].id = "SEND" =>
            i = 1 /\ \A j \in 1..Len(up[s]) : up[s][j].file = up[s][i].file
      /\ svc[s].pc \in Working => up[s][i].file = svc[s].file
  BY <1>2 DEF UpOK
<1> QED BY <1>1, <1>2, <1>3

\* A request is taken; if a file is begun now, it is the one of the request.
LEMMA TakeUp ==
  ASSUME NEW s \in Sessions, UpOK(s), Shrunk(up[s], up'[s]), len' = len,
         svc'[s].pc \in Working =>
             \/ svc'[s].file = svc[s].file /\ svc[s].pc \in Working
             \/ up[s][1].id = "SEND" /\ svc'[s].file = up[s][1].file
  PROVE  UpOK(s)'
<1> SUFFICES ASSUME NEW i \in 1..Len(up'[s])
             PROVE  /\ up'[s][i].id = "DATA" => up'[s][i].n <= len[up'[s][i].file]
                    /\ up'[s][i].id # "SEND"
                    /\ svc'[s].pc \in Working => up'[s][i].file = svc'[s].file
  BY DEF UpOK
<1>1. i + 1 \in 1..Len(up[s]) /\ up'[s][i] = up[s][i + 1] /\ i + 1 # 1 /\ 1 \in 1..Len(up[s])
  BY ShrunkAll
<1>2. up[s][1].id = "SEND" => up[s][i + 1].file = up[s][1].file
  BY <1>1 DEF UpOK
<1>3. /\ up[s][i + 1].id = "DATA" => up[s][i + 1].n <= len[up[s][i + 1].file]
      /\ up[s][i + 1].id # "SEND"
      /\ svc[s].pc \in Working => up[s][i + 1].file = svc[s].file
  BY <1>1 DEF UpOK
<1> QED BY <1>1, <1>2, <1>3

LEMMA ServiceUp ==
  ASSUME Shape, \A o \in Sessions : UpOK(o), NEW s \in Sessions, Service(s)
  PROVE  \A o \in Sessions : UpOK(o)'
<1>1. ServiceMove(s) /\ len' = len /\ \A o \in Sessions : o # s => svc'[o] = svc[o]
  BY ServiceMoves, Effects
<1>2. \A o \in Sessions : o # s => up'[o] = up[o]
  BY <1>1 DEF ServiceMove, Took
<1>3. ASSUME NEW o \in Sessions, o # s PROVE UpOK(o)'
  BY <1>1, <1>2, <1>3 DEF UpOK
<1>4. \/ svc'[s].pc \notin Working
      \/ svc'[s].file = svc[s].file /\ svc[s].pc \in Working
      \/ Took(s) /\ Head(up[s]).id = "SEND" /\ svc'[s].file = Head(up[s]).file
  <2>1. CASE Quiet(s)
    BY <2>1 DEF Quiet
  <2>2. ASSUME NEW f \in Files, Starts(s, f)
        PROVE  Took(s) /\ Head(up[s]).id = "SEND" /\ svc'[s].file = Head(up[s]).file
    BY <2>2 DEF Starts, Serving
  <2>3. ASSUME NEW f \in Files, Handles(s, f)
        PROVE  svc'[s].pc \in Working => svc'[s].file = svc[s].file /\ svc[s].pc \in Working
    BY <2>3 DEF Handles, Works
  <2> QED BY <2>1, <2>2, <2>3, Effects
<1>5. Len(up[s]) \in Nat
  BY SessionTypes, EmptyFacts
<1>6. CASE Took(s)
  <2>1. Shrunk(up[s], up'[s])
    BY <1>6, TookUp
  <2>2. Head(up[s]) = up[s][1]
    BY <2>1 DEF Shrunk
  <2>3. UpOK(s)
    OBVIOUS
  <2>4. UpOK(s)'
    BY <1>1, <1>4, <2>1, <2>2, <2>3, TakeUp
  <2> QED BY <1>3, <2>4
<1>7. CASE ~Took(s)
  <2>1. up'[s] = up[s] \/ up'[s] = <<>>
    BY <1>1, <1>7 DEF ServiceMove
  <2>2. Len(<<>>) = 0
    OBVIOUS
  <2>3. Cut(up[s], up'[s])
    BY <1>5, <2>1, <2>2 DEF Cut
  <2>4. UpOK(s)'
    BY <1>1, <1>4, <1>7, <2>3, CutUp
  <2> QED BY <1>3, <2>4
<1> QED BY <1>6, <1>7

\* The sizes.
LEMMA LargerFacts ==
  ASSUME NEW a \in Nat, NEW b \in Nat, NEW c \in Nat
  PROVE  /\ a <= c /\ b <= c => Larger(a, b) <= c
         /\ Larger(a, b) >= b
BY DEF Larger

LEMMA SizeAt ==
  ASSUME Sizes, len' = len, NEW f \in Files, NEW d \in 0..MaxSessions,
         inode'[f][d].new <= len[f], d # 0 => inode'[f][d].size = inode'[f][d].new,
         \A g \in Files, k \in 0..MaxSessions : g # f \/ k # d => inode'[g][k] = inode[g][k]
  PROVE  Sizes'
<1> SUFFICES ASSUME NEW g \in Files, NEW k \in 0..MaxSessions PROVE SizeOK(g, k)'
  BY DEF Sizes
<1>1. CASE g = f /\ k = d
  BY <1>1 DEF SizeOK
<1>2. CASE g # f \/ k # d
  BY <1>2 DEF Sizes, SizeOK
<1> QED BY <1>1, <1>2

LEMMA ServiceSizes ==
  ASSUME Shape, Stock, NEW s \in Sessions, Service(s)
  PROVE  Sizes'
<1>0. inode \in [Files -> [0..MaxSessions -> Inodes]] /\ len \in [Files -> 0..MaxChunks]
      /\ len' = len /\ s \in 0..MaxSessions /\ s # 0
  BY Effects, SessionNumber DEF Shape, FileTypes
<1>1. CASE inode' = inode
  BY <1>0, <1>1 DEF Stock, Sizes, SizeOK
<1>2. CASE Open(s)
  <2> DEFINE f == svc[s].file
  <2>0. f = svc[s].file
    OBVIOUS
  <2> HIDE DEF f
  <2>1. f \in Files /\ (inode' = inode \/ inode' = [inode EXCEPT ![f][s] = Fresh])
    <3>1. \/ UNCHANGED remote
          \/ inode' = IF path[f] = None THEN [inode EXCEPT ![f][s] = Fresh] ELSE inode
      BY <1>2, <2>0, OpenFacts
    <3>2. f \in Files
      BY <1>2, <2>0, OpenFacts
    <3> QED BY <3>1, <3>2 DEF remote
  <2>2. CASE inode' = [inode EXCEPT ![f][s] = Fresh]
    <3>1. inode'[f][s] = Fresh
          /\ \A g \in Files, k \in 0..MaxSessions : g # f \/ k # s => inode'[g][k] = inode[g][k]
      BY ONLY <1>0, <2>1, <2>2
    <3>2. len[f] \in Nat
      BY <1>0, <2>1
    <3>3. inode'[f][s].new <= len[f] /\ inode'[f][s].size = inode'[f][s].new
      BY <3>1, <3>2 DEF Fresh
    <3> QED BY <1>0, <2>1, <3>1, <3>3, SizeAt DEF Stock
  <2> QED BY <1>1, <2>1, <2>2
<1>3. CASE SendPacket(s)
  <2> DEFINE f == svc[s].file
             d == svc[s].fd
             n == Head(up[s]).n
  <2>0. f = svc[s].file /\ d = svc[s].fd /\ n = Head(up[s]).n
    OBVIOUS
  <2> HIDE DEF f, d, n
  <2>1. /\ f \in Files /\ n \in 0..MaxChunks /\ svc[s].pc = "send"
        /\ Took(s) /\ Head(up[s]).id = "DATA"
        /\ inode' = inode \/ (d \in 0..MaxSessions /\ Written(f, d, n))
    BY <1>3, <2>0, SendPacketFacts
  <2>2. CASE d \in 0..MaxSessions /\ Written(f, d, n)
    <3>1. /\ inode'[f][d].new = Larger(inode[f][d].new, n)
          /\ inode'[f][d].size = Larger(inode[f][d].size, n)
          /\ \A g \in Files, k \in 0..MaxSessions : g # f \/ k # d => inode'[g][k] = inode[g][k]
      BY <2>1, <2>2, WrittenType
    <3>2. n <= len[f]
      <4>1. Head(up[s]) = up[s][1] /\ 1 \in 1..Len(up[s])
        BY <2>1, TookUp, ShrunkAll
      <4>2. up[s][1].n <= len[up[s][1].file] /\ up[s][1].file = svc[s].file
        BY <2>1, <4>1 DEF Stock, UpOK, Working
      <4> QED BY <2>0, <4>1, <4>2
    <3>3. n \in Nat /\ len[f] \in Nat /\ inode[f][d].new \in Nat
      <4>1. inode[f][d] \in Inodes
        BY <1>0, <2>1, <2>2
      <4> QED BY <1>0, <2>1, <4>1, SyncAssumption DEF Inodes
    <3>4. SizeOK(f, d)
      BY <2>1, <2>2 DEF Stock, Sizes
    <3>5. inode'[f][d].new <= len[f]
      BY <3>1, <3>2, <3>3, <3>4, LargerFacts DEF SizeOK
    <3>6. d # 0 => inode'[f][d].size = inode'[f][d].new
      BY <3>1, <3>4 DEF SizeOK
    <3> QED BY <1>0, <2>1, <2>2, <3>1, <3>5, <3>6, SizeAt DEF Stock
  <2> QED BY <1>1, <2>1, <2>2
<1>4. CASE SendEnd(s)
  <2> DEFINE f == svc[s].file
             k == path[f]
  <2>0. f = svc[s].file /\ k = path[f]
    OBVIOUS
  <2> HIDE DEF f, k
  <2>1. /\ f \in Files
        /\ inode' = inode \/ (k # None /\ inode' = [inode EXCEPT ![f][k].stamped = TRUE])
    BY <1>4, <2>0, SendEndFacts DEF Stamps
  <2>2. CASE k # None /\ inode' = [inode EXCEPT ![f][k].stamped = TRUE]
    <3>1. k \in 0..MaxSessions
      BY <2>0, <2>1, <2>2 DEF Shape, FileTypes
    <3>2. \A g \in Files, j \in 0..MaxSessions :
             inode'[g][j].new = inode[g][j].new /\ inode'[g][j].size = inode[g][j].size
      BY <2>1, <2>2, <3>1, StampedType
    <3> QED BY <1>0, <3>2 DEF Stock, Sizes, SizeOK
  <2> QED BY <1>1, <2>1, <2>2
<1>5. CASE ~Open(s) /\ ~SendPacket(s) /\ ~SendEnd(s)
  <2>1. inode' = inode
    BY <1>5 DEF Service, do_stat, ListBegin, ListEntry, do_send, RecvBegin, RecvPacket,
                ServiceEnds, remote
  <2> QED BY <1>1, <2>1
<1> QED BY <1>2, <1>3, <1>4, <1>5

\* The client writes m: a request of its own, or one more of the same file.
LEMMA WroteStock ==
  ASSUME Shape, Stock, pc # "idle", UNCHANGED others, NEW m \in Requests, Wrote(m),
         m.id = "DATA" => m.n <= len[m.file],
         m.id = "SEND" => Len(Up) = 0,
         \A i \in 1..Len(Up) : Up[i].id = "SEND" => Up[i].file = m.file,
         Svc.pc \in Working => Svc.file = m.file
  PROVE  Stock'
<1>1. UNCHANGED <<svc, inode, len>> /\ cur \in Sessions
  BY CurSession DEF others, remote, fixed
<1>2. Sizes'
  BY <1>1 DEF Stock, Sizes, SizeOK
<1>3. ASSUME NEW o \in Sessions, up'[o] = up[o] PROVE UpOK(o)'
  BY <1>1, <1>3 DEF Stock, UpOK
<1>4. CASE up'[cur] = up[cur]
  <2>1. \A o \in Sessions : up'[o] = up[o]
    BY <1>4 DEF Wrote
  <2> QED BY <1>2, <1>3, <2>1 DEF Stock
<1>5. CASE up'[cur] # up[cur]
  <2>1. Grown(up[cur], up'[cur], m) /\ \A o \in Sessions : o # cur => up'[o] = up[o]
    <3>1. up[cur] \in Seq(Requests) /\ up'[cur] = Append(up[cur], m)
      BY <1>5, CurSession DEF Wrote
    <3>2. Grown(up[cur], up'[cur], m)
      BY <3>1, AppendFacts DEF Grown
    <3> QED BY <3>2 DEF Wrote
  <2>2. UpOK(cur)
    BY <1>1 DEF Stock
  <2>3. ASSUME NEW s, s = cur PROVE UpOK(s)'
    <3> SUFFICES ASSUME NEW i \in 1..Len(up'[s])
                 PROVE  /\ up'[s][i].id = "DATA" => up'[s][i].n <= len[up'[s][i].file]
                        /\ up'[s][i].id = "SEND" =>
                              i = 1 /\ \A j \in 1..Len(up'[s]) : up'[s][j].file = up'[s][i].file
                        /\ svc'[s].pc \in Working => up'[s][i].file = svc[s].file
      BY <1>1 DEF UpOK
    <3>1. /\ Len(up[s]) \in Nat /\ Len(up'[s]) = Len(up[s]) + 1
          /\ \A j \in 1..Len(up'[s]) : (j \in 1..Len(up[s]) /\ up'[s][j] = up[s][j])
                                       \/ (j = Len(up'[s]) /\ up'[s][j] = m)
      BY <2>1, <2>3, GrownAll
    <3>2. CASE i \in 1..Len(up[s]) /\ up'[s][i] = up[s][i]
      <4>1. /\ up[s][i].id = "DATA" => up[s][i].n <= len[up[s][i].file]
            /\ up[s][i].id = "SEND" =>
                  i = 1 /\ \A j \in 1..Len(up[s]) : up[s][j].file = up[s][i].file
            /\ svc[s].pc \in Working => up[s][i].file = svc[s].file
        BY <2>2, <2>3, <3>2 DEF UpOK
      <4>2. up[s][i].id = "SEND" => m.file = up[s][i].file
        BY <2>3, <3>2 DEF Up
      <4> QED BY <1>1, <3>1, <3>2, <4>1, <4>2
    <3>3. CASE i = Len(up'[s]) /\ up'[s][i] = m
      <4>1. m.id = "SEND" => i = 1 /\ \A j \in 1..Len(up'[s]) : up'[s][j] = m
        BY <2>3, <3>1, <3>3 DEF Up
      <4>2. svc'[s].pc \in Working => m.file = svc[s].file
        BY <1>1, <2>3 DEF Svc
      <4> QED BY <3>3, <4>1, <4>2
    <3> QED BY <3>1, <3>2, <3>3
  <2>4. \A s \in Sessions : UpOK(s)'
    BY <1>3, <2>1, <2>3
  <2> QED BY <1>2, <2>4 DEF Stock
<1> QED BY <1>4, <1>5

LEMMA SameStock ==
  ASSUME Stock, UNCHANGED <<up, svc, inode, len>>
  PROVE  Stock'
BY DEF Stock, Sizes, SizeOK, UpOK

LEMMA ClientStock ==
  ASSUME Shape, Talk, Stock, Client \/ ClientKilled
  PROVE  Stock'
<1>1. UNCHANGED others
  BY DEF Client, ClientKilled, Ask, StatAnswered, Entry, Listed, Skip, SendRequest, SendData,
         SendDone, SendStatus, RecvRequest, RecvData, Quit, ClientFails
<1>2. CASE up' = up
  BY <1>1, <1>2, SameStock DEF others, remote, fixed
<1>3. at \in Files /\ pos \in Nat
  BY DEF Shape, ClientTypes
<1>4. CASE Ask
  <2> DEFINE m == Msg(IF Lists THEN "LIST" ELSE "STAT", at, 0)
  <2>1. m \in Requests /\ m.id \notin {"DATA", "SEND"} /\ Wrote(m)
    BY <1>3, <1>4, AskShape, RequestType, MsgFields
  <2> HIDE DEF m
  <2>2. pc # "idle" /\ StatTalk
    BY <1>4 DEF Ask, Talk, InStat
  <2>3. (\A i \in 1..Len(Up) : Up[i].id # "SEND") /\ Svc.pc \notin Working
    BY <2>2 DEF StatTalk, Working
  <2> QED BY <1>1, <2>1, <2>2, <2>3, WroteStock
<1>5. ASSUME NEW m \in Requests, Wrote(m), pc \in {"copy", "quit"}, m.id # "DATA"
      PROVE  Stock'
  <2>1. pc # "idle" /\ RestTalk
    BY <1>5 DEF Talk, InRest
  <2>2. Len(Up) = 0 /\ Svc.pc \notin Working /\ 1..Len(Up) = {}
    BY <2>1 DEF RestTalk, Working
  <2> QED BY <1>1, <1>5, <2>1, <2>2, WroteStock
<1>6. CASE SendRequest \/ RecvRequest \/ Quit
  <2>1. pc \in {"copy", "quit"} /\ pc # "idle"
    BY <1>6 DEF SendRequest, RecvRequest, Quit
  <2>2. \E m \in Requests : Wrote(m) /\ m.id # "DATA"
    <3>1. \E m \in {Msg("SEND", at, 0), Msg("RECV", at, 0), Msg("QUIT", 0, 0)} : ClientWrites(m)
      BY <1>6 DEF SendRequest, RecvRequest, Quit
    <3>2. /\ Msg("SEND", at, 0) \in Requests /\ Msg("RECV", at, 0) \in Requests
          /\ Msg("QUIT", 0, 0) \in Requests
      BY <1>3, RequestType
    <3>3. /\ Msg("SEND", at, 0).id # "DATA" /\ Msg("RECV", at, 0).id # "DATA"
          /\ Msg("QUIT", 0, 0).id # "DATA"
      BY DEF Msg
    <3> QED BY <2>1, <3>1, <3>2, <3>3, WritesFacts
  <2> QED BY <1>5, <2>1, <2>2
<1>7. ASSUME NEW m \in Requests, Wrote(m), InSend, m.file = at,
             m.id = "DONE" \/ (m.id = "DATA" /\ m.n <= len[at])
      PROVE  Stock'
  <2>1. pc # "idle" /\ SendTalk
    BY <1>7 DEF Talk, InSend
  <2> QED BY <1>1, <1>7, <2>1, WroteStock DEF SendTalk
<1>8. CASE SendData
  <2>1. pc = "data" /\ pos < len[at]
        /\ (ClientWrites(Msg("DATA", at, pos + 1)) \/ up' = up)
    BY <1>8 DEF SendData, HasMore
  <2> DEFINE m == Msg("DATA", at, pos + 1)
  <2>2. m \in Requests /\ m.file = at /\ m.id = "DATA" /\ m.n = pos + 1
    <3>1. pos + 1 \in Nat /\ pos + 1 <= MaxChunks
      BY <2>1, TalkTypes
    <3> QED BY <1>3, <3>1, RequestType, MsgFields
  <2>3. Wrote(m) \/ up' = up
    BY <2>1, <2>2, WritesFacts
  <2> HIDE DEF m
  <2>4. m.n <= len[at]
    BY <2>1, <2>2, TalkTypes
  <2> QED BY <1>2, <1>7, <2>1, <2>2, <2>3, <2>4 DEF InSend
<1>9. CASE SendDone
  <2>1. pc \in {"data", "done"} /\ ClientWrites(Msg("DONE", at, pos))
    BY <1>9 DEF SendDone
  <2>2. Msg("DONE", at, pos) \in Requests /\ Msg("DONE", at, pos).file = at
        /\ Msg("DONE", at, pos).id = "DONE"
    BY <1>3, RequestType, MsgFields
  <2>3. Wrote(Msg("DONE", at, pos))
    BY <2>1, <2>2, WritesFacts
  <2> QED BY <1>7, <2>1, <2>2, <2>3 DEF InSend
<1>10. CASE up' # up /\ ~Ask /\ ~SendRequest /\ ~RecvRequest /\ ~Quit /\ ~SendData /\ ~SendDone
  BY <1>10 DEF Client, ClientKilled, StatAnswered, Entry, Listed, Skip, SendStatus, RecvData,
               ClientFails
<1> QED BY <1>2, <1>4, <1>6, <1>8, <1>9, <1>10

LEMMA StockStep == Shape /\ Talk /\ Stock /\ [Next]_vars => Stock'
<1> SUFFICES ASSUME Shape, Talk, Stock, [Next]_vars PROVE Stock'
  OBVIOUS
<1>1. ASSUME NEW c \in Commands, Begin(c) PROVE Stock'
  <2>1. /\ UNCHANGED <<up, inode, len>> /\ svc' = [svc EXCEPT ![cur + 1] = Waiting]
        /\ cur < MaxSessions
    BY <1>1 DEF Begin, remote, fixed
  <2>2. \A s \in Sessions : svc'[s] = svc[s] \/ svc'[s] = Waiting
    BY <2>1 DEF Shape, StreamTypes
  <2>3. \A s \in Sessions : svc'[s] = svc[s] \/ svc'[s].pc \notin Working
    BY <2>2, ClosedType DEF Working
  <2> QED BY <2>1, <2>3 DEF Stock, Sizes, SizeOK, UpOK
<1>2. CASE Client \/ ClientKilled
  BY <1>2, ClientStock
<1>3. ASSUME NEW s \in Sessions, Service(s) PROVE Stock'
  BY <1>3, ServiceUp, ServiceSizes DEF Stock
<1>4. ASSUME NEW s \in Sessions, LinkDown(s) PROVE Stock'
  <2>1. Shortened(s) /\ UNCHANGED <<svc, inode, len>>
    BY <1>4, LinkDownShape DEF LinkDown, remote, fixed
  <2>2. Cut(up[s], up'[s])
    <3>1. up[s] \in Seq(Requests)
      BY SessionTypes
    <3>2. PICK n \in 0..Len(up[s]) : up'[s] = SubSeq(up[s], 1, n)
      BY <2>1 DEF Shortened
    <3> QED BY <3>1, <3>2, PrefixFacts DEF Cut
  <2>3. UpOK(s)'
    BY <2>1, <2>2, CutUp DEF Stock
  <2>4. ASSUME NEW o \in Sessions, o # s PROVE UpOK(o)'
    <3>1. up'[o] = up[o]
      BY <2>1, <2>4 DEF Shortened
    <3> QED BY <2>1, <3>1 DEF Stock, UpOK
  <2> QED BY <2>1, <2>3, <2>4 DEF Stock, Sizes, SizeOK
<1>5. CASE UNCHANGED vars
  BY <1>5, SameStock DEF vars
<1> QED BY <1>1, <1>2, <1>3, <1>4, <1>5 DEF Next

LEMMA InitStock == Init => Stock
<1> SUFFICES ASSUME Init PROVE Stock
  OBVIOUS
<1>1. \A s \in Sessions : 1..Len(up[s]) = {}
  BY DEF Init
<1>2. ASSUME NEW f \in Files, NEW k \in 0..MaxSessions PROVE SizeOK(f, k)
  <2>1. inode[f][k] = IF k = 0 THEN [Fresh EXCEPT !.size = MaxChunks] ELSE Fresh
    BY DEF Init
  <2>2. inode[f][k].new = 0 /\ (k # 0 => inode[f][k].size = 0)
    BY <2>1 DEF Fresh
  <2>3. len[f] \in Nat
    BY SyncAssumption DEF Init
  <2> QED BY <2>2, <2>3 DEF SizeOK
<1> QED BY <1>1, <1>2 DEF Stock, Sizes, UpOK

-----------------------------------------------------------------------------
(* What a command has done when it ends well. *)

\* A file that is not to be copied is complete already.
FlagInv ==
    cmd \in Pushes /\ pc # "idle" =>
        /\ \A f \in Files : f \notin contested /\ flag[f] => Complete(f)
        /\ InSend => ~flag[at]

\* An answer that will make it so is still true when it arrives.
StatInv ==
    cmd = "sync" /\ InStat =>
        \A i \in 1..Len(Down) :
            Down[i].n = Same /\ Down[i].file \notin contested => Complete(Down[i].file)

\* A file that was not read to its end has been complained about; OKAY under way
\* means a complete file.
SendInv ==
    InSend =>
        /\ pc = "done" => told
        /\ pc = "status" /\ ~told => pos = len[at]
        /\ \A i \in 1..Len(Down) :
              Down[i].id = "OKAY" /\ ~told /\ at \notin contested => Complete(at)

\* Packets under way, without DONE.
Left == IF pc = "status" THEN Len(Up) - 1 ELSE Len(Up)

\* The packets of a file are under way or written, in order and without a gap.
SeqInv ==
    InSend /\ ~Broken(cur) =>
        /\ \A i \in 1..Len(Up) :
              /\ Up[i].id # "DONE" => Up[i].n = pos - Left + i
              /\ Up[i].id = "SEND" => Up[i].n = 0
        /\ Svc.pc = "open" => pos = Left
        /\ Svc.pc = "send" /\ Svc.fd # None =>
              /\ Svc.n = pos - Left
              /\ at \notin contested => inode[at][Svc.fd].new >= Svc.n

\* The file that is read is the one that the path names, and DONE under way means
\* that all of it was.
RecvInv ==
    InRecv /\ at \notin contested =>
        /\ Svc.pc = "recv" => Svc.fd = path[at] /\ NoWorker(at) /\ Svc.n <= At(at).size
        /\ Finished({"DONE"}) =>
              path[at] # None /\ NoWorker(at) /\ pos + Len(Down) - 1 = At(at).size

\* The files that the command has dealt with.
Copied ==
    IF pc \in {"quit", "idle"} THEN 1..CopyEnd
    ELSE IF pc \in {"ask", "answer"} THEN {} ELSE 1..(at - 1)

DoneInv ==
    ~told /\ cur > 0 /\ (pc = "idle" => exit = 0) =>
        \A f \in Copied : f \notin contested =>
            /\ cmd \in Pushes => Complete(f)
            /\ cmd \in Pulls /\ ~flag[f] => Pulled(f)

\* A command that has ended well has left nothing to do.
QuitInv ==
    pc = "idle" /\ exit = 0 /\ cur > 0 =>
        Svc.pc \in {"wait", "closed"} /\ \A i \in 1..Len(Up) : Up[i].id = "QUIT"

Faith ==
    FlagInv /\ StatInv /\ SendInv /\ SeqInv /\ RecvInv /\ DoneInv /\ QuitInv

\* Nobody else begins a file unnoticed.
LEMMA Undisturbed ==
  ASSUME Shape, NEW s \in Sessions, Service(s), NEW f \in Files, NoWorker(f),
         f \notin contested', ~(s = cur /\ Starts(s, f))
  PROVE  /\ NoWorker(f)' /\ path'[f] = path[f] /\ inode'[f] = inode[f]
         /\ At(f)' = At(f) /\ len' = len /\ f \notin contested
<1>1. /\ contested \subseteq contested' /\ len' = len
      /\ \A o \in Sessions : o # s => svc'[o] = svc[o]
      /\ Quiet(s) \/ \E g \in Files : Starts(s, g) \/ Handles(s, g)
  BY Effects
<1>2. \A o \in Sessions : o # s => ~Works(o, f)'
  BY <1>1 DEF NoWorker, Works
<1>3. ~Works(s, f)
  BY DEF NoWorker
<1>4. path'[f] = path[f] /\ inode'[f] = inode[f] /\ ~Works(s, f)'
  <2>1. CASE Quiet(s)
    BY <2>1 DEF Quiet, Works
  <2>2. ASSUME NEW g \in Files, Starts(s, g)
        PROVE  path'[f] = path[f] /\ inode'[f] = inode[f] /\ ~Works(s, f)'
    <3>1. f # g
      <4>1. CASE s # cur
        BY <2>2, <4>1, ContestType DEF Starts, Cleared
      <4>2. CASE s = cur
        BY <2>2, <4>2
      <4> QED BY <4>1, <4>2
    <3>2. svc'[s].file = g
      BY <2>2 DEF Starts, Serving
    <3>3. path'[f] = path[f] /\ inode'[f] = inode[f]
      BY <2>2, <3>1, UnlinkType DEF Starts, Cleared
    <3> QED BY <3>1, <3>2, <3>3 DEF Works
  <2>3. ASSUME NEW g \in Files, Handles(s, g)
        PROVE  path'[f] = path[f] /\ inode'[f] = inode[f] /\ ~Works(s, f)'
    <3>1. f # g
      BY <1>3, <2>3 DEF Handles
    <3> QED BY <2>3, <3>1 DEF Handles, Works
  <2> QED BY <1>1, <2>1, <2>2, <2>3
<1>5. NoWorker(f)'
  BY <1>2, <1>4 DEF NoWorker
<1> QED BY <1>1, <1>4, <1>5 DEF At

LEMMA StaysComplete ==
  ASSUME Shape, NEW s \in Sessions, Service(s), NEW f \in Files, Complete(f),
         f \notin contested', ~(s = cur /\ Starts(s, f))
  PROVE  Complete(f)'
<1>1. NoWorker(f)
  BY DEF Complete
<1> QED BY <1>1, Undisturbed DEF Complete

\* The service of the client's own session begins only the file that is sent.
LEMMA OwnStarts ==
  ASSUME Shape, Talk, QuitInv, NEW f, Starts(cur, f), cur \in Sessions, pc = "idle" => exit = 0
  PROVE  InSend /\ f = at
<1>1. Svc.pc = "wait" /\ Len(Up) > 0 /\ 1 \in 1..Len(Up) /\ Up[1].id = "SEND" /\ Up[1].file = f
  <2>1. Shrunk(up[cur], up'[cur])
    BY TookUp DEF Starts
  <2>2. Len(Up) > 0 /\ 1 \in 1..Len(Up) /\ Head(up[cur]) = Up[1]
    BY <2>1, ShrunkAll DEF Up
  <2> QED BY <2>2 DEF Starts, Svc
<1>2. pc # "idle"
  BY <1>1 DEF QuitInv, Sessions
<1>3. InSend /\ SendTalk
  BY <1>1, <1>2, PhaseOfRequest
<1> QED BY <1>1, <1>3 DEF SendTalk

\* What a step of a service leaves alone.
LEMMA ServiceFrame ==
  ASSUME Shape, NEW s \in Sessions, Service(s)
  PROVE  /\ UNCHANGED <<pc, cmd, cur, at, pos, flag, told, exit, lcopy, cut, len, special>>
         /\ cur \in Sessions
         /\ CopyEnd' = CopyEnd /\ Copied' = Copied /\ (Lists' <=> Lists)
         /\ (InStat' <=> InStat) /\ (InSend' <=> InSend) /\ (InRecv' <=> InRecv)
         /\ contested \subseteq contested' /\ svc[s].pc # "closed"
         /\ s # cur => up'[cur] = up[cur] /\ down'[cur] = down[cur] /\ svc'[cur] = svc[cur]
<1>1. ServiceMove(s)
  BY ServiceMoves
<1>2. UNCHANGED <<pc, cmd, cur, at, pos, flag, told, exit, lcopy, cut, len, special>>
  BY <1>1 DEF ServiceMove, client, fixed
<1>3. cur \in Sessions
  BY <1>1, SessionTypes DEF ServiceMove, Sessions, Shape, ClientTypes
<1>4. /\ CopyEnd' = CopyEnd /\ Copied' = Copied /\ (Lists' <=> Lists)
      /\ (InStat' <=> InStat) /\ (InSend' <=> InSend) /\ (InRecv' <=> InRecv)
  BY <1>2 DEF CopyEnd, Copied, Lists, InStat, InSend, InRecv
<1>5. s # cur => up'[cur] = up[cur] /\ down'[cur] = down[cur] /\ svc'[cur] = svc[cur]
  BY <1>1, <1>3 DEF ServiceMove, Took, Told, Turns
<1>6. contested \subseteq contested' /\ svc[s].pc # "closed"
  BY <1>1, Effects DEF ServiceMove
<1> QED BY <1>2, <1>3, <1>4, <1>5, <1>6

LEMMA ServiceFlags ==
  ASSUME Shape, Talk, Faith, NEW s \in Sessions, Service(s)
  PROVE  FlagInv'
<1>1. /\ UNCHANGED <<pc, cmd, cur, at, flag>> /\ (InSend' <=> InSend) /\ cur \in Sessions
      /\ contested \subseteq contested'
  BY ServiceFrame
<1> SUFFICES ASSUME cmd \in Pushes, pc # "idle", NEW f \in Files, f \notin contested', flag[f]
             PROVE  Complete(f)'
  BY <1>1 DEF FlagInv, Faith
<1>2. Complete(f) /\ (InSend => ~flag[at])
  BY <1>1 DEF FlagInv, Faith
<1>3. ~(s = cur /\ Starts(s, f))
  <2> SUFFICES ASSUME s = cur, Starts(s, f) PROVE FALSE
    OBVIOUS
  <2>1. InSend /\ f = at
    BY <1>1, OwnStarts DEF Faith
  <2> QED BY <1>2, <2>1
<1> QED BY <1>2, <1>3, StaysComplete

LEMMA ServiceDone ==
  ASSUME Shape, Talk, Faith, NEW s \in Sessions, Service(s)
  PROVE  DoneInv'
<1>1. /\ UNCHANGED <<pc, cmd, cur, at, flag, told, exit, lcopy>> /\ cur \in Sessions
      /\ contested \subseteq contested' /\ Copied' = Copied
  BY ServiceFrame
<1> SUFFICES ASSUME ~told, cur > 0, pc = "idle" => exit = 0, NEW f \in Copied, f \notin contested'
             PROVE  /\ cmd \in Pushes => Complete(f)'
                    /\ cmd \in Pulls /\ ~flag[f] => Pulled(f)'
  BY <1>1 DEF DoneInv
<1>2. /\ cmd \in Pushes => Complete(f)
      /\ cmd \in Pulls /\ ~flag[f] => Pulled(f)
  BY <1>1 DEF DoneInv, Faith
<1>3. f \in Files
  <2>1. at \in Nat /\ at <= NumFiles /\ CopyEnd \in Nat /\ CopyEnd <= NumFiles /\ NumFiles \in Nat
    <3>1. CopyEnd \in Files /\ at \in Files /\ NumFiles \in Nat
      BY ListEnds, SyncAssumption DEF Shape, ClientTypes
    <3> QED BY <3>1 DEF Files
  <2>2. f \in 1..CopyEnd \/ f \in 1..(at - 1)
    BY DEF Copied
  <2> QED BY ONLY <2>1, <2>2 DEF Files
<1>4. ~(s = cur /\ Starts(s, f))
  <2> SUFFICES ASSUME s = cur, Starts(s, f) PROVE FALSE
    OBVIOUS
  <2>1. InSend /\ f = at
    BY <1>1, OwnStarts DEF Faith
  <2>2. Copied = 1..(at - 1) /\ at \in Nat
    BY <2>1 DEF Copied, InSend, Shape, ClientTypes, Files
  <2>3. at \notin 1..(at - 1)
    BY <2>2
  <2> QED BY <2>1, <2>2, <2>3
<1>5. CASE cmd \in Pushes
  BY <1>2, <1>3, <1>4, <1>5, StaysComplete DEF Pushes, Pulls
<1>6. CASE cmd \in Pulls /\ ~flag[f]
  <2>1. Pulled(f) /\ cmd \notin Pushes
    BY <1>2, <1>6 DEF Pushes, Pulls
  <2>2. NoWorker(f)' /\ path'[f] = path[f] /\ At(f)' = At(f)
    BY <1>3, <1>4, <2>1, Undisturbed DEF Pulled
  <2> QED BY <1>1, <2>1, <2>2 DEF Pulled
<1> QED BY <1>5, <1>6

LEMMA ServiceQuit ==
  ASSUME Shape, Faith, NEW s \in Sessions, Service(s)
  PROVE  QuitInv'
<1>1. /\ UNCHANGED <<pc, cur, exit>> /\ svc[s].pc # "closed"
      /\ s # cur => up'[cur] = up[cur] /\ svc'[cur] = svc[cur]
  BY ServiceFrame
<1> SUFFICES ASSUME pc = "idle", exit = 0, cur > 0
             PROVE  /\ svc'[cur].pc \in {"wait", "closed"}
                    /\ \A i \in 1..Len(up'[cur]) : up'[cur][i].id = "QUIT"
  BY <1>1 DEF QuitInv, Svc, Up
<1>2. svc[cur].pc \in {"wait", "closed"} /\ \A i \in 1..Len(up[cur]) : up[cur][i].id = "QUIT"
  BY DEF QuitInv, Svc, Up, Faith
<1>3. CASE s # cur
  BY <1>1, <1>2, <1>3
<1>4. CASE s = cur
  <2>1. svc[s].pc = "wait" /\ (up[s] # <<>> => Head(up[s]).id = "QUIT")
    <3>1. up[s] # <<>> => Head(up[s]) = up[s][1] /\ Len(up[s]) \in Nat /\ Len(up[s]) # 0
      BY SessionTypes, EmptyFacts
    <3>2. up[s] # <<>> => 1 \in 1..Len(up[s])
      BY <3>1
    <3> QED BY <1>1, <1>2, <1>4, <3>1, <3>2
  <2>2. ServiceEnds(s)
    BY <2>1 DEF Service, do_stat, ListBegin, ListEntry, do_send, Open, SendPacket, SendEnd,
                RecvBegin, RecvPacket, Request, Sending
  <2>3. up'[s] = <<>> /\ svc'[s] = Closed
    BY <2>2, ServiceEndsFacts DEF Turns
  <2> QED BY <1>4, <2>3, ClosedType
<1> QED BY <1>3, <1>4

\* Size and time agree only if the file was sent to its end.
LEMMA SameComplete ==
  ASSUME Shape, FileInv, Stock, NEW f \in Files, f \notin contested, StatOf(f) = Same
  PROVE  Complete(f)
<1>1. FileOK(f)
  BY DEF FileInv
<1>2. path[f] # None /\ At(f).stamped /\ f \notin special /\ At(f).size = len[f]
  BY DEF StatOf, Same, Missing, Differs, OtherSize
<1>3. path[f] # 0 /\ path[f] \in 0..MaxSessions
  BY <1>1, <1>2 DEF FileOK, Shape, FileTypes
<1>4. SizeOK(f, path[f])
  BY <1>3 DEF Stock, Sizes
<1>5. At(f).new = len[f]
  BY <1>2, <1>3, <1>4 DEF SizeOK, At
<1>6. \A s \in Sessions : ~Works(s, f)
  BY <1>1, <1>2 DEF FileOK, Held, At
<1> QED BY <1>2, <1>5, <1>6 DEF Complete, NoWorker

LEMMA ServiceStat ==
  ASSUME Shape, Talk, FileInv, Stock, Faith, NEW s \in Sessions, Service(s)
  PROVE  StatInv'
<1>1. /\ UNCHANGED <<pc, cmd, cur>> /\ (InStat' <=> InStat) /\ cur \in Sessions
      /\ contested \subseteq contested' /\ svc[s].pc # "closed"
      /\ s # cur => down'[cur] = down[cur]
  BY ServiceFrame
<1> SUFFICES ASSUME cmd = "sync", InStat,
                    NEW i \in 1..Len(down'[cur]), NEW f, f = down'[cur][i].file,
                    down'[cur][i].n = Same, f \notin contested'
             PROVE  Complete(f)'
  BY <1>1 DEF StatInv, Down
<1>2. StatTalk /\ ~InSend /\ pc # "idle"
  BY DEF Talk, InStat, InSend
<1>3. ~(s = cur /\ Starts(s, f))
  BY <1>1, <1>2, OwnStarts DEF Faith
<1>4. f \notin contested
  BY <1>1
<1>5. ASSUME i \in 1..Len(Down), down'[cur][i] = Down[i] PROVE Complete(f)'
  <2>1. Complete(f)
    BY <1>4, <1>5 DEF StatInv, Faith
  <2>2. f \in Files
    <3>1. f = Base + i /\ Base + Len(Down) + Len(Up) <= Asked
      BY <1>2, <1>5 DEF StatTalk
    <3>2. Base \in Nat /\ Asked \in Nat /\ Asked <= NumFiles /\ Len(Down) \in Nat /\ Len(Up) \in Nat
      <4>1. Len(Down) \in Nat /\ Len(Up) \in Nat
        BY <1>2, CurSession, EmptyFacts DEF Up, Down
      <4>2. StatEnd \in Nat /\ StatEnd <= NumFiles /\ NumFiles \in Nat
        BY ListEnds, TalkTypes DEF Files
      <4>3. at \in Nat /\ at >= 1 /\ at <= NumFiles
        BY TalkTypes
      <4> QED BY ONLY <4>1, <4>2, <4>3 DEF Base, Asked
    <3>3. i \in 1..Len(Down) /\ NumFiles \in Nat
      BY <1>5, SyncAssumption
    <3> QED BY ONLY <3>1, <3>2, <3>3 DEF Files
  <2> QED BY <1>3, <2>1, <2>2, StaysComplete
<1>6. CASE s # cur
  BY <1>1, <1>5, <1>6 DEF Down
<1>7. CASE s = cur
  <2>1. svc[s].pc = "wait" /\ (up[s] # <<>> => Head(up[s]).id = "STAT")
    <3>1. up[s] # <<>> => Head(up[s]) = up[s][1] /\ Len(up[s]) \in Nat /\ Len(up[s]) # 0
      BY SessionTypes, EmptyFacts
    <3>2. up[s] # <<>> => 1 \in 1..Len(up[s])
      BY <3>1
    <3> QED BY <1>1, <1>2, <1>7, <3>1, <3>2 DEF StatTalk, Up, Svc
  <2>2. do_stat(s) \/ ServiceEnds(s)
    BY <2>1 DEF Service, ListBegin, ListEntry, do_send, Open, SendPacket, SendEnd,
                RecvBegin, RecvPacket, Request, Sending
  <2>3. CASE ServiceEnds(s)
    <3>1. down' = down
      BY <2>3, ServiceEndsFacts
    <3> QED BY <1>5, <3>1 DEF Down
  <2>4. CASE do_stat(s)
    <3> DEFINE g == Head(up[s]).file
               m == Msg("STAT", g, StatOf(g))
    <3>1. Told(s, <<m>>) /\ g \in Files /\ StatOf(g) \in 0..3
      BY <2>4, do_statFacts
    <3>2. m \in Answers /\ m.file = g /\ m.n = StatOf(g)
      BY <3>1, AnswerType, MsgFields
    <3> HIDE DEF g, m
    <3>3. down'[cur] = down[cur] \/ Grown(down[cur], down'[cur], m)
      BY <1>2, <1>7, <3>1, <3>2, ToldDown
    <3>4. CASE i \in 1..Len(Down) /\ down'[cur][i] = Down[i]
      BY <1>5, <3>4
    <3>5. CASE down'[cur][i] = m
      <4>1. f = g /\ StatOf(g) = Same
        BY <3>2, <3>5
      <4>2. Complete(f)
        BY <1>4, <3>1, <4>1, SameComplete
      <4> QED BY <1>3, <3>1, <4>1, <4>2, StaysComplete
    <3> QED BY <3>3, <3>4, <3>5, GrownAll DEF Down
  <2> QED BY <2>2, <2>3, <2>4
<1> QED BY <1>6, <1>7

\* DONE is the last answer, and none is under way while the file is read.
LEMMA NotFinished ==
  ASSUME Shape, Talk, InRecv, Svc.pc = "recv" \/ Len(Up) > 0
  PROVE  ~Finished({"DONE"})
<1>1. pc # "idle" /\ RecvTalk
  BY DEF Talk, InRecv
<1>2. Len(Down) \in Nat
  BY <1>1, CurSession, EmptyFacts DEF Down
<1>3. Len(Up) > 0 => Len(Down) = 0
  BY <1>1 DEF RecvTalk
<1>4. CASE Len(Down) > 0
  <2>1. Len(Down) \in 1..Len(Down) /\ Svc.pc = "recv"
    BY <1>2, <1>3, <1>4
  <2> QED BY <1>1, <2>1 DEF RecvTalk, Finished
<1>5. CASE ~(Len(Down) > 0)
  BY <1>5 DEF Finished
<1> QED BY <1>4, <1>5

LEMMA RecvBeginFaith ==
  ASSUME Shape, Talk, InRecv, NEW s \in Sessions, s = cur, RecvBegin(s), Service(s),
         NEW a, a = at, a \notin contested'
  PROVE  RecvInv'
<1> DEFINE f == Head(up[s]).file
<1>0. f = Head(up[s]).file
  OBVIOUS
<1> HIDE DEF f
<1>1. pc # "idle" /\ RecvTalk
  BY DEF Talk, InRecv
<1>2. /\ Took(s) /\ svc[s].pc = "wait" /\ f \in Files /\ Contest(s, f)
      /\ UNCHANGED <<client, cut, path, inode, stuck, fixed>>
      /\ \/ /\ Told(s, <<Msg("FAIL", f, 0)>>)
            /\ \/ Turns(s, Waiting)
               \/ (cut[s] \/ ClientGone(s)) /\ Turns(s, Closed)
         \/ path[f] # None /\ Turns(s, Serving("recv", f, path[f])) /\ UNCHANGED down
  BY <1>0, RecvBeginFacts
<1>3. Len(Up) > 0 /\ f = a
  <2>1. Shrunk(up[s], up'[s])
    BY <1>2, TookUp
  <2>2. Len(Up) > 0 /\ 1 \in 1..Len(Up) /\ Head(up[s]) = Up[1]
    BY <2>1, ShrunkAll DEF Up
  <2> QED BY <1>0, <1>1, <2>2 DEF RecvTalk
<1>4. ~Finished({"DONE"}) /\ Len(Down) = 0
  BY <1>1, <1>3, NotFinished DEF RecvTalk
<1>5. UNCHANGED <<pc, at, pos, cur>>
  BY <1>2 DEF client
<1>6. NoWorker(a)
  <2>1. \A o \in Sessions : o # s => ~Works(o, a)
    BY <1>2, <1>3, ContestType DEF Works
  <2>2. ~Works(s, a)
    BY <1>2 DEF Works, Working
  <2> QED BY <2>1, <2>2 DEF NoWorker
<1>7. ~Starts(s, a)
  BY <1>2 DEF Starts, Turns, Serving, Waiting, Closed
<1>8. NoWorker(a)' /\ At(a)' = At(a) /\ path'[a] = path[a]
  BY <1>2, <1>3, <1>6, <1>7, Undisturbed
<1>9. ~Finished({"DONE"})'
  <2>1. CASE UNCHANGED down
    BY <1>4, <1>5, <2>1 DEF Finished, Down
  <2>2. CASE Told(s, <<Msg("FAIL", f, 0)>>)
    <3> DEFINE m == Msg("FAIL", f, 0)
    <3>1. m \in Answers /\ m.id = "FAIL"
      BY <1>2, AnswerType, MsgFields
    <3> HIDE DEF m
    <3>2. down'[cur] = down[cur] \/ Grown(down[cur], down'[cur], m)
      BY <1>1, <2>2, <3>1, ToldDown DEF m
    <3>3. CASE down'[cur] = down[cur]
      BY <1>4, <1>5, <3>3 DEF Finished, Down
    <3>4. CASE Grown(down[cur], down'[cur], m)
      <4>1. Down'[Len(Down')] = m
        BY <1>5, <3>4, GrownAll DEF Down
      <4> QED BY <3>1, <4>1 DEF Finished
    <3> QED BY <3>2, <3>3, <3>4
  <2> QED BY <1>2, <2>1, <2>2
<1>10. Svc'.pc = "recv" => Svc'.fd = path'[a] /\ Svc'.n <= At(a)'.size
  <2> SUFFICES ASSUME Svc'.pc = "recv" PROVE Svc'.fd = path'[a] /\ Svc'.n <= At(a)'.size
    OBVIOUS
  <2>1. svc'[s] = Serving("recv", f, path[f]) /\ path[f] # None
    BY <1>2, <1>5, ClosedType DEF Turns, Svc
  <2>2. Svc'.fd = path[a] /\ Svc'.n = 0
    BY <1>3, <1>5, <2>1 DEF Svc, Serving
  <2>3. path[a] \in 0..MaxSessions
    BY <1>2, <1>3, <2>1 DEF Shape, FileTypes
  <2>4. inode[a][path[a]] \in Inodes
    BY <1>2, <1>3, <2>3 DEF Shape, FileTypes
  <2>5. At(a).size \in Nat
    BY <2>4, SyncAssumption DEF At, Inodes
  <2> QED BY <1>8, <2>2, <2>5
<1>11. at' = a
  BY <1>5
<1> QED BY <1>8, <1>9, <1>10, <1>11 DEF RecvInv, At

LEMMA RecvPacketFaith ==
  ASSUME Shape, Talk, Faith, InRecv, NEW s \in Sessions, s = cur, RecvPacket(s), Service(s),
         NEW a, a = at, a \notin contested'
  PROVE  RecvInv'
<1> DEFINE f == svc[s].file
           n == svc[s].n
           d == svc[s].fd
<1>0. f = svc[s].file /\ n = svc[s].n /\ d = svc[s].fd
  OBVIOUS
<1> HIDE DEF f, n, d
<1>1. pc # "idle" /\ RecvTalk /\ Svc = svc[s]
  BY DEF Talk, InRecv, Svc
<1>2. /\ svc[s].pc = "recv" /\ f \in Files /\ d \in 0..MaxSessions /\ n \in 0..MaxChunks
      /\ UNCHANGED <<client, up, cut, remote, fixed>>
      /\ \/ /\ n < inode[f][d].size
            /\ Told(s, <<Msg("DATA", f, n + 1)>>)
            /\ Turns(s, [svc[s] EXCEPT !.n = n + 1])
         \/ /\ n >= inode[f][d].size
            /\ Told(s, <<Msg("DONE", f, n)>>) /\ Turns(s, Waiting)
         \/ Told(s, <<Msg("FAIL", f, 0)>>) /\ Turns(s, Waiting)
  BY <1>0, RecvPacketFacts
<1>3. f = a /\ a \in Files /\ UNCHANGED <<pc, at, pos, cur, path, inode, contested>>
  BY <1>0, <1>1, <1>2 DEF RecvTalk, client, remote
<1>4. d = path[a] /\ NoWorker(a) /\ n <= At(a).size
  BY <1>0, <1>1, <1>2, <1>3 DEF RecvInv, Faith
<1>5. At(a) = inode[f][d] /\ At(a).size \in Nat /\ n \in Nat /\ path[a] # None
  <2>1. inode[f][d] \in Inodes
    BY <1>2 DEF Shape, FileTypes
  <2>2. At(a) = inode[f][d]
    BY <1>3, <1>4 DEF At
  <2> QED BY <1>2, <1>4, <2>1, <2>2, SyncAssumption DEF Inodes, None
<1>6. ~Finished({"DONE"})
  BY <1>1, <1>2, NotFinished
<1>7. ~Starts(s, a)
  BY <1>2 DEF Starts
<1>8. NoWorker(a)' /\ At(a)' = At(a) /\ path'[a] = path[a]
  BY <1>3, <1>4, <1>7, Undisturbed
<1>9. ASSUME NEW m \in Answers, Told(s, <<m>>)
      PROVE  \/ cut[s] /\ ~Finished({"DONE"})'
             \/ ~cut[s] /\ Len(Down) \in Nat /\ Len(Down') = Len(Down) + 1 /\ Down'[Len(Down')] = m
  <2>1. (cut[cur] /\ down'[cur] = down[cur]) \/ (~cut[cur] /\ Grown(down[cur], down'[cur], m))
    BY <1>1, <1>9, ToldDown
  <2>2. CASE cut[cur] /\ down'[cur] = down[cur]
    BY <1>3, <1>6, <2>2 DEF Finished, Down
  <2>3. CASE ~cut[cur] /\ Grown(down[cur], down'[cur], m)
    BY <1>3, <2>3, GrownAll DEF Down
  <2> QED BY <2>1, <2>2, <2>3
<1>10. CASE n < inode[f][d].size /\ Told(s, <<Msg("DATA", f, n + 1)>>)
            /\ Turns(s, [svc[s] EXCEPT !.n = n + 1])
  <2> DEFINE m == Msg("DATA", f, n + 1)
  <2>1. m \in Answers /\ m.id = "DATA"
    BY <1>2, <1>5, AnswerType, MsgFields
  <2>2. ~Finished({"DONE"})'
    BY <1>9, <1>10, <2>1 DEF Finished
  <2>3. svc[s] \in Services
    BY SessionTypes
  <2>4. Svc'.fd = d /\ Svc'.n = n + 1
    BY <1>0, <1>3, <1>10, <2>3 DEF Turns, Svc, Services
  <2>5. n + 1 <= At(a)'.size
    BY <1>5, <1>8, <1>10
  <2> QED BY <1>3, <1>4, <1>8, <2>2, <2>4, <2>5 DEF RecvInv, At
<1>11. CASE n >= inode[f][d].size /\ Told(s, <<Msg("DONE", f, n)>>) /\ Turns(s, Waiting)
  <2> DEFINE m == Msg("DONE", f, n)
  <2>1. m \in Answers /\ m.id = "DONE"
    BY <1>2, <1>5, AnswerType, MsgFields
  <2>2. Svc'.pc = "wait"
    BY <1>3, <1>11, ClosedType DEF Turns, Svc
  <2>3. n = At(a).size
    BY <1>4, <1>5, <1>11
  <2>4. CASE ~Finished({"DONE"})'
    BY <2>2, <2>4 DEF RecvInv
  <2>5. CASE ~cut[s] /\ Len(Down) \in Nat /\ Len(Down') = Len(Down) + 1
    <3>1. ~Broken(cur)
      BY <1>2, <2>5 DEF Broken
    <3>2. n = pos + Len(Down) /\ pos \in Nat
      BY <1>0, <1>1, <1>2, <3>1 DEF RecvTalk, Shape, ClientTypes
    <3>3. pos + Len(Down') - 1 = n
      BY ONLY <2>5, <3>2
    <3> QED BY <1>3, <1>5, <1>8, <2>2, <2>3, <3>3 DEF RecvInv, At
  <2> QED BY <1>9, <1>11, <2>1, <2>4, <2>5
<1>12. CASE Told(s, <<Msg("FAIL", f, 0)>>) /\ Turns(s, Waiting)
  <2> DEFINE m == Msg("FAIL", f, 0)
  <2>1. m \in Answers /\ m.id = "FAIL"
    BY <1>2, <1>5, AnswerType, MsgFields
  <2>2. ~Finished({"DONE"})'
    BY <1>9, <1>12, <2>1 DEF Finished
  <2>3. Svc'.pc = "wait"
    BY <1>3, <1>12, ClosedType DEF Turns, Svc
  <2> QED BY <2>2, <2>3 DEF RecvInv
<1> QED BY <1>2, <1>10, <1>11, <1>12

LEMMA ServiceRecv ==
  ASSUME Shape, Talk, Faith, NEW s \in Sessions, Service(s)
  PROVE  RecvInv'
<1>1. /\ UNCHANGED <<pc, cur, at, pos>> /\ (InRecv' <=> InRecv) /\ cur \in Sessions
      /\ contested \subseteq contested' /\ svc[s].pc # "closed"
      /\ s # cur => down'[cur] = down[cur] /\ svc'[cur] = svc[cur]
  BY ServiceFrame
<1>2. CASE ~InRecv \/ at' \in contested'
  BY <1>1, <1>2 DEF RecvInv
<1>3. ASSUME InRecv, NEW a, a = at, a \notin contested' PROVE RecvInv'
  <2>1. RecvTalk /\ pc # "idle" /\ a \notin contested /\ a \in Files /\ at' = a
    BY <1>1, <1>3 DEF Talk, InRecv, Shape, ClientTypes
  <2>2. ~(s = cur /\ Starts(s, a))
    BY <1>1, <1>3, <2>1, OwnStarts DEF Faith, InRecv, InSend
  <2>3. /\ Svc.pc = "recv" => Svc.fd = path[a] /\ NoWorker(a) /\ Svc.n <= At(a).size
        /\ Finished({"DONE"}) =>
              path[a] # None /\ NoWorker(a) /\ pos + Len(Down) - 1 = At(a).size
    BY <1>3, <2>1 DEF RecvInv, Faith
  <2>4. ASSUME down'[cur] = down[cur], svc'[cur] = svc[cur] \/ svc'[cur] = Closed
        PROVE  RecvInv'
    <3>1. Down' = Down /\ (Svc' = Svc \/ Svc'.pc = "closed")
      BY <1>1, <2>4, ClosedType DEF Down, Svc
    <3>2. Finished({"DONE"})' <=> Finished({"DONE"})
      BY <3>1 DEF Finished
    <3>3. CASE NoWorker(a)
      <4>1. NoWorker(a)' /\ At(a)' = At(a) /\ path'[a] = path[a]
        BY <1>3, <2>1, <2>2, <3>3, Undisturbed
      <4> QED BY <1>1, <2>1, <2>3, <3>1, <3>2, <4>1 DEF RecvInv, At
    <3>4. CASE ~NoWorker(a)
      BY <2>3, <3>1, <3>2, <3>4 DEF RecvInv
    <3> QED BY <3>3, <3>4
  <2>5. CASE s # cur
    BY <1>1, <2>4, <2>5
  <2>6. CASE s = cur
    <3>1. CASE RecvBegin(s)
      BY <1>3, <2>6, <3>1, RecvBeginFaith
    <3>2. CASE RecvPacket(s)
      BY <1>3, <2>6, <3>2, RecvPacketFaith
    <3>3. CASE ServiceEnds(s)
      <4>1. down' = down /\ svc'[s] = Closed
        BY <3>3, ServiceEndsFacts DEF Turns
      <4> QED BY <2>4, <2>6, <4>1
    <3>4. svc[s].pc = "recv" \/ (svc[s].pc = "wait" /\ (up[s] # <<>> => Head(up[s]).id = "RECV"))
      <4>1. up[s] # <<>> => Head(up[s]) = up[s][1] /\ Len(up[s]) \in Nat /\ Len(up[s]) # 0
        BY SessionTypes, EmptyFacts
      <4>2. up[s] # <<>> => Len(up[s]) > 0
        BY <4>1
      <4> QED BY <1>1, <2>1, <2>6, <4>1, <4>2 DEF RecvTalk, Up, Svc
    <3>5. RecvBegin(s) \/ RecvPacket(s) \/ ServiceEnds(s)
      BY <3>4 DEF Service, do_stat, ListBegin, ListEntry, do_send, Open, SendPacket, SendEnd,
                  Request, Sending
    <3> QED BY <3>1, <3>2, <3>3, <3>5
  <2> QED BY <2>5, <2>6
<1> QED BY <1>1, <1>2, <1>3

\* A request is taken: the numbers of the others are as before.
LEMMA SeqShrinks ==
  ASSUME Shape, SeqInv, InSend, ~Broken(cur), UNCHANGED <<pc, pos>>, Shrunk(Up, Up')
  PROVE  /\ Left \in Int /\ Left' = Left - 1 /\ pos \in Int /\ pos - Left' = pos - Left + 1
         /\ \A i \in 1..Len(Up') : /\ Up'[i].id # "DONE" => Up'[i].n = pos' - Left' + i
                                   /\ Up'[i].id = "SEND" => Up'[i].n = 0
<1>1. pos \in Int
  BY DEF Shape, ClientTypes
<1>2. Len(Up) \in Nat /\ Len(Up') = Len(Up) - 1
  BY ShrunkAll
<1>3. Left \in Int /\ Left' = Left - 1
  BY <1>2 DEF Left
<1>4. pos - Left' = pos - Left + 1
  BY ONLY <1>1, <1>3
<1>5. ASSUME NEW i \in 1..Len(Up')
      PROVE  /\ Up'[i].id # "DONE" => Up'[i].n = pos' - Left' + i
             /\ Up'[i].id = "SEND" => Up'[i].n = 0
  <2>1. i + 1 \in 1..Len(Up) /\ Up'[i] = Up[i + 1] /\ i \in Int
    BY ShrunkAll
  <2>2. /\ Up[i + 1].id # "DONE" => Up[i + 1].n = pos - Left + (i + 1)
        /\ Up[i + 1].id = "SEND" => Up[i + 1].n = 0
    BY <2>1 DEF SeqInv
  <2>3. pos - Left + (i + 1) = pos' - Left' + i
    BY ONLY <1>1, <1>3, <2>1, UNCHANGED pos
  <2> QED BY <2>1, <2>2, <2>3
<1> QED BY <1>1, <1>3, <1>4, <1>5

\* While a file is written no OKAY is under way.
LEMMA NoOkay ==
  ASSUME Shape, Talk, InSend, Svc.pc \in Working \/ (Svc.pc = "wait" /\ Len(Up) > 0)
  PROVE  \A i \in 1..Len(Down) : Down[i].id # "OKAY"
<1>1. SendTalk
  BY DEF Talk
<1>2. Svc.pc = "wait" /\ Len(Up) > 0 => 1..Len(Down) = {}
  <2> SUFFICES ASSUME Svc.pc = "wait", Len(Up) > 0 PROVE 1..Len(Down) = {}
    OBVIOUS
  <2>1. Len(Up) \in Nat
    BY CurSession, EmptyFacts DEF Up, InSend
  <2>2. 1 \in 1..Len(Up) /\ Up[1].id = "SEND"
    BY <1>1, <2>1 DEF SendTalk
  <2>3. Len(Down) = 0
    BY <1>1, <2>2 DEF SendTalk
  <2> QED BY <2>3
<1> QED BY <1>1, <1>2 DEF SendTalk, Working

\* The parts of SendInv that a step of a service can disturb.
LEMMA SendInvStep ==
  ASSUME Shape, SendInv, InSend, UNCHANGED <<pc, at, pos, told, len>>,
         NEW a, a = at,
         \A i \in 1..Len(Down') : Down'[i].id = "OKAY" /\ ~told /\ a \notin contested' => Complete(a)'
  PROVE  SendInv'
<1>1. /\ pc' = "done" => told'
      /\ pc' = "status" /\ ~told' => pos' = len'[at']
  BY DEF SendInv
<1>2. at' = a /\ told' = told
  OBVIOUS
<1> QED BY <1>1, <1>2 DEF SendInv, Complete, At, NoWorker

LEMMA FailOnly ==
  ASSUME Shape, Talk, SendInv, InSend, Svc.pc \in Working \/ (Svc.pc = "wait" /\ Len(Up) > 0),
         UNCHANGED <<pc, at, pos, told, len, cur>>, NEW s, s = cur, NEW f \in Files,
         \/ UNCHANGED down
         \/ Told(s, <<Msg("FAIL", f, 0)>>)
         \/ Told(s, <<Msg("FAIL", f, 0), Msg("FAIL", f, 0)>>)
  PROVE  SendInv'
<1> DEFINE m == Msg("FAIL", f, 0)
<1>1. m \in Answers /\ m.id = "FAIL"
  BY AnswerType, MsgFields
<1>2. pc # "idle" /\ ~ClientGone(cur) /\ down[cur] \in Seq(Answers) /\ Down' = down'[cur] /\ Down = down[cur]
  BY CurSession DEF InSend, Down
<1>3. \A i \in 1..Len(Down) : Down[i].id # "OKAY"
  BY NoOkay
<1>4. \A i \in 1..Len(Down') : Down'[i].id # "OKAY"
  <2>1. CASE UNCHANGED down
    BY <1>2, <1>3, <2>1
  <2>2. CASE Told(s, <<m>>)
    <3>1. down'[cur] = down[cur] \/ Grown(down[cur], down'[cur], m)
      BY <1>1, <1>2, <2>2, ToldDown
    <3>2. CASE down'[cur] = down[cur]
      BY <1>2, <1>3, <3>2
    <3>3. CASE Grown(down[cur], down'[cur], m)
      BY <1>1, <1>2, <1>3, <3>3, GrownAll
    <3> QED BY <3>1, <3>2, <3>3
  <2>3. CASE Told(s, <<m, m>>)
    <3> HIDE DEF m
    <3>1. down'[cur] = down[cur] \/ down'[cur] = down[cur] \o <<m, m>>
      BY <2>3 DEF Told
    <3>2. CASE down'[cur] = down[cur]
      BY <1>2, <1>3, <3>2
    <3>3. CASE down'[cur] = down[cur] \o <<m, m>>
      <4>1. /\ Len(down[cur]) \in Nat /\ Len(down'[cur]) = Len(down[cur]) + 2
            /\ \A i \in 1..Len(down[cur]) : down'[cur][i] = down[cur][i]
            /\ down'[cur][Len(down[cur]) + 1] = m /\ down'[cur][Len(down[cur]) + 2] = m
        BY <1>1, <1>2, <3>3, JoinTwo
      <4>2. ASSUME NEW i \in 1..Len(down'[cur])
            PROVE  i \in 1..Len(down[cur]) \/ i = Len(down[cur]) + 1 \/ i = Len(down[cur]) + 2
        BY <4>1, <4>2
      <4> QED BY <1>1, <1>2, <1>3, <4>1, <4>2
    <3> QED BY <3>1, <3>2, <3>3
  <2> QED BY <2>1, <2>2, <2>3
<1> QED BY <1>4, SendInvStep

LEMMA do_sendFaith ==
  ASSUME Shape, Talk, Faith, InSend, NEW s \in Sessions, s = cur, do_send(s)
  PROVE  SendInv' /\ SeqInv'
<1> DEFINE f == Head(up[s]).file
<1>0. f = Head(up[s]).file
  OBVIOUS
<1> HIDE DEF f
<1>1. pc # "idle" /\ SendTalk
  BY DEF Talk, InSend
<1>2. /\ Took(s) /\ Head(up[s]).id = "SEND" /\ f \in Files
      /\ svc[s].pc = "wait" /\ UNCHANGED <<client, cut, fixed, inode>>
      /\ \/ Told(s, <<Msg("FAIL", f, 0)>>) /\ Turns(s, Closed)
         \/ Turns(s, Serving("open", f, None)) /\ UNCHANGED down
  BY <1>0, do_sendFacts
<1>3. UNCHANGED <<pc, at, pos, told, len, cur, cut>> /\ Svc = svc[s] /\ Svc' = svc'[s]
  BY <1>2 DEF client, fixed, Svc
<1>4. Shrunk(Up, Up') /\ Len(Up) > 0 /\ 1 \in 1..Len(Up) /\ Up[1].id = "SEND"
  <2>1. Shrunk(up[s], up'[s])
    BY <1>2, TookUp
  <2> QED BY <1>2, <1>3, <2>1, ShrunkAll DEF Up
<1>5. SendInv'
  BY <1>2, <1>3, <1>4, FailOnly DEF Faith
<1>6. CASE Turns(s, Closed)
  <2>1. Broken(cur)'
    BY <1>3, <1>6, ClosedType DEF Broken, Turns
  <2> QED BY <1>5, <2>1 DEF SeqInv
<1>7. CASE Turns(s, Serving("open", f, None))
  <2>1. Svc'.pc = "open"
    BY <1>3, <1>7 DEF Turns, Serving
  <2>2. CASE cut[cur]
    <3>1. Broken(cur)'
      BY <1>3, <2>2 DEF Broken
    <3> QED BY <1>5, <3>1 DEF SeqInv
  <2>3. CASE ~cut[cur]
    <3>1. ~Broken(cur)
      BY <1>2, <2>3 DEF Broken
    <3>2. /\ Left \in Int /\ Left' = Left - 1 /\ pos \in Int
          /\ \A i \in 1..Len(Up') : /\ Up'[i].id # "DONE" => Up'[i].n = pos' - Left' + i
                                    /\ Up'[i].id = "SEND" => Up'[i].n = 0
      BY <1>3, <1>4, <3>1, SeqShrinks DEF Faith
    <3>3. pos - Left + 1 = 0
      BY <1>4, <3>1 DEF Faith, SeqInv
    <3>4. pos' = Left'
      BY ONLY <1>3, <3>2, <3>3
    <3> QED BY <1>5, <2>1, <3>2, <3>4 DEF SeqInv
  <2> QED BY <2>2, <2>3
<1> QED BY <1>2, <1>6, <1>7

LEMMA OpenFaith ==
  ASSUME Shape, Talk, Faith, InSend, NEW s \in Sessions, s = cur, Open(s), Shape'
  PROVE  SendInv' /\ SeqInv'
<1> DEFINE f == svc[s].file
<1>0. f = svc[s].file
  OBVIOUS
<1> HIDE DEF f
<1>1. /\ svc[s].pc = "open" /\ f \in Files
      /\ UNCHANGED <<client, up, cut, fixed, contested>>
      /\ \/ UNCHANGED down
         \/ Told(s, <<Msg("FAIL", f, 0)>>)
         \/ Told(s, <<Msg("FAIL", f, 0), Msg("FAIL", f, 0)>>)
      /\ \/ Turns(s, Serving("send", f, None)) \/ Turns(s, Closed)
         \/ path'[f] # None /\ Turns(s, Serving("send", f, path'[f]))
  BY <1>0, OpenFacts
<1>2. UNCHANGED <<pc, at, pos, told, len, cur, cut, up>> /\ Svc = svc[s] /\ Svc' = svc'[s]
  BY <1>1 DEF client, fixed, Svc
<1>3. SendInv'
  BY <1>1, <1>2, FailOnly DEF Faith, Working
<1>4. CASE Broken(cur)'
  BY <1>3, <1>4 DEF SeqInv
<1>5. CASE ~Broken(cur)'
  <2>1. ~Broken(cur)
    BY <1>1, <1>2, <1>5 DEF Broken
  <2>2. Up' = Up /\ Left' = Left
    BY <1>2 DEF Up, Left
  <2>3. pos = Left /\ \A i \in 1..Len(Up) : /\ Up[i].id # "DONE" => Up[i].n = pos - Left + i
                                            /\ Up[i].id = "SEND" => Up[i].n = 0
    BY <1>1, <1>2, <2>1 DEF Faith, SeqInv
  <2>4. Svc'.pc = "send" /\ Svc'.n = 0 /\ svc'[s] \in Services
    <3>1. svc'[s].pc # "closed"
      BY <1>2, <1>5 DEF Broken
    <3> QED BY <1>1, <1>2, <3>1, ClosedType DEF Turns, Serving
  <2>5. Svc'.fd # None => inode'[at][Svc'.fd].new >= 0
    <3> SUFFICES ASSUME Svc'.fd # None PROVE inode'[at][Svc'.fd].new >= 0
      OBVIOUS
    <3>1. Svc'.fd \in 0..MaxSessions /\ at \in Files
      BY <1>2, <2>4 DEF Services, Shape, ClientTypes
    <3>2. inode'[at][Svc'.fd] \in Inodes
      BY <3>1 DEF Shape, FileTypes
    <3> QED BY <3>2 DEF Inodes
  <2>6. pos \in Int /\ pos - Left = 0
    BY <2>3 DEF Shape, ClientTypes
  <2> QED BY <1>2, <1>3, <2>2, <2>3, <2>4, <2>5, <2>6 DEF SeqInv
<1> QED BY <1>4, <1>5

LEMMA SendPacketFaith ==
  ASSUME Shape, Talk, Faith, InSend, NEW s \in Sessions, s = cur, SendPacket(s)
  PROVE  SendInv' /\ SeqInv'
<1> DEFINE f == svc[s].file
           d == svc[s].fd
           n == Head(up[s]).n
<1>0. f = svc[s].file /\ d = svc[s].fd /\ n = Head(up[s]).n
  OBVIOUS
<1> HIDE DEF f, d, n
<1>1. /\ Took(s) /\ Head(up[s]).id = "DATA" /\ svc[s].pc = "send" /\ f \in Files
      /\ n \in 0..MaxChunks /\ UNCHANGED <<client, cut, contested, fixed>>
      /\ \/ d = None /\ UNCHANGED <<svc, down>>
         \/ /\ d \in 0..MaxSessions /\ UNCHANGED down
            /\ Written(f, d, n) /\ Turns(s, [svc[s] EXCEPT !.n = n])
         \/ /\ Told(s, <<Msg("FAIL", f, 0)>>)
            /\ Turns(s, [svc[s] EXCEPT !.fd = None]) \/ Turns(s, Closed)
  BY <1>0, SendPacketFacts
<1>2. UNCHANGED <<pc, at, pos, told, len, cur, cut>> /\ Svc = svc[s] /\ Svc' = svc'[s]
  BY <1>1 DEF client, fixed, Svc
<1>3. Shrunk(Up, Up') /\ 1 \in 1..Len(Up) /\ Head(up[s]) = Up[1]
  <2>1. Shrunk(up[s], up'[s])
    BY <1>1, TookUp
  <2> QED BY <1>2, <2>1, ShrunkAll DEF Up
<1>4. SendInv'
  BY <1>1, <1>2, FailOnly DEF Faith, Working
<1>5. CASE Broken(cur)'
  BY <1>4, <1>5 DEF SeqInv
<1>6. CASE ~Broken(cur)'
  <2>1. ~Broken(cur)
    BY <1>1, <1>2, <1>6 DEF Broken
  <2>2. /\ pos - Left' = pos - Left + 1
        /\ \A i \in 1..Len(Up') : /\ Up'[i].id # "DONE" => Up'[i].n = pos' - Left' + i
                                  /\ Up'[i].id = "SEND" => Up'[i].n = 0
    BY <1>2, <1>3, <2>1, SeqShrinks DEF Faith
  <2>3. n = pos - Left'
    BY <1>0, <1>1, <1>3, <2>1, <2>2 DEF Faith, SeqInv
  <2>4. svc[s] \in Services /\ f = at
    BY <1>0, <1>1, <1>2, SessionTypes DEF Talk, SendTalk, Working
  <2>5. CASE d = None /\ UNCHANGED svc
    <3>1. Svc'.pc = "send" /\ Svc'.fd = None
      BY <1>0, <1>1, <1>2, <2>5
    <3> QED BY <1>4, <2>2, <3>1 DEF SeqInv
  <2>6. CASE Turns(s, [svc[s] EXCEPT !.fd = None])
    <3>1. Svc'.pc = "send" /\ Svc'.fd = None
      BY <1>1, <1>2, <2>4, <2>6 DEF Turns, Services
    <3> QED BY <1>4, <2>2, <3>1 DEF SeqInv
  <2>7. CASE d \in 0..MaxSessions /\ Written(f, d, n) /\ Turns(s, [svc[s] EXCEPT !.n = n])
    <3>1. Svc'.pc = "send" /\ Svc'.fd = d /\ Svc'.n = n
      BY <1>0, <1>1, <1>2, <2>4, <2>7 DEF Turns, Services
    <3>2. inode'[f][d].new = Larger(inode[f][d].new, n)
      BY <1>1, <2>7, WrittenType
    <3>3. inode[f][d].new \in Nat /\ n \in Nat
      <4>1. inode[f][d] \in Inodes
        BY <1>1, <2>7 DEF Shape, FileTypes
      <4> QED BY <1>1, <4>1 DEF Inodes
    <3>4. inode'[f][d].new >= n
      BY <3>2, <3>3, LargerFacts
    <3> QED BY <1>2, <1>4, <2>2, <2>3, <2>4, <3>1, <3>4 DEF SeqInv
  <2>8. CASE Turns(s, Closed)
    BY <1>2, <1>6, <2>8, ClosedType DEF Broken, Turns
  <2> QED BY <1>1, <2>5, <2>6, <2>7, <2>8
<1> QED BY <1>5, <1>6

LEMMA SendEndFaith ==
  ASSUME Shape, Talk, FileInv, Stock, Faith, InSend, NEW s \in Sessions, s = cur, SendEnd(s)
  PROVE  SendInv' /\ SeqInv'
<1> DEFINE f == svc[s].file
<1>0. f = svc[s].file
  OBVIOUS
<1> HIDE DEF f
<1>1. /\ Took(s) /\ Head(up[s]).id = "DONE" /\ svc[s].pc = "send" /\ f \in Files
      /\ UNCHANGED <<client, cut, path, contested, fixed>>
      /\ \/ svc[s].fd = None /\ Turns(s, Waiting) /\ UNCHANGED <<inode, down>>
         \/ /\ svc[s].fd # None
            /\ Turns(s, Waiting) \/ (cut[s] /\ Turns(s, Closed))
            /\ Stamps(f)
            /\ Told(s, <<Msg("OKAY", f, Head(up[s]).n)>>)
  BY <1>0, SendEndFacts, CurSession DEF InSend
<1>2. /\ UNCHANGED <<pc, at, pos, told, len, cur, cut, path, contested>>
      /\ Svc = svc[s] /\ Svc' = svc'[s]
  BY <1>1 DEF client, fixed, Svc
<1>3. /\ Len(Up') = 0 /\ Len(Up) = 1 /\ pc = "status" /\ f = at /\ Head(up[s]) \in Requests
      /\ Svc'.pc \in {"wait", "closed"}
  <2>1. Shrunk(up[s], up'[s])
    BY <1>1, TookUp
  <2>2. 1 \in 1..Len(Up) /\ Head(up[s]) = Up[1] /\ Len(Up') = Len(Up) - 1 /\ Len(Up) \in Nat
    BY <1>2, <2>1, ShrunkAll DEF Up
  <2>3. 1 = Len(Up) /\ pc = "status" /\ Svc.file = at
    BY <1>1, <1>2, <2>2 DEF Talk, SendTalk, Working
  <2>4. Head(up[s]) \in Requests
    <3>1. up[s] \in Seq(Requests) /\ up[s] # <<>>
      BY <1>1, SessionTypes DEF Took
    <3> QED BY <3>1, EmptyFacts
  <2>5. Turns(s, Waiting) \/ Turns(s, Closed)
    BY <1>1
  <2>6. Svc'.pc \in {"wait", "closed"}
    BY <1>2, <2>5, ClosedType DEF Turns
  <2>7. Len(Up') = 0 /\ Len(Up) = 1
    <3>1. Len(Up) = 1 /\ Len(Up') = Len(Up) - 1
      BY <2>2, <2>3
    <3> QED BY ONLY <3>1
  <2>8. f = at
    BY <1>0, <1>2, <2>3
  <2> QED BY <2>3, <2>4, <2>6, <2>7, <2>8
<1>4. SeqInv'
  BY <1>3 DEF SeqInv
<1>5. CASE UNCHANGED down
  BY <1>1, <1>2, <1>4, <1>5, FailOnly DEF Faith, Working
<1>6. CASE ~UNCHANGED down
  <2> DEFINE m == Msg("OKAY", f, Head(up[s]).n)
  <2>1. svc[s].fd # None /\ Told(s, <<m>>) /\ m \in Answers /\ Stamps(f)
    <3>1. Head(up[s]).n \in Nat
      BY <1>3 DEF Requests, Message
    <3> QED BY <1>1, <1>6, <3>1, AnswerType
  <2> HIDE DEF m
  <2>2. (cut[cur] /\ down'[cur] = down[cur]) \/ (~cut[cur] /\ Grown(down[cur], down'[cur], m))
    BY <2>1, ToldDown DEF InSend
  <2>3. CASE down'[cur] = down[cur]
    <3>1. \A i \in 1..Len(Down') : Down'[i].id # "OKAY"
      BY <1>1, <1>2, <2>3, NoOkay DEF Working, Down
    <3> QED BY <1>2, <1>4, <3>1, SendInvStep DEF Faith
  <2>4. CASE ~cut[cur]
    <3>1. ~Broken(cur)
      BY <1>1, <2>4 DEF Broken
    <3> SUFFICES ASSUME NEW a, a = at, ~told, a \notin contested PROVE Complete(a)'
      BY <1>2, <1>4, SendInvStep DEF Faith
    <3>2. FileOK(a) /\ Works(s, a) /\ a \in Files
      BY <1>0, <1>1, <1>3 DEF FileInv, Works, Working
    <3> DEFINE d == svc[s].fd
    <3>3. path[a] = d /\ d # None /\ d \in 0..MaxSessions
      BY <2>1, <3>2 DEF FileOK, Shape, FileTypes
    <3> HIDE DEF d
    <3>4. svc[s].n = pos /\ inode[a][d].new >= svc[s].n
      <4>1. Left = 0 /\ pos \in Int
        BY <1>3 DEF Left, Shape, ClientTypes
      <4>2. svc[s].n = pos - Left /\ inode[a][d].new >= svc[s].n
        BY <1>1, <1>2, <2>1, <3>1 DEF Faith, SeqInv, d
      <4> QED BY <4>1, <4>2
    <3>5. pos = len[a]
      BY <1>3 DEF Faith, SendInv
    <3>6. SizeOK(a, d)
      BY <3>2, <3>3 DEF Stock, Sizes
    <3>7. inode[a][d].new \in Nat /\ len[a] \in Nat
      <4>1. inode[a][d] \in Inodes /\ len[a] \in 0..MaxChunks
        BY <3>2, <3>3 DEF Shape, FileTypes
      <4> QED BY <4>1 DEF Inodes
    <3>8. inode[a][d].new = len[a]
      <4>1. inode[a][d].new <= len[a] /\ inode[a][d].new >= len[a]
        BY <3>4, <3>5, <3>6 DEF SizeOK
      <4> QED BY ONLY <3>7, <4>1
    <3>9. inode'[a][d].new = inode[a][d].new
      <4>1. inode' = inode \/ inode' = [inode EXCEPT ![a][d].stamped = TRUE]
        BY <1>3, <2>1, <3>3 DEF Stamps
      <4>2. CASE inode' = inode
        BY <4>2
      <4>3. CASE inode' = [inode EXCEPT ![a][d].stamped = TRUE]
        BY <3>2, <3>3, <4>3, StampedType
      <4> QED BY <4>1, <4>2, <4>3
    <3>10. \A o \in Sessions : o # s => ~Works(o, a)
      BY <3>2, Alone
    <3>11. \A o \in Sessions : o # s => svc'[o] = svc[o]
      BY <1>1 DEF Turns
    <3>12. NoWorker(a)'
      <4>1. ~Works(s, a)'
        BY <1>2, <1>3 DEF Works, Working
      <4> QED BY <3>10, <3>11, <4>1 DEF NoWorker, Works
    <3> QED BY <1>2, <3>3, <3>8, <3>9, <3>12 DEF Complete, At
  <2> QED BY <2>2, <2>3, <2>4
<1> QED BY <1>4, <1>5, <1>6

\* Another session's service, or the end of one's own.
LEMMA OtherSend ==
  ASSUME Shape, Talk, FileInv, Faith, InSend, NEW s \in Sessions, Service(s), s # cur
  PROVE  SendInv' /\ SeqInv'
<1>1. /\ UNCHANGED <<pc, cur, at, pos, told, len, cut>> /\ cur \in Sessions
      /\ (InSend' <=> InSend) /\ contested \subseteq contested'
      /\ Up' = Up /\ Down' = Down /\ Svc' = Svc
  BY ServiceFrame DEF Up, Down, Svc
<1>2. at \in Files /\ SendTalk
  BY DEF Talk, Shape, ClientTypes
<1>3. SendInv'
  <2> SUFFICES ASSUME NEW a, a = at, ~told, a \notin contested',
                      NEW i \in 1..Len(Down), Down[i].id = "OKAY"
               PROVE  Complete(a)'
    BY <1>1, SendInvStep DEF Faith
  <2>1. Complete(a) /\ a \in Files
    BY <1>1, <1>2 DEF Faith, SendInv
  <2> QED BY <2>1, StaysComplete
<1>4. ASSUME NEW a, a = at, a \notin contested', Svc.pc = "send"
      PROVE  inode'[a] = inode[a]
  <2>1. Works(cur, a) /\ FileOK(a)
    BY <1>1, <1>2, <1>4 DEF Works, Working, Svc, SendTalk, FileInv
  <2>2. ~Works(s, a)
    BY <1>1, <2>1, Alone
  <2>3. CASE Quiet(s)
    BY <2>3 DEF Quiet
  <2>4. ASSUME NEW g \in Files, Starts(s, g) PROVE inode'[a] = inode[a]
    BY <2>4 DEF Starts
  <2>5. ASSUME NEW g \in Files, Handles(s, g) PROVE inode'[a] = inode[a]
    BY <1>2, <1>4, <2>2, <2>5 DEF Handles
  <2> QED BY <2>3, <2>4, <2>5, Effects
<1>5. SeqInv'
  <2>1. Left' = Left /\ (Broken(cur)' <=> Broken(cur))
    BY <1>1 DEF Left, Broken, Svc
  <2>2. Svc.pc = "send" /\ at \notin contested' => inode'[at] = inode[at]
    BY <1>4
  <2> QED BY <1>1, <2>1, <2>2 DEF SeqInv, Faith
<1> QED BY <1>3, <1>5

LEMMA ServiceSend ==
  ASSUME Shape, Talk, FileInv, Stock, Faith, NEW s \in Sessions, Service(s), Shape'
  PROVE  SendInv' /\ SeqInv'
<1>1. /\ UNCHANGED <<pc, cur, at, pos, told, len, cut>> /\ cur \in Sessions
      /\ (InSend' <=> InSend) /\ contested \subseteq contested' /\ svc[s].pc # "closed"
  BY ServiceFrame
<1>2. CASE ~InSend
  BY <1>1, <1>2 DEF SendInv, SeqInv
<1>3. CASE InSend /\ s # cur
  BY <1>3, OtherSend
<1>4. CASE InSend /\ s = cur
  <2>1. SendTalk /\ pc # "idle" /\ at \in Files
    BY <1>4 DEF Talk, InSend, Shape, ClientTypes
  <2>2. CASE ServiceEnds(s)
    <3>1. down' = down /\ svc'[s] = Closed
      BY <2>2, ServiceEndsFacts DEF Turns
    <3>2. Broken(cur)'
      BY <1>1, <1>4, <3>1, ClosedType DEF Broken
    <3>3. SendInv'
      <4> SUFFICES ASSUME NEW a, a = at, ~told, a \notin contested',
                          NEW i \in 1..Len(Down), Down[i].id = "OKAY"
                   PROVE  Complete(a)'
        BY <1>1, <1>4, <3>1, SendInvStep DEF Faith, Down
      <4>1. Complete(a) /\ a \in Files
        BY <1>1, <1>4, <2>1 DEF Faith, SendInv
      <4>2. ~Starts(s, a)
        BY <3>1 DEF Starts, Closed, Serving
      <4> QED BY <4>1, <4>2, StaysComplete
    <3> QED BY <3>2, <3>3 DEF SeqInv
  <2>3. svc[s].pc \in {"open", "send"}
        \/ (svc[s].pc = "wait" /\ (up[s] # <<>> => Head(up[s]).id = "SEND"))
    <3>1. up[s] # <<>> => Head(up[s]) = up[s][1] /\ Len(up[s]) \in Nat /\ Len(up[s]) # 0
      BY SessionTypes, EmptyFacts
    <3>2. up[s] # <<>> => Len(up[s]) > 0
      BY <3>1
    <3> QED BY <1>1, <1>4, <2>1, <3>1, <3>2 DEF SendTalk, Up, Svc
  <2>4. do_send(s) \/ Open(s) \/ SendPacket(s) \/ SendEnd(s) \/ ServiceEnds(s)
    BY <2>3 DEF Service, do_stat, ListBegin, ListEntry, RecvBegin, RecvPacket, Request
  <2> QED BY <1>4, <2>2, <2>4, do_sendFaith, OpenFaith, SendPacketFaith, SendEndFaith
<1> QED BY <1>2, <1>3, <1>4

LEMMA ServiceFaith ==
  ASSUME Shape, Talk, FileInv, Stock, Faith, NEW s \in Sessions, Service(s), Shape'
  PROVE  Faith'
BY ServiceFlags, ServiceDone, ServiceQuit, ServiceStat, ServiceRecv, ServiceSend DEF Faith

-----------------------------------------------------------------------------
\* The client changes no remote file and no service.
LEMMA ClientKeeps ==
  ASSUME UNCHANGED others
  PROVE  /\ UNCHANGED <<svc, path, inode, contested, len, cut>>
         /\ \A f : (Complete(f)' <=> Complete(f)) /\ (NoWorker(f)' <=> NoWorker(f))
                   /\ At(f)' = At(f)
<1>1. UNCHANGED <<svc, path, inode, contested, len, cut>>
  BY DEF others, remote, fixed
<1>2. ASSUME NEW f
      PROVE  (Complete(f)' <=> Complete(f)) /\ (NoWorker(f)' <=> NoWorker(f)) /\ At(f)' = At(f)
  BY <1>1 DEF Complete, NoWorker, Works, At
<1> QED BY <1>1, <1>2

LEMMA EndFaith ==
  ASSUME pc' = "idle", exit' = 1
  PROVE  Faith'
BY DEF Faith, FlagInv, StatInv, SendInv, SeqInv, RecvInv, DoneInv, QuitInv, InStat, InSend, InRecv

\* Between files nothing is under way.
LEMMA RestFaith ==
  ASSUME pc' \in {"ask", "answer", "copy", "quit"}, FlagInv', StatInv', DoneInv'
  PROVE  Faith'
BY DEF Faith, SendInv, SeqInv, RecvInv, QuitInv, InSend, InRecv

LEMMA KeptFlags ==
  ASSUME Faith, UNCHANGED <<cmd, flag, others>>, pc # "idle", InSend' => at' = at /\ ~flag[at]
  PROVE  FlagInv'
BY ClientKeeps DEF Faith, FlagInv

LEMMA NoStat ==
  ASSUME pc' \notin {"ask", "answer"}
  PROVE  StatInv'
BY DEF StatInv, InStat

LEMMA AskFaith ==
  ASSUME Shape, Talk, Faith, Ask
  PROVE  Faith'
<1>1. /\ pc = "ask" /\ pc' \in {"ask", "answer"}
      /\ UNCHANGED <<cmd, cur, pos, flag, told, exit, lcopy, down, others>>
  BY DEF Ask
<1>2. FlagInv'
  BY <1>1, KeptFlags DEF InSend
<1>3. StatInv'
  BY <1>1, ClientKeeps DEF Faith, StatInv, InStat, Down
<1>4. DoneInv'
  BY <1>1 DEF DoneInv, Copied
<1> QED BY <1>1, <1>2, <1>3, <1>4, RestFaith

LEMMA StatAnsweredFaith ==
  ASSUME Shape, Talk, Faith, StatAnswered
  PROVE  Faith'
<1>1. pc = "answer" /\ down[cur] # <<>> /\ Head(down[cur]).id = "STAT" /\ UNCHANGED <<up, others>>
  BY DEF StatAnswered, Received
<1>2. CASE cmd = "pull" /\ Head(down[cur]).n = Missing
  BY <1>2, EndFaith DEF StatAnswered, GiveUp, Exit
<1>3. CASE ~(cmd = "pull" /\ Head(down[cur]).n = Missing)
  <2>1. /\ Consume /\ UNCHANGED <<cmd, cur, pos, told, exit, lcopy>>
        /\ flag' = [flag EXCEPT ![at] = cmd \in {"sync", "dry"} /\ SameFile(Head(down[cur]))]
        /\ \/ pc' = "answer"
           \/ at' = 1 /\ pc' = (IF cmd = "dry" THEN "quit" ELSE "copy")
    BY <1>1, <1>3 DEF StatAnswered
  <2>2. Shrunk(Down, Down') /\ Head(down[cur]) = Down[1]
    BY <1>1, <2>1, ConsumedDown
  <2>3. 1 \in 1..Len(Down)
    BY <2>2, ShrunkAll
  <2>4. ~Lists /\ StatTalk
    <3>1. CASE Lists
      <4>1. ListTalk
        BY <1>1, <3>1 DEF Talk, InList
      <4>2. Down[1].id \in {"DENT", "DONE"}
        BY <2>3, <4>1 DEF ListTalk
      <4> QED BY <1>1, <2>2, <4>2
    <3>2. CASE ~Lists
      BY <1>1, <3>2 DEF Talk, InStat
    <3> QED BY <3>1, <3>2
  <2>5. Down[1].file = at
    <3>1. Down[1].file = Base + 1 /\ Base = at - 1 /\ at \in Nat
      BY <1>1, <2>3, <2>4, TalkTypes DEF StatTalk, Base
    <3> QED BY ONLY <3>1
  <2>6. FlagInv'
    <3> SUFFICES ASSUME cmd \in Pushes, NEW f \in Files, f \notin contested, flag'[f]
                 PROVE  Complete(f)
      BY <1>1, <2>1, ClientKeeps DEF FlagInv, InSend
    <3>1. flag \in [Files -> BOOLEAN] /\ at \in Files
      BY DEF Shape, ClientTypes
    <3>2. CASE f # at
      <4>1. flag[f]
        BY <2>1, <3>1, <3>2
      <4> QED BY <1>1, <4>1 DEF Faith, FlagInv
    <3>3. CASE f = at
      <4>1. cmd = "sync" /\ Down[1].n = Same
        <5>1. cmd \in {"sync", "dry"} /\ SameFile(Head(down[cur]))
          BY <2>1, <3>1, <3>3
        <5> QED BY <2>2, <5>1 DEF Pushes, SameFile
      <4>2. InStat
        BY <1>1, <2>4 DEF InStat
      <4>3. Complete(Down[1].file)
        BY <2>3, <2>5, <3>3, <4>1, <4>2 DEF Faith, StatInv
      <4> QED BY <2>5, <3>3, <4>3
    <3> QED BY <3>2, <3>3
  <2>7. StatInv'
    <3> SUFFICES ASSUME cmd = "sync", NEW i \in 1..Len(Down'), NEW f, f = Down'[i].file,
                        Down'[i].n = Same, f \notin contested
                 PROVE  Complete(f)'
      BY <1>1, <2>1, ClientKeeps DEF StatInv
    <3>1. i + 1 \in 1..Len(Down) /\ Down'[i] = Down[i + 1]
      BY <2>2, ShrunkAll
    <3>2. InStat
      BY <1>1, <2>4 DEF InStat
    <3>3. Complete(f)
      BY <3>1, <3>2 DEF Faith, StatInv
    <3> QED BY <1>1, <3>3, ClientKeeps
  <2>8. DoneInv'
    <3>1. CASE pc' = "answer"
      BY <3>1 DEF DoneInv, Copied
    <3>2. CASE at' = 1 /\ pc' = "copy"
      <4>1. Copied' = {}
        BY <3>2 DEF Copied
      <4> QED BY <4>1 DEF DoneInv
    <3>3. CASE cmd = "dry"
      BY <2>1, <3>3 DEF DoneInv, Pushes, Pulls
    <3> QED BY <2>1, <3>1, <3>2, <3>3
  <2>9. pc' \in {"ask", "answer", "copy", "quit"}
    BY <2>1
  <2> QED BY <2>6, <2>7, <2>8, <2>9, RestFaith
<1> QED BY <1>2, <1>3

LEMMA ListFaith ==
  ASSUME Shape, Talk, Faith, Entry \/ Listed
  PROVE  Faith'
<1>1. /\ pc = "answer" /\ down[cur] # <<>> /\ Head(down[cur]).id \in {"DENT", "DONE"} /\ Consume
      /\ UNCHANGED <<cmd, cur, at, pos, told, exit, lcopy, up, others>>
      /\ pc' = "answer" \/ pc' = (IF cmd = "ls" THEN "quit" ELSE "copy")
  BY DEF Entry, Listed, Received
<1>2. Shrunk(Down, Down') /\ Head(down[cur]) = Down[1]
  BY <1>1, ConsumedDown
<1>3. 1 \in 1..Len(Down)
  BY <1>2, ShrunkAll
<1>4. Lists /\ ListTalk
  <2>1. CASE ~Lists
    <3>1. StatTalk
      BY <1>1, <2>1 DEF Talk, InStat
    <3>2. Down[1].id = "STAT"
      BY <1>3, <3>1 DEF StatTalk
    <3> QED BY <1>1, <1>2, <3>2
  <2>2. CASE Lists
    BY <1>1, <2>2 DEF Talk, InList
  <2> QED BY <2>1, <2>2
<1>5. cmd' \in {"ls", "pulldir"} /\ at' = 1
  BY <1>1, <1>4 DEF Lists, ListTalk
<1>6. FlagInv' /\ StatInv'
  BY <1>5 DEF FlagInv, StatInv, Pushes
<1>7. DoneInv'
  <2>1. CASE pc' = "answer"
    BY <2>1 DEF DoneInv, Copied
  <2>2. CASE pc' = "copy"
    <3>1. Copied' = {}
      BY <1>5, <2>2 DEF Copied
    <3> QED BY <3>1 DEF DoneInv
  <2>3. CASE cmd' = "ls"
    BY <2>3 DEF DoneInv, Pushes, Pulls
  <2> QED BY <1>1, <2>1, <2>2, <2>3
<1>8. pc' \in {"ask", "answer", "copy", "quit"}
  BY <1>1
<1> QED BY <1>6, <1>7, <1>8, RestFaith

\* One more file has been dealt with.
LEMMA Advances ==
  ASSUME Shape, Talk, Faith, pc \in {"copy", "status", "first", "more"}, Advance,
         UNCHANGED <<cmd, cur, flag, told, exit, others>>,
         \A f \in Files : f # at => lcopy'[f] = lcopy[f],
         ~told /\ at \notin contested =>
             /\ cmd \in Pushes => Complete(at)
             /\ cmd \in Pulls /\ ~flag[at] => path[at] # None /\ lcopy'[at] = At(at).size /\ NoWorker(at)
  PROVE  Faith'
<1>1. pc' \in {"copy", "quit"} /\ at \in Nat /\ CopyEnd' = CopyEnd /\ CopyEnd \in Nat
      /\ at <= CopyEnd /\ at >= 1 /\ CopyEnd \in Files /\ cur \in Sessions
      /\ \/ at < CopyEnd /\ at' = at + 1 /\ pc' = "copy"
         \/ ~(at < CopyEnd) /\ pc' = "quit"
  <2>1. CopyEnd' = CopyEnd
    BY DEF CopyEnd
  <2> QED BY <2>1, AdvanceFacts, TalkTypes, ListEnds, CurSession DEF Talk, Course
<1>2. Copied = 1..(at - 1)
  BY DEF Copied
<1>3. Copied' = 1..at
  <2>1. CASE at < CopyEnd /\ at' = at + 1 /\ pc' = "copy"
    <3>1. Copied' = 1..(at' - 1)
      BY <2>1 DEF Copied
    <3>2. at' - 1 = at
      BY <1>1, <2>1
    <3> QED BY <3>1, <3>2
  <2>2. CASE ~(at < CopyEnd) /\ pc' = "quit"
    <3>1. Copied' = 1..CopyEnd /\ CopyEnd = at
      BY <1>1, <2>2 DEF Copied
    <3> QED BY <3>1
  <2> QED BY <1>1, <2>1, <2>2
<1>4. FlagInv' /\ StatInv'
  BY <1>1, KeptFlags, NoStat DEF InSend
<1>5. DoneInv'
  <2> SUFFICES ASSUME ~told, NEW f \in 1..at, f \notin contested
               PROVE  /\ cmd \in Pushes => Complete(f)'
                      /\ cmd \in Pulls /\ ~flag[f] => Pulled(f)'
    BY <1>3, ClientKeeps DEF DoneInv
  <2>1. CASE f = at
    <3>1. Complete(f)' <=> Complete(f)
      BY ClientKeeps
    <3>2. cmd \in Pulls /\ ~flag[f] => path'[f] # None /\ lcopy'[f] = At(f) .size /\ NoWorker(f)'
      BY <2>1, ClientKeeps
    <3>3. At(f)' = At(f)
      BY ClientKeeps
    <3> QED BY <2>1, <3>1, <3>2, <3>3 DEF Pulled
  <2>2. CASE f # at
    <3>1. f \in Copied /\ f \in Files
      <4>1. f \in 1..(at - 1)
        BY <1>1, <2>2
      <4>2. f \in Files
        <5>1. at \in Nat /\ at <= NumFiles /\ NumFiles \in Nat
          BY TalkTypes
        <5> QED BY ONLY <4>1, <5>1 DEF Files
      <4> QED BY <1>2, <4>1, <4>2
    <3>2. cur > 0
      BY <1>1 DEF Sessions
    <3>3. /\ cmd \in Pushes => Complete(f)
          /\ cmd \in Pulls /\ ~flag[f] => Pulled(f)
      BY <3>1, <3>2 DEF Faith, DoneInv
    <3>4. /\ Complete(f)' <=> Complete(f)
          /\ NoWorker(f)' <=> NoWorker(f)
          /\ At(f)' = At(f) /\ path' = path
      BY ClientKeeps
    <3>5. lcopy'[f] = lcopy[f]
      BY <2>2, <3>1
    <3> QED BY <3>3, <3>4, <3>5 DEF Pulled
  <2> QED BY <2>1, <2>2
<1> QED BY <1>1, <1>4, <1>5, RestFaith

\* The command stays at its file.
LEMMA KeptDone ==
  ASSUME Shape, Faith, pc \notin {"idle", "ask", "answer", "quit"},
         pc' \notin {"idle", "ask", "answer", "quit"},
         UNCHANGED <<cmd, cur, at, flag, others>>, told' \/ told' = told,
         \A f \in Files : f # at => lcopy'[f] = lcopy[f]
  PROVE  DoneInv'
<1>1. at \in Files /\ cur \in Sessions
  BY CurSession DEF Shape, ClientTypes
<1>2. Copied = 1..(at - 1) /\ Copied' = Copied
  BY DEF Copied
<1> SUFFICES ASSUME ~told, NEW f \in 1..(at - 1), f \notin contested
             PROVE  /\ cmd \in Pushes => Complete(f)'
                    /\ cmd \in Pulls /\ ~flag[f] => Pulled(f)'
  BY <1>2, ClientKeeps DEF DoneInv
<1>3. f \in Files /\ f # at
  BY <1>1, SyncAssumption DEF Files
<1>4. cur > 0
  BY <1>1 DEF Sessions
<1>5. /\ cmd \in Pushes => Complete(f)
      /\ cmd \in Pulls /\ ~flag[f] => Pulled(f)
  BY <1>2, <1>4 DEF Faith, DoneInv
<1>6. /\ Complete(f)' <=> Complete(f)
      /\ NoWorker(f)' <=> NoWorker(f)
      /\ At(f)' = At(f) /\ path' = path /\ lcopy'[f] = lcopy[f]
  BY <1>3, ClientKeeps
<1> QED BY <1>5, <1>6 DEF Pulled

LEMMA SkipFaith ==
  ASSUME Shape, Talk, Faith, Skip
  PROVE  Faith'
<1>1. pc = "copy" /\ flag[at] /\ Advance
      /\ UNCHANGED <<cmd, cur, pos, flag, told, exit, lcopy, others>>
  BY DEF Skip
<1>2. cmd \in Pushes /\ at \notin contested => Complete(at)
  BY <1>1 DEF Faith, FlagInv, Shape, ClientTypes
<1>3. pc \in {"copy", "status", "first", "more"}
  BY <1>1
<1> QED BY <1>1, <1>2, <1>3, Advances

LEMMA SendFaith ==
  ASSUME Shape, Talk, Faith, InSend', UNCHANGED <<cmd, cur, at, flag, lcopy, others>>,
         pc \notin {"idle", "ask", "answer", "quit"}, told' \/ told' = told, ~flag[at],
         SendInv', SeqInv'
  PROVE  Faith'
<1>1. pc' \notin {"idle", "ask", "answer", "quit"}
  BY DEF InSend
<1>2. DoneInv'
  BY <1>1, KeptDone
<1>3. FlagInv' /\ StatInv'
  BY <1>1, KeptFlags, NoStat
<1>4. RecvInv' /\ QuitInv'
  BY DEF RecvInv, QuitInv, InSend, InRecv
<1> QED BY <1>2, <1>3, <1>4 DEF Faith

LEMMA SendRequestFaith ==
  ASSUME Shape, Talk, Faith, SendRequest
  PROVE  Faith'
<1>1. pc = "copy" /\ ~flag[at] /\ UNCHANGED others /\ RestTalk
  BY DEF SendRequest, Talk, InRest
<1>2. CASE at \in links
  BY <1>2, EndFaith DEF SendRequest, GiveUp, Exit
<1>3. CASE at \notin links
  <2>1. pc' = "data" /\ pos' = 0 /\ UNCHANGED <<cmd, cur, at, flag, told, exit, lcopy, down>>
    BY <1>3 DEF SendRequest
  <2> DEFINE m == Msg("SEND", at, 0)
  <2>2. Wrote(m) /\ m \in Requests /\ m.id = "SEND" /\ m.n = 0
    <3>1. at \in Files
      BY DEF Shape, ClientTypes
    <3> QED BY <3>1, SendRequestShape, RequestType, MsgFields
  <2> HIDE DEF m
  <2>3. /\ Svc' = Svc
        /\ Broken(cur)' \/ Grown(Up, Up', m)
    BY <1>1, <2>1, <2>2, WroteUp
  <2>4. SendInv'
    <3>1. Len(Down') = 0
      BY <1>1, <2>1 DEF RestTalk, Down
    <3> QED BY <2>1, <3>1 DEF SendInv
  <2>5. SeqInv'
    <3>1. CASE Broken(cur)'
      BY <2>1, <3>1 DEF SeqInv
    <3>2. CASE Grown(Up, Up', m)
      <4>1. Len(Up') = 1 /\ Up'[1] = m
        BY <1>1, <3>2 DEF RestTalk, Grown
      <4>2. pos' - Left' + 1 = 0
        BY <2>1, <4>1 DEF Left
      <4>3. \A i \in 1..Len(Up') : i = 1
        BY <4>1
      <4>4. Svc'.pc \notin {"open", "send"}
        BY <1>1, <2>3 DEF RestTalk
      <4> QED BY <2>2, <4>1, <4>2, <4>3, <4>4 DEF SeqInv
    <3> QED BY <2>3, <3>1, <3>2
  <2> QED BY <1>1, <2>1, <2>4, <2>5, SendFaith DEF InSend
<1> QED BY <1>2, <1>3

\* A packet or DONE is written.
LEMMA SeqGrows ==
  ASSUME Shape, Talk, Faith, InSend, pc # "status", InSend',
         UNCHANGED <<cur, at, down, others>>,
         NEW m \in Requests, Wrote(m),
         \/ pc' # "status" /\ pos' = pos + 1 /\ m.id = "DATA" /\ m.n = pos + 1
         \/ pc' = "status" /\ pos' = pos /\ m.id = "DONE"
  PROVE  SeqInv'
<1>1. pc # "idle" /\ pos \in Int
  BY DEF InSend, Shape, ClientTypes
<1>2. /\ Broken(cur)' = Broken(cur) /\ Svc' = Svc
      /\ \/ Broken(cur)
         \/ ~Broken(cur) /\ Grown(Up, Up', m)
  BY <1>1, WroteUp
<1>3. CASE Broken(cur)
  <2>1. Broken(cur)'
    BY <1>2, <1>3
  <2> QED BY <2>1 DEF SeqInv
<1>4. CASE ~Broken(cur) /\ Grown(Up, Up', m)
  <2>1. /\ Len(Up) \in Nat /\ Len(Up') = Len(Up) + 1
        /\ \A i \in 1..Len(Up') : (i \in 1..Len(Up) /\ Up'[i] = Up[i]) \/ (i = Len(Up') /\ Up'[i] = m)
    BY <1>4, GrownAll
  <2>2. Left = Len(Up) /\ pos' - Left' = pos - Left /\ pos' \in Int /\ Left' \in Int
    BY <1>1, <2>1 DEF Left
  <2>3. m.id # "DONE" => m.n = pos' - Left' + Len(Up')
    <3> SUFFICES ASSUME m.id # "DONE" PROVE m.n = pos' - Left' + Len(Up')
      OBVIOUS
    <3>1. m.n = pos + 1
      OBVIOUS
    <3> QED BY <1>1, <2>1, <2>2, <3>1
  <2>4. /\ \A i \in 1..Len(Up) : /\ Up[i].id # "DONE" => Up[i].n = pos - Left + i
                                 /\ Up[i].id = "SEND" => Up[i].n = 0
        /\ Svc.pc = "open" => pos = Left
        /\ Svc.pc = "send" /\ Svc.fd # None =>
              /\ Svc.n = pos - Left
              /\ at \notin contested => inode[at][Svc.fd].new >= Svc.n
    BY <1>4 DEF Faith, SeqInv
  <2>5. ASSUME NEW i \in 1..Len(Up')
        PROVE  /\ Up'[i].id # "DONE" => Up'[i].n = pos' - Left' + i
               /\ Up'[i].id = "SEND" => Up'[i].n = 0
    <3>1. CASE i \in 1..Len(Up) /\ Up'[i] = Up[i]
      BY <2>2, <2>4, <3>1
    <3>2. CASE i = Len(Up') /\ Up'[i] = m
      BY <2>3, <3>2
    <3> QED BY <2>1, <3>1, <3>2
  <2>6. pos = Left => pos' = Left'
    <3>1. (pos' = pos + 1 /\ Left' = Left + 1) \/ (pos' = pos /\ Left' = Left)
      BY <2>1 DEF Left
    <3> QED BY <3>1
  <2>7. UNCHANGED <<inode, contested>>
    BY ClientKeeps
  <2> QED BY <1>2, <2>2, <2>4, <2>5, <2>6, <2>7 DEF SeqInv
<1> QED BY <1>2, <1>3, <1>4

LEMMA NoOkayYet ==
  ASSUME Shape, Talk, InSend, pc # "status"
  PROVE  \A i \in 1..Len(Down) : Down[i].id # "OKAY"
BY DEF Talk, SendTalk

LEMMA SendDataFaith ==
  ASSUME Shape, Talk, Faith, SendData
  PROVE  Faith'
<1>1. pc = "data" /\ InSend /\ UNCHANGED <<cmd, cur, at, flag, exit, lcopy, down, others>>
      /\ pos < len[at]
  BY DEF SendData, InSend, HasMore
<1>2. ~flag[at]
  BY <1>1 DEF Faith, FlagInv, Talk, Course
<1>3. \A i \in 1..Len(Down') : Down'[i].id # "OKAY"
  BY <1>1, NoOkayYet DEF Down
<1>4. CASE ClientWrites(Msg("DATA", at, pos + 1)) /\ pos' = pos + 1 /\ UNCHANGED <<pc, told>>
  <2> DEFINE m == Msg("DATA", at, pos + 1)
  <2>1. m \in Requests /\ m.id = "DATA" /\ m.n = pos + 1
    <3>1. pos + 1 \in Nat /\ pos + 1 <= MaxChunks /\ at \in Files
      BY <1>1, TalkTypes DEF Shape, ClientTypes
    <3> QED BY <3>1, RequestType, MsgFields
  <2>2. Wrote(m)
    BY <1>1, <1>4, <2>1, WritesFacts
  <2> HIDE DEF m
  <2>3. InSend'
    BY <1>1, <1>4 DEF InSend
  <2>4. SeqInv'
    BY <1>1, <1>4, <2>1, <2>2, <2>3, SeqGrows
  <2>5. SendInv'
    BY <1>1, <1>3, <1>4 DEF SendInv
  <2> QED BY <1>1, <1>2, <1>4, <2>3, <2>4, <2>5, SendFaith
<1>5. CASE pc' = "done" /\ told' = TRUE /\ UNCHANGED <<pos, up>>
  <2>1. InSend'
    BY <1>5 DEF InSend
  <2>2. SendInv'
    BY <1>3, <1>5 DEF SendInv
  <2>3. SeqInv'
    <3>1. /\ UNCHANGED <<svc, inode, contested, cut>>
      BY <1>1, ClientKeeps
    <3>2. Up' = Up /\ Svc' = Svc /\ Broken(cur)' = Broken(cur)
      BY <1>1, <1>5, <3>1 DEF Up, Svc, Broken
    <3>3. Left' = Left
      BY <1>1, <1>5, <3>2 DEF Left
    <3> QED BY <1>1, <1>5, <3>1, <3>2, <3>3 DEF Faith, SeqInv
  <2> QED BY <1>1, <1>2, <1>5, <2>1, <2>2, <2>3, SendFaith
<1> QED BY <1>4, <1>5 DEF SendData

LEMMA SendDoneFaith ==
  ASSUME Shape, Talk, Faith, SendDone
  PROVE  Faith'
<1>1. /\ pc = "done" \/ (pc = "data" /\ ~(pos < len[at]))
      /\ ClientWrites(Msg("DONE", at, pos)) /\ pc' = "status"
      /\ UNCHANGED <<cmd, cur, at, pos, flag, told, exit, lcopy, down, others>>
  BY DEF SendDone, HasMore
<1>2. InSend /\ pc # "idle" /\ pc # "status" /\ InSend'
  BY <1>1 DEF InSend
<1>3. ~flag[at] /\ pos <= len[at] /\ len[at] \in Nat /\ pos \in Nat
  <2>1. cmd \in Pushes /\ pos <= len[at]
    BY <1>2 DEF Talk, Course
  <2> QED BY <1>2, <2>1, TalkTypes DEF Faith, FlagInv
<1>4. \A i \in 1..Len(Down') : Down'[i].id # "OKAY"
  BY <1>1, <1>2, NoOkayYet DEF Down
<1>5. ~told => pos = len[at]
  <2>1. pc = "done" => told
    BY <1>2 DEF Faith, SendInv
  <2> QED BY <1>1, <1>3, <2>1
<1>6. SendInv'
  BY <1>1, <1>4, <1>5, ClientKeeps DEF SendInv
<1> DEFINE m == Msg("DONE", at, pos)
<1>7. m \in Requests /\ m.id = "DONE"
  <2>1. at \in Files
    BY DEF Shape, ClientTypes
  <2> QED BY <1>3, <2>1, RequestType, MsgFields
<1>8. Wrote(m)
  BY <1>1, <1>2, <1>7, WritesFacts
<1> HIDE DEF m
<1>9. SeqInv'
  BY <1>1, <1>2, <1>7, <1>8, SeqGrows
<1>10. pc \notin {"idle", "ask", "answer", "quit"}
  BY <1>1
<1> QED BY <1>1, <1>2, <1>3, <1>6, <1>9, <1>10, SendFaith

LEMMA SendStatusFaith ==
  ASSUME Shape, Talk, Faith, SendStatus
  PROVE  Faith'
<1>1. pc = "status" /\ down[cur] # <<>> /\ UNCHANGED <<up, others>> /\ InSend
  BY DEF SendStatus, Received, InSend
<1>2. CASE Received("FAIL") /\ FailStatus
  BY <1>2, EndFaith DEF FailStatus, GiveUp, Exit
<1>3. CASE Received("OKAY") /\ Consume /\ Advance
           /\ UNCHANGED <<cmd, cur, pos, flag, told, exit, lcopy>>
  <2>1. 1 \in 1..Len(Down) /\ Down[1].id = "OKAY"
    <3>1. Shrunk(Down, Down') /\ Head(down[cur]) = Down[1]
      BY <1>1, <1>3, ConsumedDown
    <3> QED BY <1>3, <3>1, ShrunkAll DEF Received
  <2>2. ~told /\ at \notin contested => Complete(at)
    BY <1>1, <2>1 DEF Faith, SendInv
  <2>3. cmd \in Pushes /\ cmd \notin Pulls
    BY <1>1 DEF Talk, Course, Pushes, Pulls
  <2>4. pc \in {"copy", "status", "first", "more"}
    BY <1>1
  <2> QED BY <1>1, <1>3, <2>2, <2>3, <2>4, Advances
<1> QED BY <1>2, <1>3 DEF SendStatus

LEMMA RecvFaith ==
  ASSUME Shape, Talk, Faith, InRecv', UNCHANGED <<cmd, cur, at, flag, others>>,
         pc \notin {"idle", "ask", "answer", "quit"}, told' = told,
         \A f \in Files : f # at => lcopy'[f] = lcopy[f], RecvInv'
  PROVE  Faith'
<1>1. pc' \notin {"idle", "ask", "answer", "quit"} /\ ~InSend'
  BY DEF InRecv, InSend
<1>2. DoneInv'
  BY <1>1, KeptDone
<1>3. FlagInv' /\ StatInv'
  BY <1>1, KeptFlags, NoStat
<1>4. SendInv' /\ SeqInv' /\ QuitInv'
  BY <1>1 DEF SendInv, SeqInv, QuitInv
<1> QED BY <1>2, <1>3, <1>4 DEF Faith

LEMMA RecvRequestFaith ==
  ASSUME Shape, Talk, Faith, RecvRequest
  PROVE  Faith'
<1>1. /\ pc = "copy" /\ pc' = "first" /\ RestTalk
      /\ UNCHANGED <<cmd, cur, at, flag, told, exit, lcopy, down, others>>
  BY DEF RecvRequest, Talk, InRest
<1>2. Svc'.pc # "recv" /\ Len(Down') = 0
  BY <1>1, ClientKeeps DEF RestTalk, Svc, Down
<1>3. RecvInv'
  BY <1>2 DEF RecvInv, Finished
<1>4. InRecv'
  BY <1>1 DEF InRecv
<1>5. pc \notin {"idle", "ask", "answer", "quit"}
  BY <1>1
<1> QED BY <1>1, <1>3, <1>4, <1>5, RecvFaith

LEMMA RecvMoreFaith ==
  ASSUME Shape, Talk, Faith, InRecv, RecvMore, UNCHANGED <<up, others>>
  PROVE  Faith'
<1>1. /\ down[cur] # <<>> /\ Head(down[cur]).id = "DATA" /\ Consume /\ pos' = pos + 1
      /\ pc' = "more" /\ lcopy' = [lcopy EXCEPT ![at] = pos + 1]
      /\ UNCHANGED <<cmd, cur, at, flag, told, exit>>
  BY DEF RecvMore, Received
<1>2. pc # "idle" /\ pc \notin {"idle", "ask", "answer", "quit"} /\ InRecv' /\ pos \in Nat
  BY <1>1 DEF InRecv, Shape, ClientTypes
<1>3. Svc' = Svc /\ Shrunk(Down, Down') /\ Head(down[cur]) = Down[1]
  BY <1>1, <1>2, ConsumedDown
<1>4. /\ Len(Down) \in Nat /\ Len(Down') = Len(Down) - 1 /\ Down[1].id = "DATA"
      /\ Len(Down) > 1 => Down'[Len(Down')] = Down[Len(Down)]
  BY <1>1, <1>3, ShrunkAll
<1>5. Finished({"DONE"})' => Finished({"DONE"})
  <2> SUFFICES ASSUME Len(Down') > 0, Down'[Len(Down')].id = "DONE" PROVE Finished({"DONE"})
    BY DEF Finished
  <2>1. Len(Down) > 1
    BY <1>4
  <2> QED BY <1>4, <2>1 DEF Finished
<1>6. pos' + Len(Down') - 1 = pos + Len(Down) - 1
  BY ONLY <1>1, <1>2, <1>4
<1>7. RecvInv'
  <2> SUFFICES ASSUME NEW a, a = at, a \notin contested
               PROVE  RecvInv'
    BY <1>1, ClientKeeps DEF RecvInv
  <2>1. /\ NoWorker(a)' <=> NoWorker(a)
        /\ At(a)' = At(a) /\ path' = path /\ at' = a
    BY <1>1, ClientKeeps
  <2>2. /\ Svc.pc = "recv" => Svc.fd = path[a] /\ NoWorker(a) /\ Svc.n <= At(a).size
        /\ Finished({"DONE"}) =>
              path[a] # None /\ NoWorker(a) /\ pos + Len(Down) - 1 = At(a).size
    BY DEF Faith, RecvInv
  <2> QED BY <1>3, <1>5, <1>6, <2>1, <2>2 DEF RecvInv, At, NoWorker
<1>8. \A f \in Files : f # at => lcopy'[f] = lcopy[f]
  BY <1>1, TalkTypes
<1> QED BY <1>1, <1>2, <1>7, <1>8, RecvFaith

LEMMA RecvLastFaith ==
  ASSUME Shape, Talk, Faith, InRecv, RecvLast, UNCHANGED <<up, others>>
  PROVE  Faith'
<1>1. /\ down[cur] # <<>> /\ Head(down[cur]).id = "DONE" /\ Consume /\ Advance
      /\ lcopy' = [lcopy EXCEPT ![at] = pos]
      /\ UNCHANGED <<cmd, cur, pos, flag, told, exit>>
  BY DEF RecvLast, Received
<1>2. pc # "idle" /\ pc \in {"copy", "status", "first", "more"} /\ pos \in Nat /\ at \in Files
  BY <1>1 DEF InRecv, Shape, ClientTypes
<1>3. Shrunk(Down, Down') /\ Head(down[cur]) = Down[1]
  BY <1>1, <1>2, ConsumedDown
<1>4. Len(Down) = 1 /\ Finished({"DONE"})
  <2>1. 1 \in 1..Len(Down) /\ Len(Down) > 0 /\ Down[1].id = "DONE"
    BY <1>1, <1>3, ShrunkAll
  <2>2. 1 = Len(Down)
    BY <2>1 DEF Talk, RecvTalk
  <2> QED BY <2>1, <2>2 DEF Finished
<1>5. at \notin contested => path[at] # None /\ NoWorker(at) /\ pos + Len(Down) - 1 = At(at).size
  BY <1>4 DEF Faith, RecvInv
<1>6. pos + Len(Down) - 1 = pos
  BY ONLY <1>2, <1>4
<1>7. lcopy'[at] = pos /\ \A f \in Files : f # at => lcopy'[f] = lcopy[f]
  BY <1>1, <1>2, TalkTypes
<1>8. cmd \notin Pushes
  BY DEF Talk, Course, Pushes, Pulls
<1> QED BY <1>1, <1>2, <1>5, <1>6, <1>7, <1>8, Advances

LEMMA RecvDataFaith ==
  ASSUME Shape, Talk, Faith, RecvData
  PROVE  Faith'
<1>1. /\ InRecv /\ pc # "idle" /\ UNCHANGED <<up, others>>
      /\ RecvMore \/ RecvLast \/ RecvFailed \/ RecvStops
  BY RecvCases DEF RecvData, InRecv
<1>2. CASE RecvMore
  BY <1>1, <1>2, RecvMoreFaith
<1>3. CASE RecvLast
  BY <1>1, <1>3, RecvLastFaith
<1>4. CASE RecvFailed
  <2>1. pc' \in {"copy", "quit"} /\ told' = TRUE /\ UNCHANGED <<cmd, flag>>
    BY <1>4, AdvanceFacts DEF RecvFailed
  <2>2. FlagInv' /\ StatInv'
    BY <1>1, <2>1, KeptFlags, NoStat DEF InSend
  <2>3. DoneInv'
    BY <2>1 DEF DoneInv
  <2> QED BY <2>1, <2>2, <2>3, RestFaith
<1>5. CASE RecvStops
  BY <1>5, EndFaith DEF RecvStops, Exit
<1> QED BY <1>1, <1>2, <1>3, <1>4, <1>5

LEMMA QuitFaith ==
  ASSUME Shape, Talk, Faith, Quit
  PROVE  Faith'
<1>1. /\ pc = "quit" /\ pc' = "idle" /\ exit' = 0 /\ RestTalk
      /\ UNCHANGED <<cmd, cur, flag, told, lcopy, others>>
  BY DEF Quit, Exit, Talk, InRest
<1>2. FlagInv' /\ StatInv' /\ SendInv' /\ SeqInv' /\ RecvInv'
  BY <1>1 DEF FlagInv, StatInv, SendInv, SeqInv, RecvInv, InStat, InSend, InRecv
<1>3. DoneInv'
  <2>1. Copied' = Copied /\ cur > 0
    <3>1. cur \in Sessions
      BY <1>1, CurSession
    <3> QED BY <1>1, <3>1 DEF Copied, CopyEnd, Sessions
  <2>2. \A f : Pulled(f)' <=> Pulled(f)
    BY <1>1, ClientKeeps DEF Pulled
  <2> QED BY <1>1, <2>1, <2>2, ClientKeeps DEF Faith, DoneInv
<1>4. QuitInv'
  <2> DEFINE m == Msg("QUIT", 0, 0)
  <2>1. Wrote(m) /\ m \in Requests /\ m.id = "QUIT"
    BY QuitShape, RequestType, MsgFields
  <2> HIDE DEF m
  <2>2. Svc' = Svc /\ (Up' = Up \/ Grown(Up, Up', m))
    BY <1>1, <2>1, WroteUp
  <2>3. \A i \in 1..Len(Up') : Up'[i] = m
    <3>1. CASE Up' = Up
      BY <1>1, <3>1 DEF RestTalk
    <3>2. CASE Grown(Up, Up', m)
      <4>1. \A i \in 1..Len(Up') : i \in 1..Len(Up) \/ Up'[i] = m
        BY <3>2, GrownAll
      <4> QED BY <1>1, <4>1 DEF RestTalk
    <3> QED BY <2>2, <3>1, <3>2
  <2> QED BY <1>1, <2>1, <2>2, <2>3 DEF QuitInv, RestTalk
<1> QED BY <1>2, <1>3, <1>4 DEF Faith

LEMMA BeginFaith ==
  ASSUME Shape, Talk, Faith, NEW c \in Commands, Begin(c)
  PROVE  Faith'
<1>1. /\ cur \in Nat /\ cur < MaxSessions /\ cur' = cur + 1 /\ cmd' = c /\ at' = 1
      /\ pc' \in {"copy", "ask"} /\ flag' = [f \in Files |-> c = "pulldir"]
      /\ UNCHANGED down
  BY DEF Begin, Shape, ClientTypes
<1>2. FlagInv'
  BY <1>1 DEF FlagInv, Pushes, InSend
<1>3. StatInv'
  <2>1. cur + 1 \in Sessions /\ cur + 1 > cur
    BY <1>1, SyncAssumption DEF Sessions
  <2>2. down[cur + 1] = <<>>
    BY <2>1 DEF Shape, Future
  <2>3. Len(Down') = 0
    BY <1>1, <2>2 DEF Down
  <2> QED BY <2>3 DEF StatInv
<1>4. DoneInv'
  <2>1. Copied' = {}
    BY <1>1 DEF Copied
  <2> QED BY <2>1 DEF DoneInv
<1>5. pc' \in {"ask", "answer", "copy", "quit"}
  BY <1>1
<1> QED BY <1>2, <1>3, <1>4, <1>5, RestFaith

\* What arrives of a link that is down was under way before.
LEMMA LinkDownFaith ==
  ASSUME Shape, Talk, Faith, NEW s \in Sessions, LinkDown(s)
  PROVE  Faith'
<1>1. s = cur /\ pc # "idle" /\ Shortened(s) /\ UNCHANGED <<client, svc, remote, fixed>>
  BY LinkDownShape DEF LinkDown
<1>2. /\ UNCHANGED <<pc, cmd, cur, at, pos, flag, told, exit, lcopy>>
      /\ UNCHANGED <<svc, path, inode, contested, len>>
  BY <1>1 DEF client, remote, fixed
<1>3. /\ \A f : /\ Complete(f)' <=> Complete(f)
                /\ NoWorker(f)' <=> NoWorker(f)
                /\ Pulled(f)' <=> Pulled(f)
                /\ At(f)' = At(f)
  BY <1>2 DEF Complete, Pulled, NoWorker, Works, At
<1>4. /\ Copied' = Copied /\ (InStat' <=> InStat) /\ (InSend' <=> InSend) /\ (InRecv' <=> InRecv)
      /\ Svc' = Svc
  BY <1>2 DEF Copied, CopyEnd, InStat, InSend, InRecv, Lists, Svc
<1>5. Len(Down) \in Nat /\ Len(Down') \in 0..Len(Down)
      /\ \A i \in 1..Len(Down') : i \in 1..Len(Down) /\ Down'[i] = Down[i]
  <2>1. down[s] \in Seq(Answers)
    BY SessionTypes
  <2>2. PICK k \in 0..Len(down[s]) : down'[s] = SubSeq(down[s], 1, k)
    BY <1>1 DEF Shortened
  <2>3. Cut(down[s], down'[s])
    BY <2>1, <2>2, PrefixFacts DEF Cut
  <2> QED BY <1>1, <1>2, <2>3 DEF Cut, Down
<1>6. FlagInv' /\ DoneInv'
  BY <1>2, <1>3, <1>4 DEF Faith, FlagInv, DoneInv
<1>7. QuitInv'
  BY <1>1, <1>2 DEF QuitInv
<1>8. StatInv'
  <2> SUFFICES ASSUME cmd = "sync", InStat, NEW i \in 1..Len(Down'), NEW f, f = Down'[i].file,
                      Down'[i].n = Same, f \notin contested
               PROVE  Complete(f)'
    BY <1>2, <1>4 DEF StatInv
  <2>1. Complete(f)
    BY <1>5 DEF Faith, StatInv
  <2> QED BY <1>3, <2>1
<1>9. SendInv'
  <2>1. CASE InSend
    <3> SUFFICES ASSUME NEW a, a = at, ~told, a \notin contested,
                        NEW i \in 1..Len(Down'), Down'[i].id = "OKAY"
                 PROVE  Complete(a)'
      BY <1>2, <2>1, SendInvStep DEF Faith
    <3>1. Complete(a)
      BY <1>5, <2>1 DEF Faith, SendInv
    <3> QED BY <1>3, <3>1
  <2>2. CASE ~InSend
    BY <1>4, <2>2 DEF SendInv
  <2> QED BY <2>1, <2>2
<1>10. SeqInv'
  <2>1. Broken(cur)'
    BY <1>1, <1>2 DEF Broken, Shortened
  <2> QED BY <2>1 DEF SeqInv
<1>11. RecvInv'
  <2> SUFFICES ASSUME InRecv, NEW a, a = at, a \notin contested PROVE RecvInv'
    BY <1>2, <1>4 DEF RecvInv
  <2>1. /\ NoWorker(a)' <=> NoWorker(a)
        /\ At(a)' = At(a) /\ path' = path /\ at' = a
    BY <1>2, <1>3
  <2>2. /\ Svc.pc = "recv" => Svc.fd = path[a] /\ NoWorker(a) /\ Svc.n <= At(a).size
        /\ Finished({"DONE"}) =>
              path[a] # None /\ NoWorker(a) /\ pos + Len(Down) - 1 = At(a).size
    BY DEF Faith, RecvInv
  <2>3. Finished({"DONE"})' => Finished({"DONE"}) /\ Len(Down') = Len(Down)
    <3> SUFFICES ASSUME Len(Down') > 0, Down'[Len(Down')].id = "DONE"
                 PROVE  Finished({"DONE"}) /\ Len(Down') = Len(Down)
      BY DEF Finished
    <3>1. Len(Down') \in 1..Len(Down')
      BY <1>5
    <3>2. Len(Down') \in 1..Len(Down) /\ Down[Len(Down')].id = "DONE"
      BY <1>5, <3>1
    <3>3. Len(Down') = Len(Down)
      BY <3>2 DEF Talk, RecvTalk
    <3> QED BY <3>2, <3>3 DEF Finished
  <2> QED BY <1>2, <1>4, <2>1, <2>2, <2>3 DEF RecvInv, At, NoWorker
<1> QED BY <1>6, <1>7, <1>8, <1>9, <1>10, <1>11 DEF Faith

LEMMA FaithStep ==
  Shape /\ Talk /\ FileInv /\ Stock /\ Faith /\ [Next]_vars => Faith'
<1> SUFFICES ASSUME Shape, Talk, FileInv, Stock, Faith, [Next]_vars PROVE Faith'
  OBVIOUS
<1>1. ASSUME NEW c \in Commands, Begin(c) PROVE Faith'
  BY <1>1, BeginFaith
<1>2. CASE Client
  BY <1>2, AskFaith, StatAnsweredFaith, ListFaith, SkipFaith, SendRequestFaith, SendDataFaith,
     SendDoneFaith, SendStatusFaith, RecvRequestFaith, RecvDataFaith, QuitFaith, LeaveShape,
     EndFaith DEF Client
<1>3. CASE ClientKilled
  BY <1>3, LeaveShape, EndFaith
<1>4. ASSUME NEW s \in Sessions, Service(s) PROVE Faith'
  <2>1. Next
    BY <1>4 DEF Next
  <2>2. Shape'
    BY <2>1, ShapeStep
  <2> QED BY <1>4, <2>2, ServiceFaith
<1>5. ASSUME NEW s \in Sessions, LinkDown(s) PROVE Faith'
  BY <1>5, LinkDownFaith
<1>6. CASE UNCHANGED vars
  BY <1>6, SMTT(60) DEF vars, Faith, FlagInv, StatInv, SendInv, SeqInv, RecvInv, DoneInv, QuitInv, Copied,
              CopyEnd, Left, Complete, Pulled, NoWorker, Works, At, InStat, InSend, InRecv, Lists,
              Finished, Up, Down, Svc, Broken
<1> QED BY <1>1, <1>2, <1>3, <1>4, <1>5, <1>6 DEF Next

LEMMA InitFaith == Init => Faith
BY DEF Init, Faith, FlagInv, StatInv, SendInv, SeqInv, RecvInv, DoneInv, QuitInv, InStat, InSend,
       InRecv

\* A command that ends well and says nothing has done its work: do_sync_push(),
\* do_sync_pull() and do_sync_sync() return 0 only after every file that is theirs
\* arrived whole, whatever fails on the way.
THEOREM HonestHolds == Spec => []Honest
<1>1. Init => Shape /\ Talk /\ FileInv /\ Stock /\ Faith
  BY InitShape, InitTalk, InitFiles, InitStock, InitFaith
<1>2. Shape /\ Talk /\ FileInv /\ Stock /\ Faith /\ [Next]_vars
         => (Shape /\ Talk /\ FileInv /\ Stock /\ Faith)'
  BY ShapeStep, TalkStep, FileStep, StockStep, FaithStep
<1>3. Shape /\ Talk /\ FileInv /\ Stock /\ Faith => Honest
  <2> SUFFICES ASSUME Faith, pc = "idle", cur > 0, exit = 0, ~told,
                      NEW f \in (1..CopyEnd) \ contested
               PROVE  /\ cmd \in {"push", "pushdir", "sync"} => Arrived(f)
                      /\ cmd \in {"pull", "pulldir"} /\ ~flag[f] =>
                            path[f] # None /\ lcopy[f] = At(f).size
    BY DEF Honest
  <2>1. /\ cmd \in Pushes => Complete(f)
        /\ cmd \in Pulls /\ ~flag[f] => Pulled(f)
    BY DEF Faith, DoneInv, Copied
  <2> QED BY <2>1 DEF Pushes, Pulls, Complete, Pulled, Arrived
<1> QED BY <1>1, <1>2, <1>3, PTL DEF Spec
=============================================================================
