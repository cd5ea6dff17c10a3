------------------------- MODULE ClientThreadsProofs -------------------------
(***************************************************************************)
(* What holds of any program whose threads share a client.Detector, as     *)
(* long as it makes its calls with Begin: the types, and that a call on a  *)
(* Connection which no two blocks used at the same time gets its own       *)
(* answer.  The theorems of the programs cite these lemmas.                *)
(***************************************************************************)
EXTENDS ClientThreads, SequenceTheorems, TLAPS

\* Commands that the server answers with one message before it hangs up.
Answered == {"COMMAND", "STOP", "TIME_LEFT", "RUN_STATUS"}

\* A TCP connection belongs to the Connection it was made for.
Sides(o) == {s \in Sockets : s[2] = o}

Placed ==
  /\ \A o \in Objects : {sock[o], reader[o]} \subseteq Sides(o) \cup {None}
  /\ \A t \in Threads :
       /\ at[t] = "idle" => call[t] = None
       /\ at[t] # "idle" => call[t] \in Calls
       /\ at[t] = "assign" => local[t] \in Sides(Object(t)) /\ local[t][1] = t
       /\ at[t] \in {"assign", "write"} => reader[Object(t)] # None
       /\ at[t] \in {"reading", "message"} =>
            waits[t] \in Sides(Object(t)) /\ call[t].command \notin {"START", "CLOSE"}

\* The closes of a call while it is under way: one, and another of update_client.
Due(command) == IF command \in {"START", "FRAME"} THEN {0}
                ELSE IF command = "COMMAND" THEN {1, 2} ELSE {1}

\* The closes of a call, and one more after the end of a stream.
Closing ==
  \A t \in Threads :
    /\ at[t] \in {"connect", "assign", "write"} => call[t].command \notin {"FRAME", "CLOSE"}
    /\ at[t] = "message" => call[t].command # "FRAME"
    /\ at[t] \in {"connect", "assign", "write", "reading", "message"} => closes[t] \in Due(call[t].command)
    /\ at[t] \in {"test", "clear"} => closes[t] >= 1

Begun == {"spawned", "serving", "ending", "hung"}

\* A handler past the first wait for a frame serves a START, and the detector has
\* the acquisition of such a handler.
Served ==
  /\ \A s \in Sockets :
       /\ handler[s] \in Begun => request[s] \in Calls
       /\ handler[s] \in {"spawned", "serving"} => left[s] \in 1..Frames
  /\ acquisition # None => handler[acquisition] \in Begun

SharedInv == ThreadsTypeOK /\ Placed /\ Closing /\ Served

-----------------------------------------------------------------------------
(* A Connection that only one block uses *)

Fresh(s) == request[s] = None /\ handler[s] = "open" /\ replies[s] = <<>>

\* Everything that is said on a TCP connection belongs to calls with this tag.
Speaks(s, tag) ==
  /\ request[s] # None => request[s].tag = tag
  /\ \A i \in 1..Len(replies[s]) : replies[s][i].tag = tag

\* The answers that a command can get.
AnswersTo(command) ==
  IF command = "RUN_STATUS" THEN {"IDLE", "RUNNING"}
  ELSE IF command = "TIME_LEFT" THEN {"reply", "FAIL"} ELSE {"reply"}

\* What it can end with: the text of a FAIL may be lost, and an exit has no answer.
Ends(command) ==
  IF command \in {"START", "CLOSE"} THEN {"none"}
  ELSE AnswersTo(command) \cup (IF command = "TIME_LEFT" THEN {"ConnectionError"} ELSE {})

\* The answer to a call is still to be written, or it is there.
Answering(s, c) ==
  \/ request[s] = c /\ handler[s] = "open" /\ replies[s] = <<>>
  \/ /\ handler[s] = "closed" /\ Len(replies[s]) = 1
     /\ replies[s][1].tag = c.tag /\ replies[s][1].what \in AnswersTo(c.command)

\* Where a call has brought its own Connection.
Own(t) ==
  LET o == Object(t)
      Once == call[t].command \in Answered
  IN
  /\ at[t] \notin {"idle", "connect"} => o \in inside[t]
  /\ at[t] = "assign" => reader[o] = local[t] /\ Fresh(local[t])
  /\ at[t] = "write" => sock[o] = reader[o] /\ sock[o] # None /\ Fresh(sock[o])
  /\ at[t] = "reading" => IF Once THEN Answering(waits[t], call[t]) /\ sock[o] = waits[t]
                          ELSE Speaks(waits[t], call[t].tag)
  /\ at[t] = "message" => call[t].command = "TIME_LEFT" /\ sock[o] = waits[t]
  /\ at[t] = "clear" => sock[o] # None
  /\ call[t].command # "FRAME" =>
       /\ at[t] \in {"connect", "assign", "write", "reading", "message"} => result[t] = "none"
       /\ at[t] \in {"test", "clear"} => result[t] \in Ends(call[t].command)

\* No two threads are in blocks of a Connection that was never crossed.
Solo == \A o \in Objects \ crossed : \A t, u \in Threads :
          o \in inside[t] /\ o \in inside[u] => t = u

OwnInv ==
  /\ Solo
  /\ \A t \in Threads : at[t] # "idle" /\ Object(t) \notin crossed => Own(t)
  /\ crossed = {} => ~mixed /\ \A t \in Threads : result[t] # "error"

-----------------------------------------------------------------------------
(* TCP connections *)

\* The connection that connect makes belongs to its thread and its Connection.
LEMMA NewSocket ==
  ASSUME NEW t \in Threads, NEW o \in Objects, NEW n \in 1..Spares
  PROVE  /\ <<t, o, n>> \in Sides(o) /\ <<t, o, n>> \in Sockets
         /\ <<t, o, n>>[1] = t
  BY DEF Sides, Sockets

\* No TCP connection belongs to two Connections.
LEMMA OneSide ==
  /\ \A o \in Objects : Sides(o) \subseteq Sockets
  /\ \A o, p \in Objects : \A s \in Sides(o) \cap Sides(p) : o = p
  /\ None \notin Sockets
  BY NoneAssumption DEF Sides

\* What connect makes is new: nobody has said anything on it.
LEMMA ConnectMakes ==
  ASSUME SharedInv, NEW t \in Threads, Connect(t)
  PROVE  \E s \in Sides(Object(t)) :
           /\ s[1] = t
           /\ \A u \in Threads : s # local[u] /\ s # waits[u]
           /\ ~Busy(s)
           /\ local' = [local EXCEPT ![t] = s]
           /\ reader' = [reader EXCEPT ![Object(t)] = s]
           /\ request' = [request EXCEPT ![s] = None]
           /\ replies' = [replies EXCEPT ![s] = <<>>]
           /\ handler' = [handler EXCEPT ![s] = "open"]
           /\ left' = [left EXCEPT ![s] = 0]
<1> DEFINE n == CHOOSE m \in Unused(t, Object(t)) : TRUE
           s == <<t, Object(t), n>>
<1>1. n \in Unused(t, Object(t))
  BY DEF Connect
<1>2. Object(t) \in Objects
  BY DEF SharedInv, Placed, Connect, Object, Calls
<1>3. /\ n \in 1..Spares /\ ~Busy(s)
      /\ \A u \in Threads : s # local[u] /\ s # waits[u]
  BY <1>1 DEF Unused
<1>4. s \in Sides(Object(t)) /\ s[1] = t
  BY <1>2, <1>3, NewSocket
<1>5. /\ local' = [local EXCEPT ![t] = s]
      /\ reader' = [reader EXCEPT ![Object(t)] = s]
      /\ request' = [request EXCEPT ![s] = None]
      /\ replies' = [replies EXCEPT ![s] = <<>>]
      /\ handler' = [handler EXCEPT ![s] = "open"]
      /\ left' = [left EXCEPT ![s] = 0]
  BY DEF Connect
<1> HIDE DEF s
<1> QED BY <1>3, <1>4, <1>5

-----------------------------------------------------------------------------
(* Types *)

\* A program starts with everything idle.
LEMMA InitShared == ThreadsInit => SharedInv /\ OwnInv
<1> SUFFICES ASSUME ThreadsInit PROVE SharedInv /\ OwnInv
  OBVIOUS
<1>1. ThreadsTypeOK
  <2>1. Frames \in Nat /\ Foreign \in Nat
    BY ThreadsAssumption
  <2>2. [s \in Sockets |-> <<>>] \in [Sockets -> Seq(Messages)]
    OBVIOUS
  <2>3. replies \in [Sockets -> Seq(Messages)]
    BY <2>2 DEF ThreadsInit
  <2>4. left \in [Sockets -> 0..Frames] /\ foreign \in 0..Foreign
    BY <2>1 DEF ThreadsInit
  <2>5. /\ closes \in [Threads -> 0..3] /\ result \in [Threads -> Results]
        /\ at \in [Threads -> Places] /\ handler \in [Sockets -> Handlers]
    BY DEF ThreadsInit, Places, Results, Handlers
  <2>7. crossed \subseteq Objects /\ mixed \in BOOLEAN
    BY DEF ThreadsInit
  <2>8. inside \in [Threads -> SUBSET Objects]
    BY DEF ThreadsInit
  <2>6. /\ sock \in [Objects -> Sockets \cup {None}] /\ reader \in [Objects -> Sockets \cup {None}]
        /\ local \in [Threads -> Sockets \cup {None}] /\ waits \in [Threads -> Sockets \cup {None}]
        /\ call \in [Threads -> Calls \cup {None}] /\ request \in [Sockets -> Calls \cup {None}]
        /\ acquisition \in Sockets \cup {None}
    BY DEF ThreadsInit
  <2> QED BY <2>3, <2>4, <2>5, <2>6, <2>7, <2>8 DEF ThreadsTypeOK
<1>2. Placed /\ Closing /\ Served
  BY DEF ThreadsInit, Placed, Closing, Served, Begun
<1>3. OwnInv
  BY DEF ThreadsInit, OwnInv, Solo
<1> QED BY <1>1, <1>2, <1>3 DEF SharedInv

\* A call begins; the read of a frame needs a reader.
LEMMA BeginShared ==
  ASSUME SharedInv, NEW t \in Threads, NEW o \in Objects, NEW c \in Commands, NEW tag \in Tags,
         Begin(t, o, c, tag), c = "FRAME" => reader[o] \in Sides(o)
  PROVE  SharedInv'
<1> DEFINE k == [object |-> o, command |-> c, tag |-> tag]
<1>1. /\ k \in Calls /\ k.object = o /\ k.command = c
      /\ call' = [call EXCEPT ![t] = k]
      /\ at' = [at EXCEPT ![t] = IF c = "FRAME" THEN "reading"
                                 ELSE IF c = "CLOSE" THEN "test" ELSE "connect"]
      /\ waits' = IF c = "FRAME" THEN [waits EXCEPT ![t] = reader[o]] ELSE waits
      /\ closes' = [closes EXCEPT ![t] = IF c \in {"START", "FRAME"} THEN 0 ELSE 1]
      /\ result' = [result EXCEPT ![t] = "none"]
      /\ UNCHANGED <<sock, reader, local, inside, crossed, serverVars, mixed>>
  BY DEF Begin, Calls, Goes
<1> HIDE DEF k
<1>2. ThreadsTypeOK'
  BY <1>1, OneSide DEF SharedInv, ThreadsTypeOK, Places, Results, serverVars
<1>3. Placed'
  BY <1>1 DEF SharedInv, ThreadsTypeOK, Placed, Object
<1>4. Closing'
  BY <1>1 DEF SharedInv, ThreadsTypeOK, Closing, Due
<1>5. Served'
  BY <1>1 DEF SharedInv, Served, serverVars
<1> QED BY <1>2, <1>3, <1>4, <1>5 DEF SharedInv

\* connect up to the reader.
LEMMA ConnectShared ==
  ASSUME SharedInv, NEW t \in Threads, Connect(t)
  PROVE  SharedInv'
<1>1. PICK s \in Sides(Object(t)) :
           /\ s[1] = t /\ ~Busy(s)
           /\ local' = [local EXCEPT ![t] = s]
           /\ reader' = [reader EXCEPT ![Object(t)] = s]
           /\ request' = [request EXCEPT ![s] = None]
           /\ replies' = [replies EXCEPT ![s] = <<>>]
           /\ handler' = [handler EXCEPT ![s] = "open"]
           /\ left' = [left EXCEPT ![s] = 0]
  BY ConnectMakes
<1>2. /\ at[t] = "connect" /\ at' = [at EXCEPT ![t] = "assign"]
      /\ inside' = [inside EXCEPT ![t] = @ \cup {Object(t)}]
      /\ crossed' \in {crossed, crossed \cup {Object(t)}}
      /\ UNCHANGED <<sock, waits, call, closes, result, acquisition, foreign, mixed>>
  BY DEF Connect, Goes
<1>3. Object(t) \in Objects /\ s \in Sockets /\ Object(t)' = Object(t)
  BY <1>2, OneSide DEF SharedInv, Placed, Object, Calls
<1>4. ThreadsTypeOK'
  <2>1. <<>> \in Seq(Messages) /\ 0 \in 0..Frames
    BY ThreadsAssumption
  <2>2. replies' \in [Sockets -> Seq(Messages)]
    BY <1>1, <1>3, <2>1 DEF SharedInv, ThreadsTypeOK
  <2>3. left' \in [Sockets -> 0..Frames]
    BY <1>1, <1>3, <2>1 DEF SharedInv, ThreadsTypeOK
  <2> QED BY <1>1, <1>2, <1>3, <2>2, <2>3, OneSide DEF SharedInv, ThreadsTypeOK, Places, Handlers
<1>5. Placed'
  <2>1. \A p \in Objects : reader'[p] \in Sides(p) \cup {None} /\ sock'[p] = sock[p]
    BY <1>1, <1>2, <1>3 DEF SharedInv, ThreadsTypeOK, Placed
  <2>2. \A p \in Objects : reader[p] # None \/ p = Object(t) => reader'[p] # None
    BY <1>1, <1>3, OneSide DEF SharedInv, ThreadsTypeOK
  <2>3. local'[t] = s /\ at'[t] = "assign" /\ Object(t)' = Object(t)
    BY <1>1, <1>2, <1>3 DEF SharedInv, ThreadsTypeOK
  <2>4. \A u \in Threads \ {t} : local'[u] = local[u] /\ at'[u] = at[u]
    BY <1>1, <1>2 DEF SharedInv, ThreadsTypeOK
  <2>5. \A u \in Threads : at[u] # "idle" => Object(u) \in Objects /\ Object(u)' = Object(u)
    BY <1>2 DEF SharedInv, Placed, Object, Calls
  <2> QED BY <1>1, <1>2, <1>3, <2>1, <2>2, <2>3, <2>4, <2>5 DEF SharedInv, Placed
<1>6. Closing'
  BY <1>2 DEF SharedInv, ThreadsTypeOK, Closing
<1>7. Served'
  BY <1>1, <1>2, <1>3 DEF SharedInv, ThreadsTypeOK, Served, Begun, Busy
<1> QED BY <1>4, <1>5, <1>6, <1>7 DEF SharedInv

\* The socket is stored.
LEMMA AssignShared ==
  ASSUME SharedInv, NEW t \in Threads, Assign(t)
  PROVE  SharedInv'
<1>1. /\ at[t] = "assign" /\ at' = [at EXCEPT ![t] = "write"]
      /\ sock' = [sock EXCEPT ![Object(t)] = local[t]]
      /\ local' = [local EXCEPT ![t] = None]
      /\ UNCHANGED <<reader, waits, call, closes, result, inside, crossed, serverVars, mixed>>
  BY DEF Assign, Goes
<1>2. Object(t) \in Objects /\ local[t] \in Sides(Object(t)) /\ local[t] \in Sockets
  BY <1>1, OneSide DEF SharedInv, Placed, Object, Calls
<1>3. ThreadsTypeOK'
  BY <1>1, <1>2 DEF SharedInv, ThreadsTypeOK, Places, serverVars
<1>4. Placed'
  BY <1>1, <1>2 DEF SharedInv, ThreadsTypeOK, Placed, Object
<1>5. Closing' /\ Served'
  BY <1>1 DEF SharedInv, ThreadsTypeOK, Closing, Served, serverVars
<1> QED BY <1>3, <1>4, <1>5 DEF SharedInv

\* The command is written on the socket of this moment.
LEMMA WriteShared ==
  ASSUME SharedInv, NEW t \in Threads, Write(t)
  PROVE  SharedInv'
<1> DEFINE o == Object(t)
<1>1. /\ at[t] = "write" /\ sock[o] # None
      /\ request' = IF request[sock[o]] = None /\ handler[sock[o]] = "open"
                    THEN [request EXCEPT ![sock[o]] = call[t]] ELSE request
      /\ UNCHANGED <<sock, reader, local, closes, inside, crossed, replies, handler, left,
                     acquisition, foreign, mixed>>
  BY DEF Write
<1>2. o \in Objects /\ call[t] \in Calls /\ sock[o] \in Sides(o) /\ reader[o] \in Sides(o)
  BY <1>1 DEF SharedInv, Placed, Object, Calls
<1>3. \/ /\ call[t].command = "START"
         /\ at' = [at EXCEPT ![t] = "idle"]
         /\ call' = [call EXCEPT ![t] = None]
         /\ result' = [result EXCEPT ![t] = "reply"]
         /\ UNCHANGED waits
      \/ /\ call[t].command # "START"
         /\ at' = [at EXCEPT ![t] = "reading"]
         /\ waits' = [waits EXCEPT ![t] = reader[o]]
         /\ UNCHANGED <<call, result>>
  BY DEF Write, Goes
<1>4. ThreadsTypeOK'
  BY <1>1, <1>2, <1>3, OneSide DEF SharedInv, ThreadsTypeOK, Places, Results, Answers
<1>5. Placed'
  <2>1. call[t].command # "CLOSE"
    BY <1>1 DEF SharedInv, Closing
  <2>2. CASE call[t].command = "START"
    <3>1. at'[t] = "idle" /\ call'[t] = None
      BY <1>3, <2>2 DEF SharedInv, ThreadsTypeOK
    <3>2. \A u \in Threads \ {t} : at'[u] = at[u] /\ call'[u] = call[u] /\ waits'[u] = waits[u]
      BY <1>3, <2>2 DEF SharedInv, ThreadsTypeOK
    <3>3. UNCHANGED <<sock, reader, local>>
      BY <1>1
    <3> QED BY <3>1, <3>2, <3>3 DEF SharedInv, Placed, Object
  <2>3. CASE call[t].command # "START"
    BY <1>1, <1>2, <1>3, <2>1, <2>3 DEF SharedInv, ThreadsTypeOK, Placed, Object
  <2> QED BY <2>2, <2>3
<1>6. Closing'
  BY <1>1, <1>3 DEF SharedInv, ThreadsTypeOK, Closing, Due
<1>7. Served'
  BY <1>1, <1>2, OneSide DEF SharedInv, ThreadsTypeOK, Served, Begun
<1> QED BY <1>4, <1>5, <1>6, <1>7 DEF SharedInv

\* There is no socket to write to, or to receive from.
LEMMA SocketGoneShared ==
  ASSUME SharedInv, NEW t \in Threads, SocketGone(t)
  PROVE  SharedInv'
<1>1. /\ at[t] \in {"write", "message"} /\ at' = [at EXCEPT ![t] = "test"]
      /\ result' = [result EXCEPT ![t] = "error"]
      /\ closes' = [closes EXCEPT ![t] = IF closes[t] = 0 THEN 1 ELSE closes[t]]
      /\ waits' = [waits EXCEPT ![t] = None]
      /\ UNCHANGED <<sock, reader, local, call, inside, crossed, serverVars, mixed>>
  BY DEF SocketGone, Goes
<1>2. ThreadsTypeOK'
  BY <1>1 DEF SharedInv, ThreadsTypeOK, Places, Results, serverVars
<1>3. closes[t] \in 0..3
  BY DEF SharedInv, ThreadsTypeOK
<1>4. Placed' /\ Closing' /\ Served'
  BY <1>1, <1>3 DEF SharedInv, ThreadsTypeOK, Placed, Closing, Served, Object, serverVars
<1> QED BY <1>2, <1>4 DEF SharedInv

\* What a message is taken for is a result.
LEMMA UnderstoodType ==
  ASSUME NEW t \in Threads, NEW m \in Messages
  PROVE  Understood(t, m) \subseteq Results
  BY DEF Understood, Messages, Results

\* A thread's read returns the bytes of a message.
Reads(t) == TakeFrame(t) \/ TakeReply(t) \/ UpdateClient(t) \/ TakeFail(t)

\* A message is taken, and the call goes on from there.
LEMMA ReadsEffect ==
  ASSUME NEW t \in Threads, Reads(t)
  PROVE  \E what \in Results :
           /\ at[t] = "reading" /\ Takes(t, what)
           /\ \/ /\ call[t].command = "FRAME"
                 /\ at' = [at EXCEPT ![t] = "idle"] /\ call' = [call EXCEPT ![t] = None]
                 /\ waits' = [waits EXCEPT ![t] = None] /\ UNCHANGED closes
                 /\ result' = [result EXCEPT ![t] = what]
              \/ /\ call[t].command # "FRAME" /\ what # "FAIL"
                 /\ at' = [at EXCEPT ![t] = "test"] /\ UNCHANGED <<call, closes>>
                 /\ waits' = [waits EXCEPT ![t] = None]
                 /\ result' = [result EXCEPT ![t] = what]
              \/ /\ call[t].command = "COMMAND" /\ what # "FAIL"
                 /\ at' = [at EXCEPT ![t] = "connect"] /\ UNCHANGED <<call, result>>
                 /\ waits' = [waits EXCEPT ![t] = None]
                 /\ closes' = [closes EXCEPT ![t] = 2]
              \/ /\ call[t].command # "FRAME" /\ what = "FAIL"
                 /\ at' = [at EXCEPT ![t] = "message"]
                 /\ UNCHANGED <<call, closes, waits, result>>
<1>1. CASE TakeFrame(t)
  BY <1>1 DEF TakeFrame, Goes
<1>2. CASE TakeReply(t)
  BY <1>2 DEF TakeReply, Goes
<1>3. CASE UpdateClient(t)
  BY <1>3 DEF UpdateClient, Goes, Results, Answers
<1>4. CASE TakeFail(t)
  BY <1>4 DEF TakeFail, Goes, Results, Answers
<1> QED BY <1>1, <1>2, <1>3, <1>4 DEF Reads

\* A message that is taken is the first one there.
LEMMA TakesEffect ==
  ASSUME SharedInv, NEW t \in Threads, at[t] = "reading", NEW what, Takes(t, what)
  PROVE  /\ waits[t] \in Sockets /\ replies[waits[t]] # <<>> /\ replies[waits[t]] \in Seq(Messages)
         /\ Head(replies[waits[t]]) \in Messages
         /\ replies' = [replies EXCEPT ![waits[t]] = Tail(replies[waits[t]])]
         /\ replies' \in [Sockets -> Seq(Messages)]
         /\ what \in Understood(t, Head(replies[waits[t]])) /\ what \in Results
         /\ mixed' = (mixed \/ Head(replies[waits[t]]).tag # call[t].tag) /\ mixed' \in BOOLEAN
         /\ UNCHANGED <<sock, reader, local, inside, crossed, request, handler, left,
                        acquisition, foreign>>
<1> DEFINE s == waits[t]
<1>1. /\ replies[s] # <<>> /\ what \in Understood(t, Head(replies[s]))
      /\ replies' = [replies EXCEPT ![s] = Tail(@)]
      /\ mixed' = (mixed \/ Head(replies[s]).tag # call[t].tag)
      /\ UNCHANGED <<sock, reader, local, inside, crossed, request, handler, left,
                     acquisition, foreign>>
  BY DEF Takes
<1>2. s \in Sockets /\ replies[s] \in Seq(Messages)
  BY OneSide DEF SharedInv, ThreadsTypeOK, Placed, Object, Calls
<1>3. Head(replies[s]) \in Messages /\ Tail(replies[s]) \in Seq(Messages)
  BY <1>1, <1>2, HeadTailProperties
<1>4. what \in Results
  BY <1>1, <1>3, UnderstoodType
<1> HIDE DEF s
<1>5. replies' \in [Sockets -> Seq(Messages)]
  BY <1>1, <1>2, <1>3 DEF SharedInv, ThreadsTypeOK
<1>6. mixed' \in BOOLEAN
  BY <1>1 DEF SharedInv, ThreadsTypeOK
<1> QED BY <1>1, <1>2, <1>3, <1>4, <1>5, <1>6 DEF s

\* The same for each thread: the others are where they were.
LEMMA ReadsStep ==
  ASSUME SharedInv, NEW t \in Threads, Reads(t)
  PROVE  /\ \A u \in Threads \ {t} : /\ at'[u] = at[u] /\ call'[u] = call[u] /\ waits'[u] = waits[u]
                                     /\ result'[u] = result[u] /\ closes'[u] = closes[u]
         /\ \E what \in Results :
              /\ at[t] = "reading" /\ Takes(t, what)
              /\ \/ /\ call[t].command = "FRAME"
                    /\ at'[t] = "idle" /\ call'[t] = None /\ waits'[t] = None
                    /\ closes'[t] = closes[t] /\ result'[t] = what
                 \/ /\ call[t].command # "FRAME" /\ what # "FAIL"
                    /\ at'[t] = "test" /\ call'[t] = call[t] /\ waits'[t] = None
                    /\ closes'[t] = closes[t] /\ result'[t] = what
                 \/ /\ call[t].command = "COMMAND" /\ what # "FAIL"
                    /\ at'[t] = "connect" /\ call'[t] = call[t] /\ waits'[t] = None
                    /\ closes'[t] = 2 /\ result'[t] = result[t]
                 \/ /\ call[t].command # "FRAME" /\ what = "FAIL"
                    /\ at'[t] = "message" /\ call'[t] = call[t] /\ waits'[t] = waits[t]
                    /\ closes'[t] = closes[t] /\ result'[t] = result[t]
<1>1. /\ at \in [Threads -> Places] /\ call \in [Threads -> Calls \cup {None}]
      /\ waits \in [Threads -> Sockets \cup {None}] /\ closes \in [Threads -> 0..3]
      /\ result \in [Threads -> Results]
  BY DEF SharedInv, ThreadsTypeOK
<1>2. CASE TakeFrame(t)
  BY <1>1, <1>2 DEF TakeFrame, Goes
<1>3. CASE TakeReply(t)
  BY <1>1, <1>3 DEF TakeReply, Goes
<1>4. CASE UpdateClient(t)
  BY <1>1, <1>4 DEF UpdateClient, Goes, Results, Answers
<1>5. CASE TakeFail(t)
  BY <1>1, <1>5 DEF TakeFail, Goes, Results, Answers
<1> QED BY <1>2, <1>3, <1>4, <1>5 DEF Reads

\* A message is taken.
LEMMA ReadsShared ==
  ASSUME SharedInv, NEW t \in Threads, Reads(t)
  PROVE  SharedInv'
<1>1. PICK what \in Results :
        /\ at[t] = "reading" /\ Takes(t, what)
        /\ \/ /\ call[t].command = "FRAME"
              /\ at' = [at EXCEPT ![t] = "idle"] /\ call' = [call EXCEPT ![t] = None]
              /\ waits' = [waits EXCEPT ![t] = None] /\ UNCHANGED closes
              /\ result' = [result EXCEPT ![t] = what]
           \/ /\ call[t].command # "FRAME"
              /\ at' = [at EXCEPT ![t] = "test"] /\ UNCHANGED <<call, closes>>
              /\ waits' = [waits EXCEPT ![t] = None]
              /\ result' = [result EXCEPT ![t] = what]
           \/ /\ call[t].command = "COMMAND"
              /\ at' = [at EXCEPT ![t] = "connect"] /\ UNCHANGED <<call, result>>
              /\ waits' = [waits EXCEPT ![t] = None]
              /\ closes' = [closes EXCEPT ![t] = 2]
           \/ /\ call[t].command # "FRAME"
              /\ at' = [at EXCEPT ![t] = "message"]
              /\ UNCHANGED <<call, closes, waits, result>>
  BY ReadsEffect
<1>2. /\ replies' \in [Sockets -> Seq(Messages)] /\ mixed' \in BOOLEAN
      /\ UNCHANGED <<sock, reader, local, inside, crossed, request, handler, left,
                     acquisition, foreign>>
  BY <1>1, TakesEffect
<1>3. ThreadsTypeOK'
  <2>0. /\ result' \in {result, [result EXCEPT ![t] = what]}
        /\ closes' \in {closes, [closes EXCEPT ![t] = 2]}
    BY <1>1
  <2>1. result' \in [Threads -> Results] /\ closes' \in [Threads -> 0..3]
    <3>1. result \in [Threads -> Results] /\ closes \in [Threads -> 0..3]
      BY DEF SharedInv, ThreadsTypeOK
    <3>2. result' \in [Threads -> Results]
      BY <2>0, <3>1
    <3>3. closes' \in [Threads -> 0..3]
      BY <2>0, <3>1
    <3> QED BY <3>2, <3>3
  <2>2. /\ at' \in [Threads -> Places] /\ call' \in [Threads -> Calls \cup {None}]
        /\ waits' \in [Threads -> Sockets \cup {None}]
    BY <1>1 DEF SharedInv, ThreadsTypeOK, Places
  <2> QED BY <1>2, <2>1, <2>2 DEF SharedInv, ThreadsTypeOK
<1>4. Placed' /\ Served'
  BY <1>1, <1>2 DEF SharedInv, ThreadsTypeOK, Placed, Served, Object
<1>5. Closing'
  <2>1. closes[t] \in Due(call[t].command) /\ (call[t].command # "FRAME" => closes[t] >= 1)
    BY <1>1 DEF SharedInv, Closing, Placed, Due
  <2> QED BY <1>1, <2>1 DEF SharedInv, ThreadsTypeOK, Closing, Due
<1> QED BY <1>3, <1>4, <1>5 DEF SharedInv

\* The text of an error, or what is there instead of it.
LEMMA TakeMessageShared ==
  ASSUME SharedInv, NEW t \in Threads, TakeMessage(t)
  PROVE  SharedInv'
<1> DEFINE s == sock[Object(t)]
<1>1. /\ at[t] = "message" /\ s # None /\ at' = [at EXCEPT ![t] = "test"]
      /\ waits' = [waits EXCEPT ![t] = None]
      /\ closes' \in {closes, [closes EXCEPT ![t] = closes[t] + 1]}
      /\ mixed' \in {mixed, TRUE}
      /\ result' \in {[result EXCEPT ![t] = "FAIL"], [result EXCEPT ![t] = "ConnectionError"],
                      [result EXCEPT ![t] = "foreign"]}
      /\ replies' = replies \/ (replies[s] # <<>> /\ replies' = [replies EXCEPT ![s] = Tail(@)])
      /\ UNCHANGED <<sock, reader, local, call, inside, crossed, request, handler, left,
                     acquisition, foreign>>
  BY DEF TakeMessage, Goes
<1>2. s \in Sockets /\ replies[s] \in Seq(Messages)
  BY <1>1, OneSide DEF SharedInv, ThreadsTypeOK, Placed, Object, Calls
<1>3. closes[t] \in 1..2
  BY <1>1 DEF SharedInv, Closing, Placed, Due
<1> HIDE DEF s
<1>4. ThreadsTypeOK'
  <2>1. replies' \in [Sockets -> Seq(Messages)]
    <3>1. replies[s] # <<>> => Tail(replies[s]) \in Seq(Messages)
      BY <1>2, HeadTailProperties
    <3>2. CASE replies' = replies
      BY <3>2 DEF SharedInv, ThreadsTypeOK
    <3>3. CASE replies[s] # <<>> /\ replies' = [replies EXCEPT ![s] = Tail(@)]
      BY <1>2, <3>1, <3>3 DEF SharedInv, ThreadsTypeOK
    <3> QED BY <1>1, <3>2, <3>3
  <2>2. mixed' \in BOOLEAN /\ result' \in [Threads -> Results]
    <3>1. {"FAIL", "ConnectionError", "foreign"} \subseteq Results
      BY DEF Results, Answers
    <3>2. mixed \in BOOLEAN /\ result \in [Threads -> Results]
      BY DEF SharedInv, ThreadsTypeOK
    <3>3. mixed' \in BOOLEAN
      BY <1>1, <3>2
    <3>4. result' \in [Threads -> Results]
      BY <1>1, <3>1, <3>2
    <3> QED BY <3>3, <3>4
  <2>3. closes' \in [Threads -> 0..3]
    <3>1. closes[t] + 1 \in 0..3
      BY <1>3
    <3> QED BY <1>1, <3>1 DEF SharedInv, ThreadsTypeOK
  <2> QED BY <1>1, <2>1, <2>2, <2>3 DEF SharedInv, ThreadsTypeOK, Places
<1>5. Placed' /\ Served'
  BY <1>1 DEF SharedInv, ThreadsTypeOK, Placed, Served, Object
<1>6. Closing'
  BY <1>1, <1>3 DEF SharedInv, ThreadsTypeOK, Closing
<1> QED BY <1>4, <1>5, <1>6 DEF SharedInv

\* The end of a stream.
LEMMA TakeEofShared ==
  ASSUME SharedInv, NEW t \in Threads, TakeEof(t)
  PROVE  SharedInv'
<1>1. /\ at[t] = "reading" /\ at' = [at EXCEPT ![t] = "test"]
      /\ result' = [result EXCEPT ![t] = "ConnectionError"]
      /\ closes' = [closes EXCEPT ![t] = closes[t] + 1]
      /\ waits' = [waits EXCEPT ![t] = None]
      /\ UNCHANGED <<sock, reader, local, call, inside, crossed, serverVars, mixed>>
  BY DEF TakeEof, Goes
<1>2. closes[t] \in 0..2
  BY <1>1 DEF SharedInv, Closing, Due
<1>3. ThreadsTypeOK'
  BY <1>1, <1>2 DEF SharedInv, ThreadsTypeOK, Places, Results, serverVars
<1>4. Placed' /\ Served'
  BY <1>1 DEF SharedInv, ThreadsTypeOK, Placed, Served, Object, serverVars
<1>5. Closing'
  BY <1>1, <1>2 DEF SharedInv, ThreadsTypeOK, Closing
<1> QED BY <1>3, <1>4, <1>5 DEF SharedInv

\* One close is done: the next one begins, or the call is over.
LEMMA ClosedEffect ==
  ASSUME SharedInv, NEW t \in Threads, at[t] \in {"test", "clear"}, Closed(t)
  PROVE  /\ closes[t] \in 1..3 /\ closes' = [closes EXCEPT ![t] = closes[t] - 1]
         /\ \/ /\ closes[t] > 1
               /\ at' = [at EXCEPT ![t] = "test"]
               /\ UNCHANGED <<call, inside>>
            \/ /\ closes[t] = 1
               /\ at' = [at EXCEPT ![t] = "idle"]
               /\ call' = [call EXCEPT ![t] = None]
               /\ inside' \in {inside, [inside EXCEPT ![t] = @ \ {Object(t)}]}
  BY DEF SharedInv, ThreadsTypeOK, Closing, Closed, Goes

\* The close of a call, in its two steps.
LEMMA CloseShared ==
  ASSUME SharedInv, NEW t \in Threads, CloseTest(t) \/ CloseClear(t)
  PROVE  SharedInv'
<1>1. /\ at[t] \in {"test", "clear"}
      /\ sock' \in {sock, [sock EXCEPT ![Object(t)] = None]}
      /\ result' \in {result, [result EXCEPT ![t] = "error"]}
      /\ UNCHANGED <<reader, local, waits, crossed, serverVars, mixed>>
  BY DEF CloseTest, CloseClear
<1>2. \/ /\ at' = [at EXCEPT ![t] = "clear"]
         /\ UNCHANGED <<call, closes, inside>>
      \/ Closed(t)
  BY DEF CloseTest, CloseClear, Goes
<1>3. ThreadsTypeOK'
  <2>1. sock' \in [Objects -> Sockets \cup {None}]
    BY <1>1 DEF SharedInv, ThreadsTypeOK
  <2>2. result' \in [Threads -> Results]
    BY <1>1 DEF SharedInv, ThreadsTypeOK, Results
  <2>3. CASE at' = [at EXCEPT ![t] = "clear"] /\ UNCHANGED <<call, closes, inside>>
    BY <1>1, <2>1, <2>2, <2>3 DEF SharedInv, ThreadsTypeOK, Places, serverVars
  <2>4. CASE Closed(t)
    <3>1. inside[t] \ {Object(t)} \in SUBSET Objects
      BY DEF SharedInv, ThreadsTypeOK
    <3>2. inside' \in [Threads -> SUBSET Objects]
      <4>1. inside' \in {inside, [inside EXCEPT ![t] = @ \ {Object(t)}]}
        BY <1>1, <2>4, ClosedEffect
      <4> QED BY <3>1, <4>1 DEF SharedInv, ThreadsTypeOK
    <3>3. closes' \in [Threads -> 0..3]
      <4>1. closes[t] - 1 \in 0..3 /\ closes' = [closes EXCEPT ![t] = closes[t] - 1]
        BY <1>1, <2>4, ClosedEffect
      <4> QED BY <4>1 DEF SharedInv, ThreadsTypeOK
    <3>4. at' \in [Threads -> Places] /\ call' \in [Threads -> Calls \cup {None}]
      BY ZenonT(60), <1>1, <2>4, ClosedEffect DEF SharedInv, ThreadsTypeOK, Places
    <3> QED BY <1>1, <2>1, <2>2, <3>2, <3>3, <3>4 DEF SharedInv, ThreadsTypeOK, serverVars
  <2> QED BY <1>2, <2>3, <2>4
<1>4. Placed'
  <2>1. \A o \in Objects : sock'[o] \in Sides(o) \cup {None}
    BY <1>1 DEF SharedInv, ThreadsTypeOK, Placed
  <2>2. CASE at' = [at EXCEPT ![t] = "clear"] /\ UNCHANGED <<call, closes, inside>>
    BY <1>1, <2>1, <2>2 DEF SharedInv, ThreadsTypeOK, Placed, Object
  <2>3. CASE Closed(t)
    <3>1. \/ at' = [at EXCEPT ![t] = "test"] /\ UNCHANGED call
          \/ at' = [at EXCEPT ![t] = "idle"] /\ call' = [call EXCEPT ![t] = None]
      BY <1>1, <2>3, ClosedEffect
    <3>2. \A o \in Objects : {sock'[o], reader'[o]} \subseteq Sides(o) \cup {None}
      BY <1>1, <2>1 DEF SharedInv, Placed
    <3>3. /\ at' \in [Threads -> Places] /\ at'[t] \in {"test", "idle"}
          /\ at'[t] = "test" => call'[t] \in Calls
          /\ at'[t] = "idle" => call'[t] = None
      BY ZenonT(60), <1>1, <3>1 DEF SharedInv, ThreadsTypeOK, Placed, Places
    <3>4. ASSUME NEW u \in Threads \ {t} PROVE at'[u] = at[u] /\ call'[u] = call[u]
      BY <3>1 DEF SharedInv, ThreadsTypeOK
    <3>5. UNCHANGED <<reader, local, waits>>
      BY <1>1
    <3> QED BY <3>2, <3>3, <3>4, <3>5 DEF SharedInv, Placed, Object
  <2> QED BY <1>2, <2>2, <2>3
<1>5. Closing'
  <2>1. CASE at' = [at EXCEPT ![t] = "clear"] /\ UNCHANGED <<call, closes, inside>>
    BY <1>1, <2>1 DEF SharedInv, ThreadsTypeOK, Closing
  <2>2. CASE Closed(t)
    <3>1. closes'[t] = closes[t] - 1 /\ closes[t] \in 1..3
          /\ at'[t] = (IF closes[t] > 1 THEN "test" ELSE "idle")
      BY <1>1, <2>2, ClosedEffect DEF SharedInv, ThreadsTypeOK
    <3>2. \A u \in Threads \ {t} : at'[u] = at[u] /\ call'[u] = call[u] /\ closes'[u] = closes[u]
      BY <1>1, <2>2, ClosedEffect DEF SharedInv, ThreadsTypeOK
    <3> QED BY <3>1, <3>2 DEF SharedInv, Closing
  <2> QED BY <1>2, <2>1, <2>2
<1>6. Served'
  BY <1>1 DEF SharedInv, Served, serverVars
<1> QED BY <1>3, <1>4, <1>5, <1>6 DEF SharedInv

\* Every step of a call keeps the types.
LEMMA CallShared ==
  ASSUME SharedInv, NEW t \in Threads, CallStep(t)
  PROVE  SharedInv'
  BY ConnectShared, AssignShared, WriteShared, SocketGoneShared, ReadsShared, TakeMessageShared,
     TakeEofShared, CloseShared DEF CallStep, Reads

-----------------------------------------------------------------------------
(* What a step of the simulator does *)

ServerTypes ==
  /\ request' \in [Sockets -> Calls \cup {None}]
  /\ replies' \in [Sockets -> Seq(Messages)]
  /\ handler' \in [Sockets -> Handlers]
  /\ left' \in [Sockets -> 0..Frames]
  /\ acquisition' \in Sockets \cup {None}
  /\ foreign' \in 0..Foreign

\* Other connections can only have their acquisition killed.
Elsewhere(x) ==
  /\ request'[x] = request[x] /\ replies'[x] = replies[x] /\ left'[x] = left[x]
  /\ handler'[x] \in {handler[x], Killed(x)}

\* A message that belongs to the command of the connection is written to it.
Spoke(s) ==
  \E what \in Answers : replies'[s] = Append(replies[s], [tag |-> request[s].tag, what |-> what])

\* It is an answer to the command.
Replied(s) ==
  \E what \in AnswersTo(request[s].command) :
    replies'[s] = Append(replies[s], [tag |-> request[s].tag, what |-> what])

\* The connection itself goes on with its command, and is over after the answer.
Onwards(s) ==
  /\ request[s] \in Calls /\ handler[s] # "closed"
  /\ request'[s] \in {request[s], None}
  /\ replies'[s] = replies[s] \/ Spoke(s)
  /\ handler'[s] \in {"spawned", "serving"} => left'[s] \in 1..Frames
  /\ handler'[s] \in Begun => request'[s] = request[s]
  /\ request[s].command \in Answered /\ handler[s] = "open" =>
       handler'[s] = "closed" /\ request'[s] = None /\ (Connected(s) => Replied(s))

ServerFx(s) ==
  /\ UNCHANGED clientVars /\ ServerTypes
  /\ \A x \in Sockets \ {s} : Elsewhere(x)
  /\ Onwards(s)

\* A message is written for a client that is there.
LEMMA SaysEffect ==
  ASSUME SharedInv, NEW s \in Sockets, NEW what \in Answers, request[s] \in Calls,
         Says(s, Tag(s), what)
  PROVE  /\ replies' \in [Sockets -> Seq(Messages)]
         /\ \A x \in Sockets \ {s} : replies'[x] = replies[x]
         /\ replies'[s] = replies[s] \/ Spoke(s)
         /\ Connected(s) =>
              replies'[s] = Append(replies[s], [tag |-> request[s].tag, what |-> what])
<1> DEFINE m == [tag |-> request[s].tag, what |-> what]
<1>1. m \in Messages
  BY DEF Messages, Calls
<1>2. replies' = IF Connected(s) THEN [replies EXCEPT ![s] = Append(@, m)] ELSE replies
  BY DEF Says, Tag
<1> HIDE DEF m
<1>3. Append(replies[s], m) \in Seq(Messages)
  BY <1>1, AppendProperties DEF SharedInv, ThreadsTypeOK
<1>4. replies[s] = replies'[s] \/ replies'[s] = Append(replies[s], m)
  BY <1>2 DEF SharedInv, ThreadsTypeOK
<1>5. Connected(s) => replies'[s] = Append(replies[s], m)
  BY <1>2 DEF SharedInv, ThreadsTypeOK
<1>6. replies' \in [Sockets -> Seq(Messages)] /\ \A x \in Sockets \ {s} : replies'[x] = replies[x]
  BY <1>2, <1>3 DEF SharedInv, ThreadsTypeOK
<1> QED BY <1>4, <1>5, <1>6 DEF Spoke, m

\* A kill leaves a handler of which there is one.
LEMMA KilledType ==
  ASSUME SharedInv, NEW x \in Sockets
  PROVE  /\ Killed(x) \in Handlers
         /\ Killed(x) \in Begun <=> handler[x] \in Begun
         /\ Killed(x) \notin {"spawned", "serving"}
         /\ handler[x] \in {"open", "closed"} => Killed(x) = handler[x]
         /\ Killed(x) = "open" => handler[x] = "open"
  BY DEF Killed, Handlers, Begun, SharedInv, ThreadsTypeOK

\* A command that is no START is answered.
LEMMA ServeEffect ==
  ASSUME SharedInv, NEW s \in Sockets,
         ServeCommand(s) \/ ServeTimeLeft(s) \/ ServeRunStatus(s) \/ ServeStop(s)
  PROVE  ServerFx(s)
<1>1. /\ handler[s] = "open" /\ request[s] # None
      /\ request' = [request EXCEPT ![s] = None]
      /\ UNCHANGED <<clientVars, foreign, left, acquisition>>
  BY DEF ServeCommand, ServeTimeLeft, ServeRunStatus, ServeStop, Asked, HangUp
<1>2. PICK what \in AnswersTo(request[s].command) : Says(s, Tag(s), what) /\ what \in Answers
  <2>1. CASE ServeCommand(s) \/ ServeStop(s)
    BY <2>1 DEF ServeCommand, ServeStop, Asked, AnswersTo, Answers
  <2>2. CASE ServeTimeLeft(s)
    BY <2>2 DEF ServeTimeLeft, Asked, AnswersTo, Answers
  <2>3. CASE ServeRunStatus(s)
    BY <2>3 DEF ServeRunStatus, Asked, AnswersTo, Answers
  <2> QED BY <2>1, <2>2, <2>3
<1>3. request[s] \in Calls
  BY <1>1 DEF SharedInv, ThreadsTypeOK
<1>4. /\ replies' \in [Sockets -> Seq(Messages)]
      /\ \A x \in Sockets \ {s} : replies'[x] = replies[x]
      /\ replies'[s] = replies[s] \/ Spoke(s)
      /\ Connected(s) => Replied(s)
  BY <1>2, <1>3, SaysEffect DEF Replied
<1>5. /\ handler' \in [Sockets -> Handlers] /\ handler'[s] = "closed"
      /\ \A x \in Sockets \ {s} : handler'[x] \in {handler[x], Killed(x)}
  <2>1. CASE handler' = [handler EXCEPT ![s] = "closed"]
    BY <2>1 DEF SharedInv, ThreadsTypeOK, Handlers
  <2>2. CASE /\ acquisition # None
             /\ handler' = [handler EXCEPT ![s] = "closed", ![acquisition] = Killed(acquisition)]
    <3>1. acquisition \in Sockets /\ Killed(acquisition) \in Handlers
      BY <2>2, KilledType DEF SharedInv, ThreadsTypeOK
    <3>2. acquisition # s
      BY <1>1, <2>2 DEF SharedInv, Served, Begun
    <3> QED BY <2>2, <3>1, <3>2 DEF SharedInv, ThreadsTypeOK, Handlers
  <2> QED BY <2>1, <2>2 DEF ServeCommand, ServeTimeLeft, ServeRunStatus, ServeStop, HangUp
<1>6. ServerTypes
  BY <1>1, <1>4, <1>5 DEF ServerTypes, SharedInv, ThreadsTypeOK
<1>7. \A x \in Sockets \ {s} : Elsewhere(x)
  BY <1>1, <1>4, <1>5 DEF Elsewhere, SharedInv, ThreadsTypeOK
<1>8. Onwards(s)
  <2>1. request'[s] = None
    BY <1>1 DEF SharedInv, ThreadsTypeOK
  <2> QED BY <1>1, <1>3, <1>4, <1>5, <2>1 DEF Onwards, Begun
<1> QED BY <1>1, <1>6, <1>7, <1>8 DEF ServerFx

\* A START is given the detector.
LEMMA ServeStartEffect ==
  ASSUME SharedInv, NEW s \in Sockets, ServeStart(s)
  PROVE  ServerFx(s)
<1>1. /\ handler[s] = "open" /\ request[s] # None /\ request[s].command = "START"
      /\ acquisition' = s
      /\ left' = [left EXCEPT ![s] = Frames]
      /\ handler' = [handler EXCEPT ![s] = "spawned"]
      /\ UNCHANGED <<clientVars, foreign, request, replies>>
  BY DEF ServeStart, Asked
<1>2. Frames \in 0..Frames /\ Frames \in 1..Frames
  BY ThreadsAssumption
<1>3. ServerTypes
  BY <1>1, <1>2 DEF ServerTypes, SharedInv, ThreadsTypeOK, Handlers
<1>4. \A x \in Sockets \ {s} : Elsewhere(x)
  BY <1>1 DEF Elsewhere, SharedInv, ThreadsTypeOK
<1>5. Onwards(s)
  BY <1>1, <1>2 DEF Onwards, SharedInv, ThreadsTypeOK, Answered
<1> QED BY <1>1, <1>3, <1>4, <1>5 DEF ServerFx

\* The greenlet of an acquisition runs for the first time, or the client is lost.
LEMMA HandlerEffect ==
  ASSUME SharedInv, NEW s \in Sockets, RunAcquisition(s) \/ LoseClient(s)
  PROVE  ServerFx(s)
<1>1. /\ \/ handler[s] = "spawned" /\ handler' = [handler EXCEPT ![s] = "serving"]
         \/ handler[s] = "serving" /\ handler' = [handler EXCEPT ![s] = "ending"]
      /\ UNCHANGED <<clientVars, foreign, request, replies, left, acquisition>>
  BY DEF RunAcquisition, LoseClient
<1>2. ServerTypes
  BY <1>1 DEF ServerTypes, SharedInv, ThreadsTypeOK, Handlers
<1>3. \A x \in Sockets \ {s} : Elsewhere(x)
  BY <1>1 DEF Elsewhere, SharedInv, ThreadsTypeOK
<1>4. Onwards(s)
  BY <1>1 DEF Onwards, SharedInv, ThreadsTypeOK, Served, Begun
<1> QED BY <1>1, <1>2, <1>3, <1>4 DEF ServerFx

\* A frame is produced.
LEMMA ProduceEffect ==
  ASSUME SharedInv, NEW s \in Sockets, Produce(s)
  PROVE  ServerFx(s)
<1>1. /\ handler[s] = "serving"
      /\ left' = [left EXCEPT ![s] = left[s] - 1]
      /\ handler' = IF left[s] = 1 THEN [handler EXCEPT ![s] = "ending"] ELSE handler
      /\ UNCHANGED <<clientVars, foreign, request, acquisition>>
  BY DEF Produce
<1>2. request[s] \in Calls /\ left[s] \in 1..Frames
  BY <1>1 DEF SharedInv, Served, Begun
<1>3. /\ replies' \in [Sockets -> Seq(Messages)]
      /\ \A x \in Sockets \ {s} : replies'[x] = replies[x]
      /\ replies'[s] = replies[s] \/ Spoke(s)
  <2>1. \E what \in Answers : Says(s, Tag(s), what)
    BY DEF Produce, Answers
  <2> QED BY <1>2, <2>1, SaysEffect
<1>4. left' \in [Sockets -> 0..Frames] /\ left'[s] = left[s] - 1
  BY <1>1, <1>2, ThreadsAssumption DEF SharedInv, ThreadsTypeOK
<1>5. ServerTypes
  BY <1>1, <1>3, <1>4 DEF ServerTypes, SharedInv, ThreadsTypeOK, Handlers
<1>6. \A x \in Sockets \ {s} : Elsewhere(x)
  BY <1>1, <1>3 DEF Elsewhere, SharedInv, ThreadsTypeOK
<1>7. Onwards(s)
  <2>1. handler'[s] = (IF left[s] = 1 THEN "ending" ELSE "serving")
    BY <1>1 DEF SharedInv, ThreadsTypeOK
  <2>2. handler'[s] \in {"spawned", "serving"} => left'[s] \in 1..Frames
    BY <1>2, <1>4, <2>1, ThreadsAssumption
  <2> QED BY <1>1, <1>2, <1>3, <2>2 DEF Onwards
<1> QED BY <1>1, <1>5, <1>6, <1>7 DEF ServerFx

\* The finally clause of an acquisition.
LEMMA EndEffect ==
  ASSUME SharedInv, NEW s \in Sockets, EndAcquisition(s)
  PROVE  ServerFx(s)
<1>1. /\ handler[s] = "ending" /\ acquisition' = None
      /\ request' = [request EXCEPT ![s] = None]
      /\ left' = [left EXCEPT ![s] = 0]
      /\ UNCHANGED <<clientVars, foreign>>
  BY DEF EndAcquisition
<1>2. request[s] \in Calls /\ 0 \in 0..Frames
  BY <1>1, ThreadsAssumption DEF SharedInv, Served, Begun
<1>3. /\ replies' \in [Sockets -> Seq(Messages)]
      /\ \A x \in Sockets \ {s} : replies'[x] = replies[x]
      /\ replies'[s] = replies[s] \/ Spoke(s)
  <2>1. CASE replies' = replies
    BY <2>1 DEF SharedInv, ThreadsTypeOK
  <2>2. CASE \E what \in Answers : Says(s, Tag(s), what)
    BY <1>2, <2>2, SaysEffect
  <2> QED BY <2>1, <2>2 DEF EndAcquisition, Answers
<1>4. /\ handler' \in [Sockets -> Handlers] /\ handler'[s] = "closed"
      /\ \A x \in Sockets \ {s} : handler'[x] \in {handler[x], Killed(x)}
  <2>1. CASE acquisition \in {None, s} /\ handler' = [handler EXCEPT ![s] = "closed"]
    BY <2>1 DEF SharedInv, ThreadsTypeOK, Handlers
  <2>2. CASE /\ acquisition \notin {None, s}
             /\ handler' = [handler EXCEPT ![s] = "closed", ![acquisition] = Killed(acquisition)]
    <3>1. acquisition \in Sockets /\ Killed(acquisition) \in Handlers
      BY <2>2, KilledType DEF SharedInv, ThreadsTypeOK
    <3> QED BY <2>2, <3>1 DEF SharedInv, ThreadsTypeOK, Handlers
  <2> QED BY <2>1, <2>2 DEF EndAcquisition
<1>5. ServerTypes
  BY <1>1, <1>2, <1>3, <1>4 DEF ServerTypes, SharedInv, ThreadsTypeOK
<1>6. \A x \in Sockets \ {s} : Elsewhere(x)
  BY <1>1, <1>3, <1>4 DEF Elsewhere, SharedInv, ThreadsTypeOK
<1>7. Onwards(s)
  <2>1. request'[s] = None
    BY <1>1 DEF SharedInv, ThreadsTypeOK
  <2> QED BY <1>1, <1>2, <1>3, <1>4, <2>1 DEF Onwards, Begun
<1> QED BY <1>1, <1>5, <1>6, <1>7 DEF ServerFx

\* Every step of the simulator has these effects.
LEMMA ServerEffect ==
  ASSUME SharedInv, NEW s \in Sockets, ServerStep(s)
  PROVE  ServerFx(s)
  BY ServeEffect, ServeStartEffect, HandlerEffect, ProduceEffect, EndEffect
  DEF ServerStep, Serve

\* The stop of another program kills the acquisition of the detector.
LEMMA ForeignEffect ==
  ASSUME SharedInv, ForeignStop
  PROVE  /\ UNCHANGED <<clientVars, acquisition>> /\ ServerTypes
         /\ acquisition \in Sockets
         /\ \A x \in Sockets : Elsewhere(x)
<1>1. /\ foreign < Foreign /\ acquisition # None
      /\ foreign' = foreign + 1
      /\ handler' = [handler EXCEPT ![acquisition] = Killed(acquisition)]
      /\ UNCHANGED <<clientVars, request, replies, left, acquisition>>
  BY DEF ForeignStop
<1>2. acquisition \in Sockets /\ Killed(acquisition) \in Handlers
  BY <1>1, KilledType DEF SharedInv, ThreadsTypeOK
<1>3. foreign' \in 0..Foreign
  BY <1>1, ThreadsAssumption DEF SharedInv, ThreadsTypeOK
<1>4. ServerTypes
  BY <1>1, <1>2, <1>3 DEF ServerTypes, SharedInv, ThreadsTypeOK
<1>5. \A x \in Sockets : Elsewhere(x)
  BY <1>1, <1>2 DEF Elsewhere, SharedInv, ThreadsTypeOK
<1> QED BY <1>1, <1>2, <1>4, <1>5

\* Whom the detector serves next has started.
LEMMA AcquisitionStarted ==
  ASSUME SharedInv, NEW s \in Sockets, ServerStep(s)
  PROVE  acquisition' # None => handler'[acquisition'] \in Begun
<1> SUFFICES ASSUME acquisition' # None PROVE handler'[acquisition'] \in Begun
  OBVIOUS
<1>1. ServerFx(s)
  BY ServerEffect
<1>2. CASE ServeStart(s)
  BY <1>2 DEF ServeStart, SharedInv, ThreadsTypeOK, Begun
<1>3. ~EndAcquisition(s)
  BY DEF EndAcquisition
<1>4. CASE ~ServeStart(s)
  <2>1. acquisition' = acquisition /\ acquisition \in Sockets /\ handler[acquisition] \in Begun
    BY <1>3, <1>4 DEF ServerStep, Serve, ServeCommand, ServeTimeLeft, ServeRunStatus, ServeStop,
       RunAcquisition, Produce, LoseClient, SharedInv, Served, ThreadsTypeOK
  <2>2. CASE acquisition # s
    <3>1. handler'[acquisition] \in {handler[acquisition], Killed(acquisition)}
      BY <1>1, <2>1, <2>2 DEF ServerFx, Elsewhere
    <3> QED BY <2>1, <3>1, KilledType
  <2>3. CASE acquisition = s
    BY <1>3, <1>4, <2>1, <2>3 DEF ServerStep, Serve, ServeCommand, ServeTimeLeft, ServeRunStatus,
       ServeStop, Asked, RunAcquisition, Produce, LoseClient, SharedInv, ThreadsTypeOK, Begun
  <2> QED BY <2>1, <2>2, <2>3
<1> QED BY <1>2, <1>4

\* The simulator, and other programs, keep the types.
LEMMA ServerShared ==
  ASSUME SharedInv, (\E s \in Sockets : ServerStep(s)) \/ ForeignStop
  PROVE  SharedInv'
<1>1. UNCHANGED clientVars /\ ServerTypes
  BY ServerEffect, ForeignEffect DEF ServerFx
<1>2. ThreadsTypeOK' /\ Placed' /\ Closing'
  BY <1>1 DEF SharedInv, ServerTypes, ThreadsTypeOK, Placed, Closing, Object, clientVars
<1>3. Served'
  <2>1. ASSUME NEW x \in Sockets, Elsewhere(x)
        PROVE  /\ handler'[x] \in Begun => request'[x] \in Calls
               /\ handler'[x] \in {"spawned", "serving"} => left'[x] \in 1..Frames
    <3>1. Killed(x) \notin {"spawned", "serving"} /\ (Killed(x) \in Begun => handler[x] \in Begun)
      BY KilledType
    <3> QED BY <2>1, <3>1 DEF Elsewhere, SharedInv, Served
  <2>2. ASSUME NEW s \in Sockets, ServerStep(s) PROVE Served'
    <3>1. ServerFx(s)
      BY <2>2, ServerEffect
    <3>2. /\ handler'[s] \in Begun => request'[s] \in Calls
          /\ handler'[s] \in {"spawned", "serving"} => left'[s] \in 1..Frames
      BY <3>1 DEF ServerFx, Onwards, Begun
    <3> QED BY <2>1, <2>2, <3>1, <3>2, AcquisitionStarted DEF ServerFx, Served
  <2>3. CASE ForeignStop
    <3>1. acquisition' = acquisition /\ acquisition \in Sockets /\ Elsewhere(acquisition)
      BY <2>3, ForeignEffect
    <3>2. handler[acquisition] \in Begun
      BY <3>1, NoneAssumption DEF SharedInv, Served
    <3>3. handler'[acquisition] \in Begun
      BY <3>1, <3>2, KilledType DEF Elsewhere
    <3> QED BY <2>1, <3>3, <2>3, <3>1, <3>2, ForeignEffect DEF Served
  <2> QED BY <2>2, <2>3
<1> QED BY <1>2, <1>3 DEF SharedInv

-----------------------------------------------------------------------------
(* A Connection of one's own: the other end *)

\* What the simulator leaves of a TCP connection: Elsewhere, or a step of it.
Served1(x) == Elsewhere(x) \/ Onwards(x)

\* A step of the simulator is one or the other for every TCP connection.
LEMMA ServerTouches ==
  ASSUME SharedInv, (\E s \in Sockets : ServerStep(s)) \/ ForeignStop
  PROVE  UNCHANGED clientVars /\ \A x \in Sockets : Served1(x)
  BY ServerEffect, ForeignEffect DEF ServerFx, Served1

\* Without a command the simulator does nothing.
LEMMA FreshStays ==
  ASSUME SharedInv, NEW x \in Sockets, Served1(x), Fresh(x)
  PROVE  Fresh(x)'
<1>1. CASE Elsewhere(x)
  BY <1>1, KilledType DEF Elsewhere, Fresh
<1>2. ~Onwards(x)
  BY NoneAssumption DEF Onwards, Fresh
<1> QED BY <1>1, <1>2 DEF Served1

\* A message has the tag of the command of its TCP connection.
LEMMA SpeaksStays ==
  ASSUME SharedInv, NEW x \in Sockets, Served1(x), NEW tag, Speaks(x, tag)
  PROVE  Speaks(x, tag)'
<1>1. CASE Elsewhere(x)
  BY <1>1 DEF Elsewhere, Speaks
<1>2. CASE Onwards(x)
  <2>1. request[x].tag = tag /\ request[x] \in Calls /\ replies[x] \in Seq(Messages)
    BY <1>2, NoneAssumption DEF Onwards, Speaks, SharedInv, ThreadsTypeOK
  <2>2. \A i \in 1..Len(replies'[x]) : replies'[x][i].tag = tag
    <3>1. CASE replies'[x] = replies[x]
      BY <3>1 DEF Speaks
    <3>2. CASE Spoke(x)
      <4>1. PICK m \in Messages : m.tag = tag /\ replies'[x] = Append(replies[x], m)
        BY <2>1, <3>2 DEF Spoke, Messages, Calls
      <4>2. ASSUME NEW i \in 1..Len(replies'[x]) PROVE replies'[x][i].tag = tag
        <5>1. Len(replies'[x]) = Len(replies[x]) + 1 /\ Len(replies[x]) \in Nat
          BY <2>1, <4>1, AppendProperties
        <5>2. CASE i \in 1..Len(replies[x])
          BY <2>1, <4>1, <5>2, AppendProperties DEF Speaks
        <5>3. CASE i = Len(replies[x]) + 1
          BY <2>1, <4>1, <5>3, AppendProperties
        <5> QED BY <5>1, <5>2, <5>3
      <4> QED BY <4>2
    <3> QED BY <1>2, <3>1, <3>2 DEF Onwards
  <2> QED BY <1>2, <2>1, <2>2 DEF Onwards, Speaks
<1> QED BY <1>1, <1>2 DEF Served1

\* The only answer to a command is written while its client waits.
LEMMA AnsweringStays ==
  ASSUME SharedInv, NEW x \in Sockets, Served1(x), Connected(x),
         NEW c \in Calls, c.command \in Answered, Answering(x, c)
  PROVE  Answering(x, c)'
<1>1. CASE Elsewhere(x)
  BY <1>1, KilledType DEF Elsewhere, Answering
<1>2. CASE Onwards(x)
  <2>1. request[x] = c /\ handler[x] = "open" /\ replies[x] = <<>>
    BY <1>2 DEF Onwards, Answering
  <2>2. handler'[x] = "closed" /\ Replied(x)
    BY <1>2, <2>1 DEF Onwards
  <2>3. PICK m : /\ m.tag = c.tag /\ m.what \in AnswersTo(c.command)
                 /\ replies'[x] = Append(<<>>, m)
    BY <2>1, <2>2 DEF Replied
  <2>4. Len(replies'[x]) = 1 /\ replies'[x][1] = m
    BY <2>3
  <2> QED BY <2>2, <2>3, <2>4 DEF Answering
<1> QED BY <1>1, <1>2 DEF Served1

\* The simulator, and other programs, leave every call its own Connection.
LEMMA ServerOwn ==
  ASSUME SharedInv, OwnInv, (\E s \in Sockets : ServerStep(s)) \/ ForeignStop
  PROVE  OwnInv'
<1>1. UNCHANGED clientVars /\ \A x \in Sockets : Served1(x)
  BY ServerTouches
<1>2. ASSUME NEW t \in Threads, at[t] # "idle", Own(t), Object(t) \notin crossed PROVE Own(t)'
  <2>1. call[t] \in Calls /\ Object(t) \in Objects
    BY <1>2 DEF SharedInv, Placed, Object, Calls
  <2>2. at[t] = "assign" => Fresh(local[t])'
    <3>1. at[t] = "assign" => local[t] \in Sockets /\ Fresh(local[t])
      BY <1>2, <2>1, OneSide DEF SharedInv, Placed, Own
    <3> QED BY <1>1, <3>1, FreshStays DEF clientVars, Fresh
  <2>3. at[t] = "write" => Fresh(sock[Object(t)])'
    <3>1. at[t] = "write" => sock[Object(t)] \in Sockets /\ Fresh(sock[Object(t)])
      BY <1>2, <2>1, OneSide DEF SharedInv, Placed, Own
    <3>2. Object(t)' = Object(t)
      BY <1>1 DEF clientVars, Object
    <3> QED BY <1>1, <3>1, <3>2, FreshStays DEF clientVars, Fresh
  <2>4. at[t] = "reading" => IF call[t].command \in Answered
                             THEN Answering(waits[t], call[t])'
                             ELSE Speaks(waits[t], call[t].tag)'
    <3>1. SUFFICES ASSUME at[t] = "reading"
                   PROVE  IF call[t].command \in Answered
                          THEN Answering(waits[t], call[t])'
                          ELSE Speaks(waits[t], call[t].tag)'
      OBVIOUS
    <3>2. waits[t] \in Sockets /\ Connected(waits[t])
      BY <2>1, <3>1, OneSide DEF SharedInv, Placed, Connected
    <3>3. waits' = waits /\ call' = call
      BY <1>1 DEF clientVars
    <3>4. CASE call[t].command \in Answered
      <4>1. Answering(waits[t], call[t])
        BY <1>2, <3>1, <3>4 DEF Own
      <4> QED BY <1>1, <2>1, <3>2, <3>3, <3>4, <4>1, AnsweringStays DEF Answering
    <3>5. CASE call[t].command \notin Answered
      <4>1. Speaks(waits[t], call[t].tag)
        BY <1>2, <3>1, <3>5 DEF Own
      <4>2. PICK tag \in Tags : tag = call[t].tag
        BY <2>1 DEF Calls
      <4>3. Speaks(waits[t], tag)'
        <5>1. Speaks(waits[t], tag)
          BY <4>1, <4>2
        <5>2. PICK x \in Sockets : x = waits[t]
          BY <3>2
        <5>3. Speaks(x, tag)'
          BY <1>1, <5>1, <5>2, SpeaksStays
        <5> QED BY <3>3, <5>2, <5>3 DEF Speaks
      <4> QED BY <3>3, <3>5, <4>2, <4>3 DEF Speaks
    <3> QED BY <3>4, <3>5
  <2> QED BY <1>1, <1>2, <2>2, <2>3, <2>4 DEF clientVars, Own, Object
<1>3. Solo'
  BY <1>1 DEF OwnInv, Solo, clientVars
<1>4. \A t \in Threads : at'[t] # "idle" /\ Object(t)' \notin crossed' => Own(t)'
  BY <1>1, <1>2 DEF OwnInv, clientVars, Object
<1> QED BY <1>1, <1>3, <1>4 DEF OwnInv, clientVars

-----------------------------------------------------------------------------
(* A Connection of one's own: the steps of calls *)

\* A call touches its own thread, its Connection, and the TCP connections of it.
TouchesOwn(t) ==
  LET o == Object(t) IN
  /\ \A p \in Objects \ {o} : sock'[p] = sock[p] /\ reader'[p] = reader[p]
  /\ \A x \in Sockets \ Sides(o) :
       /\ request'[x] = request[x] /\ replies'[x] = replies[x]
       /\ handler'[x] = handler[x] /\ left'[x] = left[x]
  /\ \A u \in Threads \ {t} :
       /\ at'[u] = at[u] /\ call'[u] = call[u] /\ local'[u] = local[u] /\ waits'[u] = waits[u]
       /\ result'[u] = result[u] /\ inside'[u] = inside[u]
  /\ crossed \subseteq crossed'

\* Each step of a call touches no more.
LEMMA CallTouches ==
  ASSUME SharedInv, NEW t \in Threads, CallStep(t)
  PROVE  TouchesOwn(t)
<1> USE DEF TouchesOwn
<1>1. at[t] # "idle" /\ Object(t) \in Objects
  BY DEF CallStep, Connect, Assign, Write, SocketGone, TakeFrame, TakeReply,
      UpdateClient, TakeFail, TakeMessage, Takes, TakeEof, CloseTest, CloseClear,
         SharedInv, Placed, Object, Calls
<1>2. CASE Connect(t)
  <2>1. PICK s \in Sides(Object(t)) :
           /\ local' = [local EXCEPT ![t] = s]
           /\ reader' = [reader EXCEPT ![Object(t)] = s]
           /\ request' = [request EXCEPT ![s] = None]
           /\ replies' = [replies EXCEPT ![s] = <<>>]
           /\ handler' = [handler EXCEPT ![s] = "open"]
           /\ left' = [left EXCEPT ![s] = 0]
    BY <1>2, ConnectMakes
  <2>2. /\ at' = [at EXCEPT ![t] = "assign"]
        /\ inside' = [inside EXCEPT ![t] = @ \cup {Object(t)}]
        /\ crossed \subseteq crossed'
        /\ UNCHANGED <<sock, waits, call, result>>
    BY <1>2 DEF Connect, Goes
  <2> QED BY <2>1, <2>2 DEF SharedInv, ThreadsTypeOK
<1>3. CASE Assign(t)
  BY <1>1, <1>3 DEF Assign, Goes, SharedInv, ThreadsTypeOK, serverVars
<1>4. CASE Write(t)
  <2>1. sock[Object(t)] \in Sides(Object(t))
    BY <1>1, <1>4 DEF Write, SharedInv, Placed
  <2>2. \A x \in Sockets \ Sides(Object(t)) : request'[x] = request[x]
    BY <1>4, <2>1 DEF Write, SharedInv, ThreadsTypeOK
  <2> QED BY <1>4, <2>2 DEF Write, Goes, SharedInv, ThreadsTypeOK
<1>5. CASE SocketGone(t)
  BY <1>5 DEF SocketGone, Goes, SharedInv, ThreadsTypeOK, serverVars
<1>6. CASE Reads(t)
  <2>1. PICK what : at[t] = "reading" /\ Takes(t, what)
    BY <1>6, ReadsEffect
  <2>2. waits[t] \in Sides(Object(t))
    BY <1>1, <2>1 DEF SharedInv, Placed
  <2>3. /\ \A x \in Sockets \ Sides(Object(t)) : replies'[x] = replies[x]
        /\ UNCHANGED <<sock, reader, local, inside, crossed, request, handler, left>>
    BY <2>1, <2>2 DEF Takes, SharedInv, ThreadsTypeOK
  <2>4. \A u \in Threads \ {t} : /\ at'[u] = at[u] /\ call'[u] = call[u] /\ waits'[u] = waits[u]
                                 /\ result'[u] = result[u]
    BY <1>6, ReadsStep
  <2> QED BY <2>3, <2>4
<1>9. CASE TakeMessage(t)
  <2>1. /\ at' = [at EXCEPT ![t] = "test"] /\ waits' = [waits EXCEPT ![t] = None]
        /\ UNCHANGED <<sock, reader, local, call, inside, crossed, request, handler, left>>
        /\ sock[Object(t)] # None
    BY <1>9 DEF TakeMessage, Goes
  <2>2. sock[Object(t)] \in Sides(Object(t))
    BY <1>1, <2>1 DEF SharedInv, Placed
  <2>3. \A x \in Sockets \ Sides(Object(t)) : replies'[x] = replies[x]
    BY <1>9, <2>2 DEF TakeMessage, SharedInv, ThreadsTypeOK
  <2>4. \A u \in Threads \ {t} : result'[u] = result[u]
    BY <1>9 DEF TakeMessage, SharedInv, ThreadsTypeOK
  <2> QED BY <2>1, <2>3, <2>4 DEF SharedInv, ThreadsTypeOK
<1>7. CASE TakeEof(t)
  BY <1>7 DEF TakeEof, Goes, SharedInv, ThreadsTypeOK, serverVars
<1>8. CASE CloseTest(t) \/ CloseClear(t)
  <2>1. /\ sock' \in {sock, [sock EXCEPT ![Object(t)] = None]}
        /\ result' \in {result, [result EXCEPT ![t] = "error"]}
        /\ UNCHANGED <<reader, local, waits, crossed, serverVars>>
    BY <1>8 DEF CloseTest, CloseClear
  <2>2. \A u \in Threads \ {t} : at'[u] = at[u] /\ call'[u] = call[u] /\ inside'[u] = inside[u]
    <3>1. CASE UNCHANGED <<call, inside>> /\ at' = [at EXCEPT ![t] = "clear"]
      BY <3>1 DEF SharedInv, ThreadsTypeOK
    <3>2. CASE Closed(t)
      BY <3>2 DEF Closed, Goes, SharedInv, ThreadsTypeOK
    <3> QED BY <1>8, <3>1, <3>2 DEF CloseTest, CloseClear, Goes
  <2>3. \A p \in Objects \ {Object(t)} : sock'[p] = sock[p]
    BY <2>1 DEF SharedInv, ThreadsTypeOK
  <2>4. \A u \in Threads \ {t} : result'[u] = result[u]
    BY <2>1 DEF SharedInv, ThreadsTypeOK
  <2> QED BY <2>1, <2>2, <2>3, <2>4 DEF serverVars
<1> QED BY <1>2, <1>3, <1>4, <1>5, <1>6, <1>7, <1>8, <1>9 DEF CallStep, Reads

\* A thread in a call on a Connection that it does not share with t.
LEMMA ApartOwn ==
  ASSUME SharedInv, NEW t \in Threads, at[t] # "idle", TouchesOwn(t),
         NEW u \in Threads \ {t}, at[u] # "idle", Own(u), Object(u) # Object(t)
  PROVE  Own(u)'
<1> DEFINE o == Object(u)
<1>1. o \in Objects /\ Object(t) \in Objects /\ Object(u)' = o
  BY DEF TouchesOwn, SharedInv, Placed, Object, Calls
<1>2. Sides(o) \subseteq Sockets \ Sides(Object(t))
  BY <1>1, OneSide
<1>3. sock'[o] = sock[o] /\ reader'[o] = reader[o]
  BY <1>1 DEF TouchesOwn
<1>4. ASSUME NEW x \in Sides(o)
      PROVE  request'[x] = request[x] /\ replies'[x] = replies[x] /\ handler'[x] = handler[x]
  BY <1>2 DEF TouchesOwn
<1>5. /\ at'[u] = at[u] /\ call'[u] = call[u] /\ local'[u] = local[u] /\ waits'[u] = waits[u]
      /\ result'[u] = result[u] /\ inside'[u] = inside[u]
  BY DEF TouchesOwn
<1>6. /\ at[u] = "assign" => local[u] \in Sides(o)
      /\ at[u] = "write" /\ sock[o] # None => sock[o] \in Sides(o)
      /\ at[u] = "reading" => waits[u] \in Sides(o)
  BY <1>1 DEF SharedInv, Placed
<1> HIDE DEF o
<1> QED BY <1>1, <1>3, <1>4, <1>5, <1>6 DEF Own, Fresh, Speaks, Answering, o

\* A step of a call leaves the others their Connections: it is not made on one
\* of theirs, unless it crosses them.
LEMMA OthersOwn ==
  ASSUME SharedInv, OwnInv, NEW t \in Threads, CallStep(t), NEW u \in Threads \ {t},
         at'[u] # "idle", Object(u)' \notin crossed'
  PROVE  Own(u)'
<1>1. TouchesOwn(t) /\ at[t] # "idle"
  BY CallTouches DEF CallStep, Connect, Assign, Write, SocketGone, TakeFrame, TakeReply,
      UpdateClient, TakeFail, TakeMessage, Takes, TakeEof, CloseTest,
     CloseClear
<1>2. at[u] # "idle" /\ Object(u)' = Object(u) /\ Object(u) \notin crossed
  BY <1>1 DEF TouchesOwn, Object
<1>3. Own(u)
  BY <1>2 DEF OwnInv
<1>4. CASE Object(u) # Object(t)
  BY <1>1, <1>2, <1>3, <1>4, ApartOwn
<1>5. CASE Object(u) = Object(t)
  <2>1. CASE at[u] = "connect"
    BY <1>1, <1>2, <1>3, <2>1 DEF TouchesOwn, Own
  <2>2. CASE at[u] # "connect"
    <3>1. Object(u) \in inside[u] /\ Object(u) \in Objects
      BY <1>2, <1>3, <2>2 DEF Own, SharedInv, Placed, Object, Calls
    <3>2. at[t] = "connect"
      <4>1. Own(t)
        BY <1>1, <1>2, <1>5 DEF OwnInv
      <4> QED BY <1>1, <1>2, <1>5, <3>1, <4>1 DEF OwnInv, Solo, Own
    <3>3. Connect(t)
      BY <3>2 DEF CallStep, Assign, Write, SocketGone, TakeFrame, TakeReply,
          UpdateClient, TakeFail, TakeMessage, Takes, TakeEof, CloseTest, CloseClear
    <3>4. Object(t) \in crossed'
      BY <1>5, <3>1, <3>3 DEF Connect
    <3> QED BY <1>2, <1>5, <3>4
  <2> QED BY <2>1, <2>2
<1> QED BY <1>4, <1>5

\* A call that begins takes nothing from the others; a read of a frame and an exit
\* are made in the block that the thread is in.
LEMMA BeginOwn ==
  ASSUME SharedInv, OwnInv, NEW t \in Threads, NEW o \in Objects, NEW c \in Commands,
         NEW tag \in Tags, Begin(t, o, c, tag),
         o \notin crossed /\ c \in {"FRAME", "CLOSE"} => o \in inside[t],
         o \notin crossed /\ c = "FRAME" => Speaks(reader[o], tag)
  PROVE  OwnInv'
<1> DEFINE k == [object |-> o, command |-> c, tag |-> tag]
<1>1. /\ k.object = o /\ k.command = c /\ k.tag = tag
      /\ call' = [call EXCEPT ![t] = k]
      /\ at' = [at EXCEPT ![t] = IF c = "FRAME" THEN "reading"
                                 ELSE IF c = "CLOSE" THEN "test" ELSE "connect"]
      /\ waits' = IF c = "FRAME" THEN [waits EXCEPT ![t] = reader[o]] ELSE waits
      /\ result' = [result EXCEPT ![t] = "none"]
      /\ UNCHANGED <<sock, reader, local, inside, crossed, serverVars, mixed>>
  BY DEF Begin, Goes
<1> HIDE DEF k
<1>2. ASSUME o \notin crossed PROVE Own(t)'
  BY <1>1, <1>2 DEF Own, Object, Speaks, Answered, Ends, SharedInv, ThreadsTypeOK, serverVars
<1>3. ASSUME NEW u \in Threads \ {t}, at[u] # "idle", Object(u) \notin crossed PROVE Own(u)'
  <2>1. Own(u)
    BY <1>3 DEF OwnInv
  <2>2. /\ call'[u] = call[u] /\ at'[u] = at[u] /\ waits'[u] = waits[u]
        /\ result'[u] = result[u]
    BY <1>1 DEF SharedInv, ThreadsTypeOK
  <2> QED
    BY <1>1, <2>1, <2>2 DEF Own, Object, Fresh, Speaks, Answering, serverVars
<1>4. Object(t)' = o
  BY <1>1 DEF Object, SharedInv, ThreadsTypeOK
<1>5. ASSUME NEW u \in Threads \ {t} PROVE at'[u] = at[u] /\ Object(u)' = Object(u)
  BY <1>1 DEF Object, SharedInv, ThreadsTypeOK
<1>6. \A u \in Threads : result'[u] \in {result[u], "none"}
  BY <1>1 DEF SharedInv, ThreadsTypeOK
<1>7. Solo'
  BY <1>1 DEF OwnInv, Solo
<1> QED BY <1>1, <1>2, <1>3, <1>4, <1>5, <1>6, <1>7 DEF OwnInv

\* A new TCP connection is one's own.
LEMMA ConnectOwn ==
  ASSUME SharedInv, NEW t \in Threads, Connect(t), Own(t)
  PROVE  Own(t)'
<1>1. PICK s \in Sides(Object(t)) :
        /\ s[1] = t
        /\ local' = [local EXCEPT ![t] = s]
        /\ reader' = [reader EXCEPT ![Object(t)] = s]
        /\ request' = [request EXCEPT ![s] = None]
        /\ replies' = [replies EXCEPT ![s] = <<>>]
        /\ handler' = [handler EXCEPT ![s] = "open"]
  BY ConnectMakes
<1>2. /\ at[t] = "connect" /\ at' = [at EXCEPT ![t] = "assign"]
      /\ inside' = [inside EXCEPT ![t] = @ \cup {Object(t)}]
      /\ UNCHANGED <<sock, waits, call, result>>
  BY DEF Connect, Goes
<1>3. Object(t) \in Objects /\ s \in Sockets /\ Object(t)' = Object(t)
  BY <1>2, OneSide DEF SharedInv, Placed, Object, Calls
<1>4. at'[t] = "assign" /\ Object(t) \in inside'[t] /\ local'[t] = s /\ reader'[Object(t)] = s
  BY <1>1, <1>2, <1>3 DEF SharedInv, ThreadsTypeOK
<1>5. Fresh(s)'
  BY <1>1, <1>3 DEF Fresh, SharedInv, ThreadsTypeOK
<1> QED BY <1>2, <1>3, <1>4, <1>5 DEF Own, Fresh

\* The socket that is stored is that of the reader.
LEMMA AssignOwn ==
  ASSUME SharedInv, NEW t \in Threads, Assign(t), Own(t)
  PROVE  Own(t)'
<1>1. /\ at[t] = "assign" /\ at' = [at EXCEPT ![t] = "write"]
      /\ sock' = [sock EXCEPT ![Object(t)] = local[t]]
      /\ UNCHANGED <<reader, waits, call, result, inside, serverVars>>
  BY DEF Assign, Goes
<1>2. Object(t) \in Objects /\ local[t] \in Sides(Object(t)) /\ local[t] \in Sockets
  BY <1>1, OneSide DEF SharedInv, Placed, Object, Calls
<1>3. Object(t)' = Object(t) /\ at'[t] = "write" /\ sock'[Object(t)] = local[t] /\ local[t] # None
  BY <1>1, <1>2, OneSide DEF SharedInv, ThreadsTypeOK, Object
<1> QED BY <1>1, <1>2, <1>3 DEF Own, Fresh, serverVars

\* The command is written to the connection whose reader is read.
LEMMA WriteOwn ==
  ASSUME SharedInv, NEW t \in Threads, Write(t), Own(t), at'[t] # "idle"
  PROVE  Own(t)'
<1> DEFINE s == sock[Object(t)]
<1>1. /\ at[t] = "write" /\ Object(t) \in Objects /\ call[t] \in Calls
      /\ request' = IF request[s] = None /\ handler[s] = "open"
                    THEN [request EXCEPT ![s] = call[t]] ELSE request
      /\ UNCHANGED <<sock, inside, replies, handler>>
  BY DEF Write, SharedInv, Placed, Object, Calls
<1>2. /\ at'[t] = "reading" /\ waits'[t] = reader[Object(t)]
      /\ UNCHANGED <<call, result>>
  BY DEF Write, Goes, SharedInv, ThreadsTypeOK
<1>3. /\ s = reader[Object(t)] /\ s # None
      /\ request[s] = None /\ handler[s] = "open" /\ replies[s] = <<>>
      /\ Object(t) \in inside[t]
  BY <1>1 DEF Own, Fresh
<1>4. s \in Sockets
  BY <1>1, <1>3 DEF SharedInv, ThreadsTypeOK
<1>5. PICK x \in Sockets : x = s /\ waits'[t] = x
  BY <1>2, <1>3, <1>4
<1> HIDE DEF s
<1>6. request'[x] = call[t] /\ replies'[x] = <<>> /\ handler'[x] = "open" /\ sock'[Object(t)] = x
  BY <1>1, <1>3, <1>4, <1>5 DEF SharedInv, ThreadsTypeOK, s
<1>7. IF call[t].command \in Answered THEN Answering(waits[t], call[t])'
      ELSE Speaks(waits[t], call[t].tag)'
  BY <1>2, <1>5, <1>6 DEF Answering, Speaks
<1>8. at[t] = "write" /\ Object(t)' = Object(t) /\ Object(t) \in inside'[t]
  BY <1>1, <1>2, <1>3 DEF Object
<1> QED BY <1>2, <1>5, <1>6, <1>7, <1>8 DEF Own

\* The message that is read is the answer.
LEMMA TakesOwn ==
  ASSUME SharedInv, NEW t \in Threads, at[t] = "reading", NEW what, Takes(t, what), Own(t)
  PROVE  /\ mixed' = mixed /\ what = Head(replies[waits[t]]).what /\ what \in Answers
         /\ call[t].command \in Answered => what \in AnswersTo(call[t].command)
<1> DEFINE s == waits[t]
           m == Head(replies[s])
<1>1. /\ s \in Sockets /\ replies[s] # <<>> /\ replies[s] \in Seq(Messages) /\ m \in Messages
      /\ what \in Understood(t, m) /\ mixed' = (mixed \/ m.tag # call[t].tag)
  BY TakesEffect
<1>2. m = replies[s][1] /\ Len(replies[s]) \in Nat \ {0}
  BY <1>1, EmptySeq
<1>3. /\ m.tag = call[t].tag
      /\ call[t].command \in Answered => m.what \in AnswersTo(call[t].command)
  <2>1. CASE call[t].command \in Answered
    BY <1>1, <1>2, <2>1 DEF Own, Answering
  <2>2. CASE call[t].command \notin Answered
    <3>1. 1 \in 1..Len(replies[s])
      BY <1>2
    <3> QED BY <1>2, <2>2, <3>1 DEF Own, Speaks
  <2> QED BY <2>1, <2>2
<1>4. what = m.what
  BY <1>1, <1>3 DEF Understood
<1>5. mixed' = mixed
  BY <1>1, <1>3 DEF SharedInv, ThreadsTypeOK
<1>6. m.what \in Answers
  BY <1>1 DEF Messages
<1> HIDE DEF m
<1> QED BY <1>3, <1>4, <1>5, <1>6 DEF m

\* With its answer, or the FAIL of one, a call gets on.
LEMMA ReadsOwn ==
  ASSUME SharedInv, NEW t \in Threads, Reads(t), Own(t)
  PROVE  /\ mixed' = mixed /\ result'[t] \in {result[t]} \cup Answers
         /\ at'[t] # "idle" => Own(t)'
<1>1. PICK what \in Results :
        /\ at[t] = "reading" /\ Takes(t, what)
        /\ \/ at'[t] = "idle" /\ result'[t] = what
           \/ /\ call[t].command # "FRAME"
              /\ at'[t] = "test" /\ call'[t] = call[t] /\ result'[t] = what
           \/ /\ call[t].command = "COMMAND"
              /\ at'[t] = "connect" /\ call'[t] = call[t] /\ result'[t] = result[t]
           \/ /\ call[t].command # "FRAME" /\ what = "FAIL"
              /\ at'[t] = "message" /\ call'[t] = call[t] /\ waits'[t] = waits[t]
              /\ result'[t] = result[t]
  BY ReadsStep
<1>2. /\ mixed' = mixed /\ what \in Answers
      /\ call[t].command \in Answered => what \in AnswersTo(call[t].command)
  BY <1>1, TakesOwn
<1>3. UNCHANGED <<sock, inside>>
  BY <1>1, TakesEffect
<1>4. call[t].command \in Commands \ {"START", "CLOSE"}
  BY <1>1 DEF SharedInv, Placed, Calls
<1>5. /\ Object(t) \in inside[t]
      /\ call[t].command # "FRAME" => sock[Object(t)] = waits[t] /\ result[t] = "none"
  BY <1>1, <1>4 DEF Own, Answered, Commands
<1>6. result'[t] \in {result[t], what}
  BY <1>1
<1>7. ASSUME at'[t] # "idle" PROVE Own(t)'
  <2>1. call'[t] = call[t] /\ Object(t)' = Object(t) /\ call[t].command \in Answered
    BY <1>1, <1>4, <1>7 DEF Object, Commands, Answered
  <2>2. CASE at'[t] = "test" /\ result'[t] = what
    BY <1>2, <1>3, <1>5, <2>1, <2>2 DEF Own, Ends, Answered
  <2>3. CASE at'[t] = "connect" /\ result'[t] = result[t]
    BY <1>1, <1>3, <1>5, <2>1, <2>3 DEF Own, Answered
  <2>4. CASE at'[t] = "message" /\ waits'[t] = waits[t] /\ result'[t] = result[t] /\ what = "FAIL"
    <3>2. call[t].command = "TIME_LEFT"
      BY <1>2, <2>1, <2>4 DEF AnswersTo
    <3> QED BY <1>3, <1>5, <2>1, <2>4, <3>2 DEF Own
  <2> QED BY <1>1, <1>7, <2>2, <2>3, <2>4
<1> QED BY <1>2, <1>6, <1>7

\* The text of one's own error is received, or lost.
LEMMA TakeMessageOwn ==
  ASSUME SharedInv, NEW t \in Threads, TakeMessage(t), Own(t)
  PROVE  /\ mixed' = mixed /\ result'[t] \in {"FAIL", "ConnectionError"}
         /\ at'[t] # "idle" => Own(t)'
<1>1. /\ at[t] = "message" /\ at' = [at EXCEPT ![t] = "test"]
      /\ call[t].command = "TIME_LEFT" /\ sock[Object(t)] = waits[t]
      /\ UNCHANGED <<call, inside, sock>>
  BY DEF TakeMessage, Own, Goes
<1>2. mixed' = mixed /\ result'[t] \in {"FAIL", "ConnectionError"}
  BY <1>1 DEF TakeMessage, SharedInv, ThreadsTypeOK
<1>3. /\ Object(t)' = Object(t) /\ Object(t) \in inside[t]
      /\ result'[t] \in Ends(call[t].command)
  BY <1>1, <1>2 DEF Object, Own, Ends, AnswersTo
<1> QED BY <1>1, <1>2, <1>3 DEF Own, SharedInv, ThreadsTypeOK

\* Only the stream of an acquisition can end without an answer.
LEMMA TakeEofOwn ==
  ASSUME SharedInv, NEW t \in Threads, TakeEof(t), Own(t)
  PROVE  Own(t)'
<1>1. /\ at[t] = "reading" /\ at' = [at EXCEPT ![t] = "test"]
      /\ replies[waits[t]] = <<>> /\ handler[waits[t]] = "closed"
      /\ UNCHANGED <<call, inside>>
  BY DEF TakeEof, Goes
<1>2. call[t].command \notin Answered
  BY <1>1 DEF Own, Answering
<1>3. call[t].command = "FRAME"
  BY <1>1, <1>2 DEF SharedInv, Placed, Calls, Commands, Answered
<1> QED BY <1>1, <1>2, <1>3 DEF Own, Object, SharedInv, ThreadsTypeOK

\* Nobody else clears the socket that a close has seen.
LEMMA CloseOwn ==
  ASSUME SharedInv, NEW t \in Threads, CloseTest(t) \/ CloseClear(t), Own(t)
  PROVE  /\ UNCHANGED result
         /\ at'[t] # "idle" => Own(t)'
<1>1. Object(t) \in inside[t] /\ at[t] \in {"test", "clear"} /\ Object(t) \in Objects
  BY DEF CloseTest, CloseClear, Own, SharedInv, Placed, Object, Calls
<1>2. UNCHANGED result
  BY DEF CloseTest, CloseClear, Own
<1>3. CASE at' = [at EXCEPT ![t] = "clear"] /\ UNCHANGED <<call, inside, sock>> /\ sock[Object(t)] # None
  BY <1>1, <1>2, <1>3 DEF Own, Object, SharedInv, ThreadsTypeOK
<1>4. CASE Closed(t)
  <2>1. \/ at' = [at EXCEPT ![t] = "test"] /\ UNCHANGED <<call, inside>>
        \/ at' = [at EXCEPT ![t] = "idle"]
    BY <1>1, <1>4, ClosedEffect
  <2> QED BY <1>1, <1>2, <2>1 DEF Own, Object, SharedInv, ThreadsTypeOK
<1> QED BY <1>2, <1>3, <1>4 DEF CloseTest, CloseClear, Goes

\* A call on a Connection of one's own gets on with it.
LEMMA CallerOwn ==
  ASSUME SharedInv, OwnInv, NEW t \in Threads, CallStep(t), Object(t) \notin crossed
  PROVE  /\ mixed' = mixed
         /\ result'[t] \in {result[t], "ConnectionError"} \cup Answers
         /\ at'[t] # "idle" => Own(t)'
<1>1. Own(t)
  BY DEF OwnInv, CallStep, Connect, Assign, Write, SocketGone, TakeFrame, TakeReply,
      UpdateClient, TakeFail, TakeMessage, Takes, TakeEof, CloseTest, CloseClear
<1> USE <1>1
<1>2. CASE Connect(t)
  BY <1>2, ConnectOwn DEF Connect
<1>3. CASE Assign(t)
  BY <1>3, AssignOwn DEF Assign
<1>4. CASE Write(t)
  BY <1>4, WriteOwn DEF Write, Answers, SharedInv, ThreadsTypeOK
<1>5. ~SocketGone(t)
  BY NoneAssumption DEF SocketGone, Own, SharedInv, Placed, Sides
<1>6. CASE Reads(t)
  BY <1>6, ReadsOwn
<1>9. CASE TakeMessage(t)
  BY <1>9, TakeMessageOwn DEF Answers
<1>7. CASE TakeEof(t)
  BY <1>7, TakeEofOwn DEF TakeEof, SharedInv, ThreadsTypeOK
<1>8. CASE CloseTest(t) \/ CloseClear(t)
  <2>1. UNCHANGED mixed
    BY <1>8 DEF CloseTest, CloseClear
  <2> QED BY <1>8, <2>1, CloseOwn
<1> QED BY <1>2, <1>3, <1>4, <1>5, <1>6, <1>7, <1>8, <1>9 DEF CallStep, Reads

\* A thread enters a block in connect and leaves it at the end of its close.
LEMMA BlocksSolo ==
  ASSUME SharedInv, OwnInv, NEW t \in Threads, CallStep(t)
  PROVE  Solo'
<1>1. TouchesOwn(t)
  BY CallTouches
<1>2. CASE Connect(t)
  <2>1. inside'[t] = inside[t] \cup {Object(t)}
    BY <1>2 DEF Connect, SharedInv, ThreadsTypeOK
  <2>2. Object(t) \notin crossed' => \A u \in Threads \ {t} : Object(t) \notin inside[u]
    BY <1>2 DEF Connect
  <2> QED BY <1>1, <2>1, <2>2 DEF TouchesOwn, OwnInv, Solo
<1>3. CASE ~Connect(t)
  <2>1. inside'[t] \subseteq inside[t]
    <3>1. CASE CloseTest(t) \/ CloseClear(t)
      <4>1. UNCHANGED inside \/ Closed(t)
        BY <3>1 DEF CloseTest, CloseClear
      <4>2. at[t] \in {"test", "clear"}
        BY <3>1 DEF CloseTest, CloseClear
      <4> QED BY <4>1, <4>2, ClosedEffect DEF SharedInv, ThreadsTypeOK
    <3>2. CASE ~(CloseTest(t) \/ CloseClear(t))
      BY <1>3, <3>2 DEF CallStep, Assign, Write, SocketGone, TakeFrame, TakeReply,
          UpdateClient, TakeFail, TakeMessage, Takes, TakeEof
    <3> QED BY <3>1, <3>2
  <2> QED BY <1>1, <2>1 DEF TouchesOwn, OwnInv, Solo
<1> QED BY <1>2, <1>3

\* A call stays what it is to its end; it enters and leaves the blocks of its own
\* Connection, and crosses it only with another thread that is in one.
LEMMA CallKeeps ==
  ASSUME SharedInv, NEW t \in Threads, CallStep(t)
  PROVE  /\ at[t] # "idle"
         /\ at'[t] # "idle" => call'[t] = call[t] /\ Object(t)' = Object(t)
         /\ inside'[t] \subseteq inside[t] \cup {Object(t)}
         /\ inside[t] \ {Object(t)} \subseteq inside'[t]
         /\ \/ crossed' = crossed
            \/ /\ crossed' = crossed \cup {Object(t)}
               /\ \E u \in Threads \ {t} : Object(t) \in inside[u]
<1>1. CASE CloseTest(t) \/ CloseClear(t)
  <2>1. \/ UNCHANGED <<call, inside>>
        \/ Closed(t)
    BY <1>1 DEF CloseTest, CloseClear
  <2>2. at[t] \in {"test", "clear"} /\ UNCHANGED crossed
    BY <1>1 DEF CloseTest, CloseClear
  <2>3. /\ at'[t] # "idle" => call'[t] = call[t]
        /\ inside' \in {inside, [inside EXCEPT ![t] = @ \ {Object(t)}]}
    BY <2>1, <2>2, ClosedEffect DEF SharedInv, ThreadsTypeOK
  <2> QED BY <2>2, <2>3 DEF Object, SharedInv, ThreadsTypeOK
<1>2. CASE Connect(t)
  BY <1>2 DEF Connect, Goes, Object, SharedInv, ThreadsTypeOK
<1>3. CASE Assign(t) \/ Write(t) \/ SocketGone(t) \/ TakeMessage(t) \/ TakeEof(t)
  BY <1>3 DEF Assign, Write, SocketGone, TakeMessage, TakeEof, Goes, Object, SharedInv, ThreadsTypeOK
<1>4. CASE Reads(t)
  <2>1. UNCHANGED <<inside, crossed>>
    BY <1>4, ReadsEffect DEF Takes
  <2>2. at[t] = "reading" /\ (at'[t] # "idle" => call'[t] = call[t])
    BY <1>4, ReadsEffect DEF SharedInv, ThreadsTypeOK
  <2> QED BY <2>1, <2>2 DEF Object
<1> QED BY <1>1, <1>2, <1>3, <1>4 DEF CallStep, Reads

\* Every step of a call leaves every call its own Connection.
LEMMA CallOwn ==
  ASSUME SharedInv, OwnInv, NEW t \in Threads, CallStep(t)
  PROVE  OwnInv'
<1>1. TouchesOwn(t)
  BY CallTouches
<1>2. at[t] # "idle" /\ Object(t) \in Objects
  BY CallKeeps DEF SharedInv, Placed, Object, Calls
<1>3. Solo'
  BY BlocksSolo
<1>4. ASSUME at'[t] # "idle", Object(t)' \notin crossed' PROVE Own(t)'
  <2>1. Object(t)' = Object(t)
    BY <1>4, CallKeeps
  <2>2. Object(t) \notin crossed
    BY <1>1, <1>4, <2>1 DEF TouchesOwn
  <2> QED BY <1>4, <2>2, CallerOwn
<1>5. \A u \in Threads : at'[u] # "idle" /\ Object(u)' \notin crossed' => Own(u)'
  BY <1>4, OthersOwn
<1>6. ASSUME crossed' = {} PROVE ~mixed' /\ \A u \in Threads : result'[u] # "error"
  <2>1. crossed = {}
    BY <1>1, <1>6 DEF TouchesOwn
  <2>2. mixed' = mixed /\ result'[t] \in {result[t], "ConnectionError"} \cup Answers
    BY <2>1, CallerOwn
  <2>3. \A u \in Threads \ {t} : result'[u] = result[u]
    BY <1>1 DEF TouchesOwn
  <2> QED BY <2>1, <2>2, <2>3 DEF OwnInv, Answers
<1> QED BY <1>3, <1>5, <1>6 DEF OwnInv

-----------------------------------------------------------------------------
(* The frames of an acquisition *)

\* No frame is lost on the way of a TCP connection to a thread that has got so many:
\* what is got, what is there to be read and what is left are all of them.
FlowOf(s, got) ==
  /\ request[s] # None => request[s].command = "START"
  /\ handler[s] = "open" => got = 0 /\ replies[s] = <<>>
  /\ handler[s] \in {"spawned", "serving"} => got + Len(replies[s]) + left[s] = Frames
  /\ \A i \in 1..Len(replies[s]) :
       /\ replies[s][i].what \in {"frame", "last", "FAIL"}
       /\ replies[s][i].what = "frame" => got + i < Frames
       /\ replies[s][i].what = "last" => got + i = Frames
       /\ replies[s][i].what = "FAIL" => handler[s] = "closed"

\* The stop of somebody else cuts an acquisition: it takes no frame of it away.
LEMMA FlowElsewhere ==
  ASSUME SharedInv, NEW s \in Sockets, NEW got \in Nat, FlowOf(s, got), Elsewhere(s)
  PROVE  FlowOf(s, got)'
<1>1. /\ handler'[s] = "open" => handler[s] = "open"
      /\ handler'[s] \in {"spawned", "serving"} => handler'[s] = handler[s]
      /\ handler[s] = "closed" => handler'[s] = "closed"
  BY KilledType DEF Elsewhere
<1> QED BY <1>1 DEF FlowOf, Elsewhere

\* The simulator produces each frame of its acquisition once, and the last one last.
LEMMA FlowServed ==
  ASSUME SharedInv, NEW s \in Sockets, NEW got \in Nat, FlowOf(s, got), ServerStep(s), Connected(s)
  PROVE  FlowOf(s, got)'
<1>1. /\ Onwards(s) /\ request[s] \in Calls /\ request[s].command = "START"
      /\ replies[s] \in Seq(Messages) /\ Len(replies[s]) \in Nat
      /\ request'[s] \in {request[s], None} /\ handler[s] # "closed"
  BY ServerEffect, NoneAssumption DEF ServerFx, Onwards, FlowOf, SharedInv, ThreadsTypeOK
<1>2. Frames \in Nat \ {0}
  BY ThreadsAssumption
<1>3. CASE ServeStart(s)
  <2>1. /\ handler[s] = "open" /\ handler'[s] = "spawned" /\ left'[s] = Frames
        /\ UNCHANGED <<request, replies>>
    BY <1>3 DEF ServeStart, Asked, SharedInv, ThreadsTypeOK
  <2>2. got = 0 /\ replies'[s] = <<>> /\ Len(replies'[s]) = 0
    BY <2>1 DEF FlowOf
  <2> QED BY <1>1, <1>2, <2>1, <2>2 DEF FlowOf
<1>4. CASE RunAcquisition(s) \/ LoseClient(s)
  <2>1. /\ \/ handler[s] = "spawned" /\ handler'[s] = "serving"
           \/ handler[s] = "serving" /\ handler'[s] = "ending"
        /\ UNCHANGED <<request, replies, left>>
    BY <1>4 DEF RunAcquisition, LoseClient, SharedInv, ThreadsTypeOK
  <2> QED BY <2>1 DEF FlowOf
<1>5. CASE Produce(s)
  <2> DEFINE m == [tag |-> request[s].tag, what |-> IF left[s] = 1 THEN "last" ELSE "frame"]
  <2>1. /\ handler[s] = "serving" /\ left'[s] = left[s] - 1
        /\ handler'[s] = (IF left[s] = 1 THEN "ending" ELSE "serving")
        /\ UNCHANGED request /\ left[s] \in 1..Frames
    BY <1>5 DEF Produce, SharedInv, ThreadsTypeOK, Served
  <2>2. replies'[s] = Append(replies[s], m) /\ m \in Messages
    BY <1>1, <1>5 DEF Produce, Says, Tag, SharedInv, ThreadsTypeOK, Messages, Calls, Answers
  <2>3. m.what = IF left[s] = 1 THEN "last" ELSE "frame"
    OBVIOUS
  <2> HIDE DEF m
  <2>4. /\ Len(replies'[s]) = Len(replies[s]) + 1
        /\ replies'[s][Len(replies[s]) + 1] = m
        /\ \A i \in 1..Len(replies[s]) : replies'[s][i] = replies[s][i]
    BY <1>1, <2>2, AppendProperties
  <2>5. got + Len(replies[s]) + left[s] = Frames
    BY <2>1 DEF FlowOf
  <2>6. handler'[s] \in {"spawned", "serving"} => got + Len(replies'[s]) + left'[s] = Frames
    BY <1>1, <1>2, <2>1, <2>4, <2>5
  <2>7. ASSUME NEW i \in 1..Len(replies'[s])
        PROVE  /\ replies'[s][i].what \in {"frame", "last"}
               /\ replies'[s][i].what = "frame" => got + i < Frames
               /\ replies'[s][i].what = "last" => got + i = Frames
    <3>1. CASE i \in 1..Len(replies[s])
      BY <2>1, <2>4, <3>1 DEF FlowOf
    <3>2. CASE i = Len(replies[s]) + 1
      BY <1>1, <1>2, <2>1, <2>3, <2>4, <2>5, <3>2
    <3> QED BY <1>1, <2>4, <3>1, <3>2
  <2>8. handler'[s] # "open"
    BY <2>1
  <2> QED BY <1>1, <2>1, <2>6, <2>7, <2>8 DEF FlowOf
<1>6. CASE EndAcquisition(s)
  <2> DEFINE m == [tag |-> request[s].tag, what |-> "FAIL"]
  <2>1. m \in Messages /\ m.what = "FAIL"
    BY <1>1 DEF Messages, Calls, Answers
  <2>2. handler'[s] = "closed"
    BY <1>6 DEF EndAcquisition, SharedInv, ThreadsTypeOK
  <2>3. replies'[s] = replies[s] \/ replies'[s] = Append(replies[s], m)
    BY <1>6 DEF EndAcquisition, Says, Tag, SharedInv, ThreadsTypeOK
  <2> HIDE DEF m
  <2>4. ASSUME NEW i \in 1..Len(replies'[s])
        PROVE  /\ replies'[s][i].what \in {"frame", "last", "FAIL"}
               /\ replies'[s][i].what = "frame" => got + i < Frames
               /\ replies'[s][i].what = "last" => got + i = Frames
    <3>1. CASE replies'[s] = replies[s]
      BY <3>1 DEF FlowOf
    <3>2. CASE replies'[s] = Append(replies[s], m)
      <4>1. /\ Len(replies'[s]) = Len(replies[s]) + 1
            /\ replies'[s][Len(replies[s]) + 1] = m
            /\ \A j \in 1..Len(replies[s]) : replies'[s][j] = replies[s][j]
        BY <1>1, <2>1, <3>2, AppendProperties
      <4>2. CASE i \in 1..Len(replies[s])
        BY <4>1, <4>2 DEF FlowOf
      <4>3. CASE i = Len(replies[s]) + 1
        BY <2>1, <4>1, <4>3
      <4> QED BY <1>1, <4>1, <4>2, <4>3
    <3> QED BY <2>3, <3>1, <3>2
  <2> QED BY <1>1, <2>2, <2>4 DEF FlowOf
<1> QED BY <1>1, <1>3, <1>4, <1>5, <1>6
    DEF ServerStep, Serve, ServeCommand, ServeTimeLeft, ServeRunStatus, ServeStop, Asked

\* The simulator and other programs take no frame away from a thread that is there.
LEMMA FlowStays ==
  ASSUME SharedInv, (\E x \in Sockets : ServerStep(x)) \/ ForeignStop,
         NEW s \in Sockets, NEW got \in Nat, FlowOf(s, got), Connected(s)
  PROVE  FlowOf(s, got)'
<1>1. CASE Elsewhere(s)
  BY <1>1, FlowElsewhere
<1>2. CASE ServerStep(s)
  BY <1>2, FlowServed
<1>3. Elsewhere(s) \/ ServerStep(s)
  BY ServerEffect, ForeignEffect DEF ServerFx
<1> QED BY <1>1, <1>2, <1>3

\* A message that is taken is got; after the last one there is nothing to come.
LEMMA FlowTaken ==
  ASSUME SharedInv, NEW s \in Sockets, NEW got \in Nat, FlowOf(s, got), replies[s] # <<>>,
         replies'[s] = Tail(replies[s]), UNCHANGED <<request, handler, left>>
  PROVE  LET what == Head(replies[s]).what IN
         /\ what \in {"frame", "last", "FAIL"} /\ FlowOf(s, got + 1)'
         /\ what = "frame" => got + 1 < Frames
         /\ what = "last" => got + 1 = Frames
         /\ what # "frame" => handler[s] \notin {"open", "spawned", "serving"}
<1> DEFINE m == Head(replies[s])
<1>1. replies[s] \in Seq(Messages) /\ Len(replies[s]) \in Nat \ {0}
  BY EmptySeq DEF SharedInv, ThreadsTypeOK
<1>2. /\ m = replies[s][1]
      /\ Len(replies'[s]) = Len(replies[s]) - 1
      /\ \A i \in 1..Len(replies'[s]) : replies'[s][i] = replies[s][i + 1]
  <2>1. m = replies[s][1]
    BY <1>1
  <2> QED BY <1>1, <2>1, HeadTailProperties
<1> HIDE DEF m
<1>3. /\ m.what \in {"frame", "last", "FAIL"}
      /\ m.what = "frame" => got + 1 < Frames
      /\ m.what = "last" => got + 1 = Frames
      /\ m.what = "FAIL" => handler[s] = "closed"
      /\ handler[s] # "open"
  BY <1>1, <1>2 DEF FlowOf
<1>4. handler[s] \in {"spawned", "serving"} =>
        left[s] \in Nat \ {0} /\ got + Len(replies[s]) + left[s] = Frames
  BY ThreadsAssumption DEF FlowOf, SharedInv, Served
<1>5. PICK n \in Nat \ {0} : n = Len(replies[s])
  BY <1>1
<1>6. handler[s] \in {"spawned", "serving"} => got + 1 + Len(replies'[s]) + left'[s] = Frames
  <2>1. SUFFICES ASSUME handler[s] \in {"spawned", "serving"}
                 PROVE  got + 1 + Len(replies'[s]) + left'[s] = Frames
    OBVIOUS
  <2>2. PICK l \in Nat \ {0} : l = left[s] /\ got + n + l = Frames
    BY <1>4, <1>5, <2>1
  <2>3. Len(replies'[s]) = n - 1 /\ left'[s] = l
    BY <1>2, <1>5, <2>2
  <2>4. got + 1 + (n - 1) + l = got + n + l
    OBVIOUS
  <2> QED BY <2>2, <2>3, <2>4
<1>7. m.what = "last" => handler[s] \notin {"spawned", "serving"}
  <2>1. SUFFICES ASSUME handler[s] \in {"spawned", "serving"}, m.what = "last" PROVE FALSE
    OBVIOUS
  <2>2. PICK l \in Nat \ {0} : got + n + l = Frames
    BY <1>4, <1>5, <2>1
  <2>3. got + n + l # got + 1
    OBVIOUS
  <2> QED BY <1>3, <2>1, <2>2, <2>3
<1>8. ASSUME NEW i \in 1..Len(replies'[s])
      PROVE  /\ replies'[s][i].what \in {"frame", "last", "FAIL"}
             /\ replies'[s][i].what = "frame" => got + 1 + i < Frames
             /\ replies'[s][i].what = "last" => got + 1 + i = Frames
             /\ replies'[s][i].what = "FAIL" => handler[s] = "closed"
  <2>1. i + 1 \in 1..Len(replies[s]) /\ replies'[s][i] = replies[s][i + 1] /\ i \in Nat
    BY <1>1, <1>2
  <2>2. /\ replies[s][i + 1].what \in {"frame", "last", "FAIL"}
        /\ replies[s][i + 1].what = "frame" => got + (i + 1) < Frames
        /\ replies[s][i + 1].what = "last" => got + (i + 1) = Frames
        /\ replies[s][i + 1].what = "FAIL" => handler[s] = "closed"
    BY <2>1 DEF FlowOf
  <2>3. got + (i + 1) = got + 1 + i
    BY <2>1
  <2> QED BY <2>1, <2>2, <2>3
<1>9. FlowOf(s, got + 1)'
  BY <1>3, <1>6, <1>8 DEF FlowOf
<1> QED BY <1>3, <1>7, <1>9 DEF m

-----------------------------------------------------------------------------
(* The block of an acquisition *)

Ask(object, command, tag) == [object |-> object, command |-> command, tag |-> tag]

\* A thread is in a block of the control Connection, and what arrives there is said
\* to its acquisition.
Held(t, tag) == /\ "ctrl" \in inside[t] /\ reader["ctrl"] \in Sides("ctrl")
                /\ Speaks(reader["ctrl"], tag)

\* Nothing happens to the control Connection, and nobody leaves a block of it.
CtrlSame ==
  /\ reader'["ctrl"] = reader["ctrl"]
  /\ \A x \in Sides("ctrl") : /\ request'[x] = request[x] /\ replies'[x] = replies[x]
                              /\ handler'[x] = handler[x] /\ left'[x] = left[x]
  /\ \A t \in Threads : "ctrl" \in inside[t] => "ctrl" \in inside'[t]

\* What is held stays.
LEMMA SameHeld ==
  ASSUME CtrlSame, NEW t \in Threads, NEW tag, Held(t, tag)
  PROVE  Held(t, tag)'
  BY DEF CtrlSame, Held, Speaks

\* What is on its way stays.
LEMMA SameFlow ==
  ASSUME CtrlSame, NEW got, reader["ctrl"] \in Sides("ctrl"), FlowOf(reader["ctrl"], got)
  PROVE  FlowOf(reader["ctrl"], got)'
  BY DEF CtrlSame, FlowOf

\* A call that begins touches no Connection.
LEMMA BeginSame ==
  ASSUME NEW t, NEW o, NEW c, NEW tag, Begin(t, o, c, tag)
  PROVE  CtrlSame
  BY DEF Begin, CtrlSame, serverVars

\* A call on the stop Connection leaves the control Connection alone.
LEMMA StopSame ==
  ASSUME SharedInv, NEW t \in Threads, CallStep(t), Object(t) = "stop"
  PROVE  CtrlSame
<1>1. TouchesOwn(t) /\ inside[t] \ {"stop"} \subseteq inside'[t]
  BY CallTouches, CallKeeps
<1>2. Sides("ctrl") \subseteq Sockets \ Sides("stop") /\ "ctrl" \in Objects
  BY OneSide DEF Objects
<1> QED BY <1>1, <1>2 DEF TouchesOwn, CtrlSame

\* While a thread is in its block the others use the stop Connection, or cross it.
LEMMA AloneInBlock ==
  ASSUME SharedInv, OwnInv, NEW t \in Threads, NEW u \in Threads \ {t}, CallStep(u),
         "ctrl" \in inside[t], "ctrl" \notin crossed'
  PROVE  Object(u) = "stop"
<1>1. at[u] # "idle" /\ Object(u) \in Objects /\ crossed \subseteq crossed'
  BY CallKeeps, CallTouches DEF SharedInv, Placed, Object, Calls, TouchesOwn
<1>2. SUFFICES ASSUME Object(u) = "ctrl" PROVE FALSE
  BY <1>1 DEF Objects
<1>3. "ctrl" \notin crossed /\ Own(u) /\ "ctrl" \in Objects
  BY <1>1, <1>2 DEF OwnInv
<1>4. at[u] = "connect"
  BY <1>1, <1>2, <1>3 DEF Own, OwnInv, Solo
<1>5. Connect(u)
  BY <1>4 DEF CallStep, Assign, Write, SocketGone, TakeFrame, TakeReply,
      UpdateClient, TakeFail, TakeMessage, Takes, TakeEof, CloseTest, CloseClear
<1> QED BY <1>2, <1>5 DEF Connect

\* The simulator says what belongs to the acquisition.
LEMMA ServerHeld ==
  ASSUME SharedInv, (\E s \in Sockets : ServerStep(s)) \/ ForeignStop,
         NEW t \in Threads, NEW tag, Held(t, tag)
  PROVE  Held(t, tag)'
<1>1. UNCHANGED clientVars /\ \A x \in Sockets : Served1(x)
  BY ServerTouches
<1>2. PICK x \in Sides("ctrl") : x = reader["ctrl"]
  BY DEF Held
<1>3. x \in Sockets
  BY <1>2, OneSide DEF Objects
<1>4. Speaks(x, tag)'
  BY <1>1, <1>2, <1>3, SpeaksStays DEF Held
<1> QED BY <1>1, <1>2, <1>4 DEF Held, clientVars, Speaks

\* The simulator takes no frame of it away.
LEMMA ServerFlow ==
  ASSUME SharedInv, (\E s \in Sockets : ServerStep(s)) \/ ForeignStop,
         NEW got \in Nat, reader["ctrl"] \in Sides("ctrl"), FlowOf(reader["ctrl"], got)
  PROVE  FlowOf(reader["ctrl"], got)'
<1>1. UNCHANGED clientVars
  BY ServerTouches
<1>2. PICK x \in Sockets : x = reader["ctrl"]
  BY OneSide DEF Objects
<1>3. FlowOf(x, got)'
  BY <1>2, FlowStays DEF Connected, Objects
<1> QED BY <1>1, <1>2, <1>3 DEF FlowOf, clientVars

\* A command of an uncrossed Connection ends with one of its answers.
LEMMA AnswerGiven ==
  ASSUME SharedInv, OwnInv, NEW t \in Threads, CallStep(t), Object(t) \notin crossed',
         call[t].command \in Answered, at'[t] = "idle"
  PROVE  result'[t] \in Ends(call[t].command)
<1>1. Own(t)
  BY CallKeeps, CallTouches DEF OwnInv, TouchesOwn
<1>2. CloseTest(t) \/ CloseClear(t)
  <2>1. call[t].command \notin {"START", "FRAME"}
    BY DEF Answered
  <2>2. ~Reads(t)
    BY <2>1, ReadsStep
  <2> QED BY <2>1, <2>2 DEF CallStep, Reads, Connect, Assign, Write, SocketGone, TakeMessage, TakeEof, Goes,
    SharedInv, ThreadsTypeOK
<1> QED BY <1>1, <1>2, CloseOwn DEF CloseTest, CloseClear, Own, Answered

\* START leaves a block of its own open, in which nothing was said yet.
LEMMA StartCall ==
  ASSUME SharedInv, OwnInv, NEW t \in Threads, NEW tag \in Tags, CallStep(t),
         call[t] = Ask("ctrl", "START", tag), at[t] \in {"connect", "assign", "write"},
         "ctrl" \notin crossed'
  PROVE  \/ at[t] # "write" /\ at'[t] \in {"assign", "write"}
         \/ /\ at[t] = "write" /\ at'[t] = "idle" /\ result'[t] = "reply"
            /\ sock["ctrl"] = reader["ctrl"] /\ reader'["ctrl"] = reader["ctrl"]
            /\ Held(t, tag)' /\ FlowOf(reader["ctrl"], 0)'
            /\ request'[reader["ctrl"]] = call[t] /\ handler'[reader["ctrl"]] = "open"
<1>1. /\ Object(t) = "ctrl" /\ "ctrl" \in Objects /\ call[t].command = "START" /\ call[t].tag = tag
      /\ Own(t)
  BY CallTouches, CallKeeps DEF OwnInv, TouchesOwn, Object, Objects, Ask
<1>2. CASE Connect(t) \/ Assign(t)
  BY <1>2 DEF Connect, Assign, Goes, SharedInv, ThreadsTypeOK
<1>3. CASE Write(t)
  <2>1. /\ at[t] = "write" /\ sock["ctrl"] = reader["ctrl"] /\ Fresh(sock["ctrl"])
        /\ "ctrl" \in inside[t]
    BY <1>1, <1>3 DEF Write, Own
  <2>2. PICK x \in Sides("ctrl") : x = sock["ctrl"] /\ x = reader["ctrl"] /\ x \in Sockets
    BY <1>1, <1>3, <2>1, OneSide DEF Write, SharedInv, Placed
  <2>3. /\ request' = [request EXCEPT ![x] = call[t]]
        /\ at' = [at EXCEPT ![t] = "idle"] /\ result' = [result EXCEPT ![t] = "reply"]
        /\ UNCHANGED <<reader, inside, replies, handler, left>>
    BY <1>1, <1>3, <2>1, <2>2 DEF Write, Goes, Fresh
  <2>4. /\ request'[x] = call[t] /\ replies'[x] = <<>> /\ handler'[x] = "open"
        /\ at'[t] = "idle" /\ result'[t] = "reply"
    BY <2>1, <2>2, <2>3 DEF SharedInv, ThreadsTypeOK, Fresh
  <2> QED BY <1>1, <2>1, <2>2, <2>3, <2>4 DEF Held, Speaks, FlowOf
<1> QED BY <1>1, <1>2, <1>3 DEF CallStep, SocketGone, TakeFrame, TakeReply,
    UpdateClient, TakeFail, TakeMessage, Takes, TakeEof, CloseTest, CloseClear, Own

\* The read of a frame stays in the block.  It takes a message of the acquisition, or
\* it finds the end of the stream.
LEMMA FrameCall ==
  ASSUME SharedInv, OwnInv, NEW t \in Threads, NEW tag \in Tags, CallStep(t),
         call[t] = Ask("ctrl", "FRAME", tag), "ctrl" \notin crossed', Held(t, tag),
         at[t] = "reading" => waits[t] = reader["ctrl"],
         at[t] \in {"test", "clear"} => result[t] = "ConnectionError"
  PROVE  /\ Held(t, tag)' /\ reader'["ctrl"] = reader["ctrl"]
         /\ \/ /\ at[t] = "reading" /\ at'[t] = "idle"
               /\ replies[reader["ctrl"]] # <<>>
               /\ replies'[reader["ctrl"]] = Tail(replies[reader["ctrl"]])
               /\ UNCHANGED <<request, handler, left>>
               /\ result'[t] = Head(replies[reader["ctrl"]]).what
            \/ /\ at'[t] \in {"test", "clear", "idle"} /\ result'[t] = "ConnectionError"
               /\ at[t] = "reading" => /\ handler[reader["ctrl"]] = "closed"
                                       /\ replies[reader["ctrl"]] = <<>>
               /\ UNCHANGED <<request, replies, handler, left>>
<1>1. /\ Object(t) = "ctrl" /\ "ctrl" \in Objects /\ call[t].command = "FRAME" /\ call[t].tag = tag
      /\ Own(t)
  BY CallTouches, CallKeeps DEF OwnInv, TouchesOwn, Object, Objects, Ask
<1>2. PICK x \in Sides("ctrl") : x = reader["ctrl"] /\ x \in Sockets
  BY <1>1, OneSide DEF Held
<1>3. CASE Reads(t)
  <2>0. PICK what \in Results : /\ at[t] = "reading" /\ Takes(t, what)
                                /\ at'[t] = "idle" /\ result'[t] = what
    BY <1>1, <1>3, ReadsStep
  <2>1. /\ at[t] = "reading" /\ waits[t] = x
    BY <1>2, <2>0
  <2>2. /\ replies[x] # <<>> /\ replies'[x] = Tail(replies[x])
        /\ at'[t] = "idle"
        /\ UNCHANGED <<reader, inside, request, handler, left>>
    <3>1. /\ replies[x] # <<>>
          /\ replies' = [replies EXCEPT ![x] = Tail(replies[x])]
          /\ UNCHANGED <<reader, inside, request, handler, left>>
      BY <2>0, <2>1, TakesEffect
    <3> QED BY <1>2, <2>0, <3>1 DEF SharedInv, ThreadsTypeOK
  <2>3. result'[t] = Head(replies[x]).what
    <3>1. what = Head(replies[x]).what
      BY <1>1, <2>0, <2>1, TakesOwn
    <3> QED BY <2>0, <3>1
  <2>4. Speaks(x, tag)'
    <3>1. replies[x] \in Seq(Messages) /\ Len(replies[x]) \in Nat
      BY <1>2 DEF SharedInv, ThreadsTypeOK
    <3>2. /\ Len(replies'[x]) = Len(replies[x]) - 1
          /\ \A i \in 1..Len(replies'[x]) : replies'[x][i] = replies[x][i + 1]
      BY <2>2, <3>1, HeadTailProperties
    <3>3. \A i \in 1..Len(replies'[x]) : i + 1 \in 1..Len(replies[x])
      BY <3>1, <3>2
    <3> QED BY <1>2, <2>2, <3>2, <3>3 DEF Held, Speaks
  <2> QED BY <1>2, <2>1, <2>2, <2>3, <2>4 DEF Held, Speaks
<1>4. CASE TakeEof(t) \/ CloseTest(t) \/ CloseClear(t)
  <2>1. /\ UNCHANGED <<reader, request, replies, handler, left>>
        /\ result'[t] = "ConnectionError"
        /\ at[t] = "reading" => handler[x] = "closed" /\ replies[x] = <<>>
    <3>1. CASE TakeEof(t)
      BY <1>2, <3>1 DEF TakeEof, serverVars, SharedInv, ThreadsTypeOK
    <3>2. CASE CloseTest(t) \/ CloseClear(t)
      <4>1. result[t] = "ConnectionError" /\ at[t] # "reading"
        BY <3>2 DEF CloseTest, CloseClear
      <4> QED BY <1>1, <3>2, <4>1, CloseOwn DEF CloseTest, CloseClear, serverVars
    <3> QED BY <1>4, <3>1, <3>2
  <2>2. "ctrl" \in inside'[t] /\ at'[t] \in {"test", "clear", "idle"}
    BY <1>1, <1>4 DEF TakeEof, CloseTest, CloseClear, Closed, Goes, SharedInv, ThreadsTypeOK, Held
  <2> QED BY <1>2, <2>1, <2>2 DEF Held, Speaks
<1> QED BY <1>1, <1>3, <1>4
    DEF CallStep, Reads, Connect, Assign, Write, SocketGone, TakeMessage, SharedInv, Closing

\* Nothing of it happens in a step without a call.
LEMMA QuietSame ==
  ASSUME UNCHANGED threadVars
  PROVE  CtrlSame
  BY DEF threadVars, clientVars, serverVars, CtrlSame

\* What a program has to know when one of its threads begins a call.
LEMMA BeginEffect ==
  ASSUME SharedInv, OwnInv, NEW t \in Threads, NEW o \in Objects, NEW c \in Commands,
         NEW tag \in Tags, Begin(t, o, c, tag),
         c = "FRAME" => reader[o] \in Sides(o),
         o \notin crossed /\ c \in {"FRAME", "CLOSE"} => o \in inside[t],
         o \notin crossed /\ c = "FRAME" => Speaks(reader[o], tag)
  PROVE  /\ SharedInv' /\ OwnInv' /\ CtrlSame
         /\ at[t] = "idle" /\ call'[t] = Ask(o, c, tag) /\ result'[t] = "none"
         /\ at'[t] = IF c = "FRAME" THEN "reading" ELSE IF c = "CLOSE" THEN "test" ELSE "connect"
         /\ c = "FRAME" => waits'[t] = reader[o]
         /\ \A u \in Threads \ {t} : /\ at'[u] = at[u] /\ call'[u] = call[u]
                                     /\ waits'[u] = waits[u] /\ result'[u] = result[u]
         /\ UNCHANGED <<sock, reader, inside, crossed, request, replies, handler, left, acquisition,
                        foreign>>
<1>1. SharedInv' /\ OwnInv' /\ CtrlSame
  BY BeginShared, BeginOwn, BeginSame
<1>2. /\ at[t] = "idle"
      /\ call' = [call EXCEPT ![t] = Ask(o, c, tag)]
      /\ at' = [at EXCEPT ![t] = IF c = "FRAME" THEN "reading"
                                 ELSE IF c = "CLOSE" THEN "test" ELSE "connect"]
      /\ waits' = IF c = "FRAME" THEN [waits EXCEPT ![t] = reader[o]] ELSE waits
      /\ result' = [result EXCEPT ![t] = "none"]
      /\ UNCHANGED <<sock, reader, local, inside, crossed, serverVars, mixed>>
  BY DEF Begin, Goes, Idle, Ask
<1> QED BY <1>1, <1>2 DEF SharedInv, ThreadsTypeOK, serverVars

\* What it has to know when a call goes on.
LEMMA CallEffect ==
  ASSUME SharedInv, OwnInv, NEW t \in Threads, CallStep(t)
  PROVE  /\ SharedInv' /\ OwnInv' /\ crossed \subseteq crossed'
         /\ at[t] # "idle" /\ (at'[t] # "idle" => call'[t] = call[t])
         /\ \A u \in Threads \ {t} : /\ at'[u] = at[u] /\ call'[u] = call[u]
                                     /\ waits'[u] = waits[u] /\ result'[u] = result[u]
                                     /\ inside'[u] = inside[u]
         /\ reader["ctrl"] # None => reader'["ctrl"] # None
<1>1. SharedInv' /\ OwnInv' /\ TouchesOwn(t)
  BY CallShared, CallOwn, CallTouches
<1>2. reader["ctrl"] # None => reader'["ctrl"] # None
  <2>1. CASE Connect(t)
    <3>1. PICK s \in Sides(Object(t)) : reader' = [reader EXCEPT ![Object(t)] = s]
      BY <2>1, ConnectMakes
    <3>2. s # None
      BY OneSide DEF Sides
    <3> QED BY <3>1, <3>2 DEF SharedInv, ThreadsTypeOK, Objects
  <2>2. CASE ~Connect(t)
    BY <2>2 DEF CallStep, Assign, Write, SocketGone, TakeFrame, TakeReply,
        UpdateClient, TakeFail, TakeMessage, Takes, TakeEof, CloseTest, CloseClear
  <2> QED BY <2>1, <2>2
<1> QED BY <1>1, <1>2, CallKeeps DEF TouchesOwn

\* Only connect is followed by assign, and that by write; a command that update_client
\* follows connects again.
LEMMA CallPlaces ==
  ASSUME SharedInv, NEW t \in Threads, CallStep(t)
  PROVE  /\ at'[t] = "reading" => at[t] = "write"
         /\ at'[t] = "connect" => at[t] = "reading" /\ call[t].command = "COMMAND"
         /\ at'[t] = "idle" => \/ at[t] = "write" /\ call[t].command = "START"
                               \/ at[t] = "reading" /\ call[t].command = "FRAME"
                               \/ at[t] \in {"test", "clear"}
<1>1. CASE CloseTest(t) \/ CloseClear(t)
  BY <1>1, ClosedEffect DEF CloseTest, CloseClear, Goes, SharedInv, ThreadsTypeOK
<1>2. CASE Reads(t)
  BY <1>2, ReadsStep
<1> QED BY <1>1, <1>2 DEF CallStep, Reads, Connect, Assign, Write, SocketGone, TakeMessage, TakeEof, Goes,
  SharedInv, ThreadsTypeOK

-----------------------------------------------------------------------------
(* The acquisitions of the simulator *)

\* The handler produces frames, or it will when it reads its command.
Underway(x) == \/ handler[x] \in {"spawned", "serving"}
               \/ handler[x] = "open" /\ request[x] # None /\ request[x].command = "START"

\* The simulator starts no acquisition that nobody asked for.
LEMMA ServerRuns ==
  ASSUME SharedInv, (\E s \in Sockets : ServerStep(s)) \/ ForeignStop, NEW x \in Sockets, Underway(x)'
  PROVE  Underway(x)
<1>1. CASE Elsewhere(x)
  BY <1>1, KilledType DEF Elsewhere, Underway
<1>2. CASE ServerStep(x)
  BY <1>2 DEF ServerStep, Serve, ServeCommand, ServeTimeLeft, ServeRunStatus, ServeStart, ServeStop,
     RunAcquisition, Produce, LoseClient, EndAcquisition, Asked, HangUp, Underway, Killed, SharedInv,
     ThreadsTypeOK, Served, Begun
<1>3. Elsewhere(x) \/ ServerStep(x)
  BY ServerEffect, ForeignEffect DEF ServerFx
<1> QED BY <1>1, <1>2, <1>3

\* Only the START of a call is a reason for a new one.
LEMMA CallRuns ==
  ASSUME SharedInv, NEW t \in Threads, CallStep(t), NEW x \in Sockets, Underway(x)'
  PROVE  Underway(x) \/ (at[t] = "write" /\ call[t].command = "START" /\ x = sock[Object(t)])
<1>1. CASE Connect(t)
  <2>1. PICK s \in Sides(Object(t)) :
           /\ request' = [request EXCEPT ![s] = None]
           /\ handler' = [handler EXCEPT ![s] = "open"]
    BY <1>1, ConnectMakes
  <2> QED BY <2>1 DEF Underway, SharedInv, ThreadsTypeOK
<1>2. CASE Write(t)
  BY <1>2, OneSide DEF Write, Underway, SharedInv, ThreadsTypeOK, Placed, Object, Calls
<1>3. CASE ~Connect(t) /\ ~Write(t)
  BY <1>3 DEF CallStep, Assign, SocketGone, TakeFrame, TakeReply,
      UpdateClient, TakeFail, TakeMessage, Takes, TakeEof, CloseTest, CloseClear, serverVars, Underway
<1> QED BY <1>1, <1>2, <1>3

-----------------------------------------------------------------------------
(* What a program has of it *)

\* The calls of an uncrossed program get their own answers.
LEMMA OwnIsAnswers == SharedInv /\ OwnInv => OwnAnswers
<1> SUFFICES ASSUME SharedInv, OwnInv, crossed = {} PROVE
      ~mixed /\ \A t \in Threads :
        /\ result[t] # "error"
        /\ at[t] = "reading" /\ call[t].command # "FRAME"
              => replies[waits[t]] # <<>> \/ handler[waits[t]] # "closed"
        /\ result[t] \in {"FAIL", "ConnectionError"} /\ call[t] # None
              => call[t].command \in {"FRAME", "TIME_LEFT"}
  BY DEF OwnAnswers
<1>1. ~mixed /\ \A t \in Threads : result[t] # "error"
  BY DEF OwnInv
<1>2. ASSUME NEW t \in Threads, at[t] = "reading", call[t].command # "FRAME"
      PROVE  replies[waits[t]] # <<>> \/ handler[waits[t]] # "closed"
  <2>1. call[t].command \in Answered /\ Own(t)
    BY <1>2 DEF OwnInv, SharedInv, Placed, Calls, Commands, Answered
  <2>2. Answering(waits[t], call[t])
    BY <1>2, <2>1 DEF Own
  <2> QED BY <2>2 DEF Answering
<1>3. ASSUME NEW t \in Threads, result[t] \in {"FAIL", "ConnectionError"}, call[t] # None
      PROVE  call[t].command \in {"FRAME", "TIME_LEFT"}
  <2>1. at[t] # "idle" /\ at[t] \in Places /\ Own(t)
    BY <1>3 DEF OwnInv, SharedInv, Placed, ThreadsTypeOK
  <2>2. call[t].command \in Answered \cup {"FRAME", "TIME_LEFT", "START", "CLOSE"}
    BY <2>1 DEF SharedInv, Placed, Calls, Commands, Answered
  <2> QED BY <1>3, <2>1, <2>2 DEF Own, Places, AnswersTo, Ends, Answered
<1> QED BY <1>1, <1>2, <1>3

\* A step of the program that makes no call keeps them.
LEMMA ThreadsStay ==
  ASSUME SharedInv, OwnInv, UNCHANGED threadVars
  PROVE  SharedInv' /\ OwnInv'
<1>1. UNCHANGED <<clientVars, serverVars>>
  BY DEF threadVars
<1>2. SharedInv'
  BY <1>1 DEF SharedInv, ThreadsTypeOK, Placed, Closing, Served, Object, clientVars, serverVars
<1>3. OwnInv'
  BY <1>1 DEF OwnInv, Solo, Own, Object, Fresh, Speaks, Answering, clientVars, serverVars
<1> QED BY <1>2, <1>3
=============================================================================
