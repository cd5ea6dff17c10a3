---------------------------- MODULE ClientThreads ----------------------------
(***************************************************************************)
(* The threads of one program that share a client.Detector, and with it    *)
(* one control and one stop Connection (sls/client.py), which have no      *)
(* lock.  A command is  with conn: write; read  and each access to         *)
(* conn.sock or conn.reader is an action, so that threads can overwrite    *)
(* each other's socket.  At the other end is the simulator, at the         *)
(* granularity of whole handlers (SimServer has the finer one).            *)
(* GuiThreads, LimaInterface and SardanaController are such programs.      *)
(***************************************************************************)
EXTENDS Naturals, Sequences

CONSTANTS
  Threads,      \* threads of the program
  Spares,       \* bound: TCP connections of one thread to one port at a time
  Frames,       \* frames of an acquisition
  Foreign,      \* bound: stops that other programs send
  Tags,         \* what a call and its answer are recognised by
  None          \* Python's None

ASSUME ThreadsAssumption == /\ Threads \subseteq Tags /\ None \notin Tags
                            /\ Frames \in Nat \ {0} /\ Spares \in Nat \ {0}
                            /\ Foreign \in Nat

VARIABLES
  sock,         \* Connection.sock
  reader,       \* Connection.reader
  local,        \* the local variable sock of a connect that has not stored it
  waits,        \* the reader object in whose read a thread is, or whose FAIL it has read
  call,         \* the call a thread makes
  at,           \* where in the call it is
  closes,       \* calls of Connection.close that it still makes
  result,       \* what its last call returned or raised
  inside,       \* the "with conn" blocks a thread, or its generator, is in
  crossed,      \* history: Connections that two blocks used at the same time
  mixed,        \* history: was the answer to one call read by another?
  request,      \* the first command that arrived on a TCP connection
  replies,      \* what the server wrote to it and nobody read yet
  handler,      \* the handler greenlet of a TCP connection
  left,         \* frames its acquisition will still produce
  acquisition,  \* simulator Detector.acquisition
  foreign       \* stops that other programs have sent

clientVars == <<sock, reader, local, waits, call, at, closes, result, inside, crossed, mixed>>
serverVars == <<request, replies, handler, left, acquisition, foreign>>
threadVars == <<clientVars, serverVars>>

Objects == {"ctrl", "stop"}

\* A TCP connection is named after the thread that made it.
Sockets == Threads \X Objects \X (1..Spares)

\* START leaves its block open; FRAME is a read in it and CLOSE its exit.
Commands == {"COMMAND", "START", "FRAME", "CLOSE", "STOP", "TIME_LEFT", "RUN_STATUS"}
Calls    == [object : Objects, command : Commands, tag : Tags]

Places   == {"idle", "connect", "assign", "write", "reading", "message", "test", "clear"}
Answers  == {"reply", "frame", "last", "FAIL", "IDLE", "RUNNING"}
Results  == Answers \cup {"none", "foreign", "ConnectionError", "error"}
Handlers == {"open", "spawned", "serving", "ending", "hung", "closed"}
Messages == [tag : Tags, what : Answers]

ASSUME NoneAssumption == None \notin Sockets \cup Calls

ThreadsInit ==
  /\ sock = [o \in Objects |-> None]
  /\ reader = [o \in Objects |-> None]
  /\ local = [t \in Threads |-> None]
  /\ waits = [t \in Threads |-> None]
  /\ call = [t \in Threads |-> None]
  /\ at = [t \in Threads |-> "idle"]
  /\ closes = [t \in Threads |-> 0]
  /\ result = [t \in Threads |-> "none"]
  /\ inside = [t \in Threads |-> {}]
  /\ crossed = {}
  /\ mixed = FALSE
  /\ request = [s \in Sockets |-> None]
  /\ replies = [s \in Sockets |-> <<>>]
  /\ handler = [s \in Sockets |-> "closed"]
  /\ left = [s \in Sockets |-> 0]
  /\ acquisition = None
  /\ foreign = 0

Idle(t) == at[t] = "idle"

-----------------------------------------------------------------------------
(* TCP connections *)

\* A reader object keeps its TCP connection open, also when the socket object
\* is closed; so does a socket object.
Connected(s) == \/ s \in {reader[o] : o \in Objects} \cup {waits[t] : t \in Threads}
                \/ s \in {sock[o] : o \in Objects} \cup {local[t] : t \in Threads}

\* The handler has something to do although the client is gone.
Busy(s) == handler[s] \in {"spawned", "serving", "ending", "hung"}
           \/ (handler[s] = "open" /\ request[s] # None)

\* Names for a new TCP connection.  Its makefile replaces the reader, so that
\* the name of the last one is free when nothing else holds it.
Unused(t, o) ==
  {n \in 1..Spares : /\ ~Busy(<<t, o, n>>)
                     /\ <<t, o, n>> \notin {sock[o]} \cup {local[u] : u \in Threads}
                                             \cup {waits[u] : u \in Threads}}

-----------------------------------------------------------------------------
(* A call of thread t *)

Object(t) == call[t].object
Goes(t, place) == at' = [at EXCEPT ![t] = place]

\* The caller makes a call.  The read of a frame takes the reader of this
\* moment; the exit of a block is one close.
Begin(t, object, command, tag) ==
  /\ Idle(t)
  /\ call' = [call EXCEPT ![t] = [object |-> object, command |-> command, tag |-> tag]]
  /\ Goes(t, IF command = "FRAME" THEN "reading" ELSE IF command = "CLOSE" THEN "test" ELSE "connect")
  /\ waits' = IF command = "FRAME" THEN [waits EXCEPT ![t] = reader[object]] ELSE waits
  /\ closes' = [closes EXCEPT ![t] = IF command \in {"START", "FRAME"} THEN 0 ELSE 1]
  /\ result' = [result EXCEPT ![t] = "none"]
  /\ UNCHANGED <<sock, reader, local, inside, crossed, serverVars, mixed>>

\* Mutant of Connect: the Connection keeps the reader it has.
ConnectKeepsReader(t) ==
  /\ at[t] = "connect" /\ Unused(t, Object(t)) # {}
  /\ LET s == <<t, Object(t), CHOOSE n \in Unused(t, Object(t)) : TRUE>>
     IN /\ local' = [local EXCEPT ![t] = s]
        /\ reader' = IF reader[Object(t)] = None THEN [reader EXCEPT ![Object(t)] = s] ELSE reader
        /\ request' = [request EXCEPT ![s] = None]
        /\ replies' = [replies EXCEPT ![s] = <<>>]
        /\ handler' = [handler EXCEPT ![s] = "open"]
        /\ left' = [left EXCEPT ![s] = 0]
  /\ inside' = [inside EXCEPT ![t] = @ \cup {Object(t)}]
  /\ UNCHANGED crossed
  /\ Goes(t, "assign")
  /\ UNCHANGED <<sock, waits, call, closes, result, acquisition, foreign, mixed>>

\* connect up to self.reader = sock.makefile('rb').
Connect(t) ==
  /\ at[t] = "connect" /\ Unused(t, Object(t)) # {}
  /\ LET s == <<t, Object(t), CHOOSE n \in Unused(t, Object(t)) : TRUE>>
     IN /\ local' = [local EXCEPT ![t] = s]
        /\ reader' = [reader EXCEPT ![Object(t)] = s]
        /\ request' = [request EXCEPT ![s] = None]
        /\ replies' = [replies EXCEPT ![s] = <<>>]
        /\ handler' = [handler EXCEPT ![s] = "open"]
        /\ left' = [left EXCEPT ![s] = 0]
  /\ inside' = [inside EXCEPT ![t] = @ \cup {Object(t)}]
  /\ crossed' = IF \E u \in Threads \ {t} : Object(t) \in inside[u]
                THEN crossed \cup {Object(t)} ELSE crossed
  /\ Goes(t, "assign")
  /\ UNCHANGED <<sock, waits, call, closes, result, acquisition, foreign, mixed>>

\* self.sock = sock.
Assign(t) ==
  /\ at[t] = "assign"
  /\ sock' = [sock EXCEPT ![Object(t)] = local[t]]
  /\ local' = [local EXCEPT ![t] = None]
  /\ Goes(t, "write")
  /\ UNCHANGED <<reader, waits, call, closes, result, inside, crossed, serverVars, mixed>>

\* self.sock.sendall, and for a command with an answer self.reader.read: the
\* socket and the reader of this moment, whoever connected them.  A server
\* handler reads only the first command.
Write(t) ==
  /\ at[t] = "write"
  /\ sock[Object(t)] # None
  /\ LET s == sock[Object(t)]
     IN request' = IF request[s] = None /\ handler[s] = "open"
                    THEN [request EXCEPT ![s] = call[t]] ELSE request
  /\ IF call[t].command = "START"
     THEN /\ Goes(t, "idle")
          /\ call' = [call EXCEPT ![t] = None]
          /\ result' = [result EXCEPT ![t] = "reply"]
          /\ UNCHANGED waits
     ELSE /\ Goes(t, "reading")
          /\ waits' = [waits EXCEPT ![t] = reader[Object(t)]]
          /\ UNCHANGED <<call, result>>
  /\ UNCHANGED <<sock, reader, local, closes, inside, crossed, replies, handler, left, acquisition, foreign, mixed>>

\* Another thread's close left no socket to write to or to receive from:
\* AttributeError.
SocketGone(t) ==
  /\ at[t] \in {"write", "message"}
  /\ sock[Object(t)] = None
  /\ result' = [result EXCEPT ![t] = "error"]
  /\ closes' = [closes EXCEPT ![t] = IF @ = 0 THEN 1 ELSE @]
  /\ waits' = [waits EXCEPT ![t] = None]
  /\ Goes(t, "test")
  /\ UNCHANGED <<sock, reader, local, call, inside, crossed, serverVars, mixed>>

\* What the caller understands as an answer to its command.
Expected(command) ==
  IF command = "FRAME" THEN {"frame", "last"}
  ELSE IF command = "RUN_STATUS" THEN {"IDLE", "RUNNING"} ELSE {"reply"}

\* What the caller makes of a message.  Messages do not say what they answer:
\* that of another call is an error, or is taken for one's own.
Understood(t, m) ==
  IF m.tag = call[t].tag THEN {m.what}
  ELSE {"foreign"} \cup ({m.what} \cap (Expected(call[t].command) \cup {"FAIL"}))

\* The bytes of a message are there, and the reader's read returns them.
Takes(t, what) ==
  /\ replies[waits[t]] # <<>>
  /\ what \in Understood(t, Head(replies[waits[t]]))
  /\ replies' = [replies EXCEPT ![waits[t]] = Tail(@)]
  /\ mixed' = (mixed \/ Head(replies[waits[t]]).tag # call[t].tag)
  /\ UNCHANGED <<sock, reader, local, inside, crossed, request, handler, left, acquisition, foreign>>

\* fetch_frame: its FAIL raises at once.
TakeFrame(t) ==
  /\ at[t] = "reading" /\ call[t].command = "FRAME"
  /\ \E what \in Results : Takes(t, what) /\ result' = [result EXCEPT ![t] = what]
  /\ Goes(t, "idle")
  /\ call' = [call EXCEPT ![t] = None]
  /\ waits' = [waits EXCEPT ![t] = None]
  /\ UNCHANGED closes

TakeReply(t) ==
  /\ at[t] = "reading" /\ call[t].command # "FRAME"
  /\ \E what \in Results \ {"FAIL"} : Takes(t, what) /\ result' = [result EXCEPT ![t] = what]
  /\ Goes(t, "test")
  /\ waits' = [waits EXCEPT ![t] = None]
  /\ UNCHANGED <<call, closes>>

\* auto_ctrl_connect: the reply was FORCE_UPDATE, or the Detector has no info yet.
\* update_client connects the Connection again, inside the block it is in, and
\* leaves a block of its own first; it is not followed by another.
UpdateClient(t) ==
  /\ at[t] = "reading" /\ call[t].command = "COMMAND" /\ closes[t] = 1
  /\ Takes(t, "reply")
  /\ Goes(t, "connect")
  /\ closes' = [closes EXCEPT ![t] = 2]
  /\ waits' = [waits EXCEPT ![t] = None]
  /\ UNCHANGED <<call, result>>

\* request_reply: the text of the error is still to be received.
TakeFail(t) ==
  /\ at[t] = "reading" /\ call[t].command # "FRAME"
  /\ Takes(t, "FAIL")
  /\ Goes(t, "message")
  /\ UNCHANGED <<call, closes, waits, result>>

\* read_message: the text is received from the socket of this moment, and not
\* from the reader.  It is an SLSError; but the reader may have taken it with the
\* FAIL, and then recv finds the end of the stream, closes, and raises a
\* ConnectionError.  Another socket gives the bytes of another call.
TakeMessage(t) ==
  /\ at[t] = "message" /\ sock[Object(t)] # None
  /\ LET s == sock[Object(t)]
         ended == replies[s] = <<>> /\ handler[s] = "closed"
     IN \/ /\ s = waits[t]
           /\ result' = [result EXCEPT ![t] = "FAIL"]
           /\ UNCHANGED <<closes, replies, mixed>>
        \/ /\ s = waits[t] \/ ended
           /\ result' = [result EXCEPT ![t] = "ConnectionError"]
           /\ closes' = [closes EXCEPT ![t] = @ + 1]
           /\ UNCHANGED <<replies, mixed>>
        \/ /\ s # waits[t] /\ replies[s] # <<>>
           /\ result' = [result EXCEPT ![t] = "foreign"]
           /\ replies' = [replies EXCEPT ![s] = Tail(@)]
           /\ mixed' = TRUE
           /\ UNCHANGED closes
  /\ waits' = [waits EXCEPT ![t] = None]
  /\ Goes(t, "test")
  /\ UNCHANGED <<sock, reader, local, call, inside, crossed, request, handler, left, acquisition, foreign>>

\* Mutant of TakeEof: read() goes on reading.
EofReadAgain(t) ==
  /\ at[t] = "reading"
  /\ replies[waits[t]] = <<>> /\ handler[waits[t]] = "closed"
  /\ UNCHANGED threadVars

\* The end of the stream: read closes the Connection, whosever socket it now
\* has, before it raises; the exit of the block closes it again.
TakeEof(t) ==
  /\ at[t] = "reading"
  /\ replies[waits[t]] = <<>> /\ handler[waits[t]] = "closed"
  /\ result' = [result EXCEPT ![t] = "ConnectionError"]
  /\ closes' = [closes EXCEPT ![t] = @ + 1]
  /\ waits' = [waits EXCEPT ![t] = None]
  /\ Goes(t, "test")
  /\ UNCHANGED <<sock, reader, local, call, inside, crossed, serverVars, mixed>>

\* A close() is over, and perhaps the call with it; the read of a frame does
\* not leave the block of its START.
Closed(t) ==
  /\ closes' = [closes EXCEPT ![t] = @ - 1]
  /\ IF closes[t] > 1
     THEN Goes(t, "test") /\ UNCHANGED <<call, inside>>
     ELSE /\ Goes(t, "idle")
          /\ call' = [call EXCEPT ![t] = None]
          /\ inside' = IF call[t].command = "FRAME" THEN inside
                       ELSE [inside EXCEPT ![t] = @ \ {Object(t)}]

\* close(): if self.sock
CloseTest(t) ==
  /\ at[t] = "test"
  /\ IF sock[Object(t)] = None
     THEN Closed(t)
     ELSE Goes(t, "clear") /\ UNCHANGED <<call, closes, inside>>
  /\ UNCHANGED <<sock, reader, local, waits, result, crossed, serverVars, mixed>>

\* self.sock.close(); self.sock = None: of the socket of this moment, and an
\* AttributeError if another thread's close has already left None.
CloseClear(t) ==
  /\ at[t] = "clear"
  /\ result' = IF sock[Object(t)] = None THEN [result EXCEPT ![t] = "error"] ELSE result
  /\ sock' = [sock EXCEPT ![Object(t)] = None]
  /\ Closed(t)
  /\ UNCHANGED <<reader, local, waits, crossed, serverVars, mixed>>

CallStep(t) ==
  \/ Connect(t) \/ Assign(t) \/ Write(t) \/ SocketGone(t)
  \/ TakeFrame(t) \/ TakeReply(t) \/ UpdateClient(t) \/ TakeFail(t) \/ TakeMessage(t) \/ TakeEof(t)
  \/ CloseTest(t) \/ CloseClear(t)

-----------------------------------------------------------------------------
(* The simulator *)

Says(s, tag, what) ==
  replies' = IF Connected(s) THEN [replies EXCEPT ![s] = Append(@, [tag |-> tag, what |-> what])]
             ELSE replies

\* The handler reads the first command of its connection.
Asked(s, commands) == /\ handler[s] = "open" /\ request[s] # None
                      /\ request[s].command \in commands
Tag(s) == request[s].tag

\* The handler is over and the connection closed.
HangUp(s) == /\ handler' = [handler EXCEPT ![s] = "closed"]
             /\ request' = [request EXCEPT ![s] = None]

\* A configuration command: answered, and the connection is closed.
ServeCommand(s) ==
  /\ Asked(s, {"COMMAND"})
  /\ Says(s, Tag(s), "reply")
  /\ HangUp(s)
  /\ UNCHANGED <<clientVars, foreign, left, acquisition>>

\* TIME_LEFT of the exposure: an acquisition whose greenlet has not run, or was
\* killed before it ran, has no frame_start.
ServeTimeLeft(s) ==
  /\ Asked(s, {"TIME_LEFT"})
  /\ Says(s, Tag(s), IF acquisition # None /\ handler[acquisition] \in {"spawned", "hung"}
                     THEN "FAIL" ELSE "reply")
  /\ HangUp(s)
  /\ UNCHANGED <<clientVars, foreign, left, acquisition>>

\* RUN_STATUS: RUNNING as long as an acquisition has the detector.
ServeRunStatus(s) ==
  /\ Asked(s, {"RUN_STATUS"})
  /\ Says(s, Tag(s), IF acquisition = None THEN "IDLE" ELSE "RUNNING")
  /\ HangUp(s)
  /\ UNCHANGED <<clientVars, foreign, left, acquisition>>

\* START_AND_READ_ALL up to the first wait for a frame.
ServeStart(s) ==
  /\ Asked(s, {"START"})
  /\ acquisition' = s
  /\ left' = [left EXCEPT ![s] = Frames]
  /\ handler' = [handler EXCEPT ![s] = "spawned"]
  /\ UNCHANGED <<clientVars, foreign, request, replies>>

\* What the handler of an acquisition does after a kill: the greenlet's None
\* ends its loop, but a greenlet that never ran leaves none.
Killed(a) == IF handler[a] = "spawned" THEN "hung"
             ELSE IF handler[a] = "serving" THEN "ending" ELSE handler[a]

\* STOP_ACQUISITION.
ServeStop(s) ==
  /\ Asked(s, {"STOP"})
  /\ Says(s, Tag(s), "reply")
  /\ IF acquisition = None
     THEN handler' = [handler EXCEPT ![s] = "closed"]
     ELSE handler' = [handler EXCEPT ![s] = "closed", ![acquisition] = Killed(acquisition)]
  /\ request' = [request EXCEPT ![s] = None]
  /\ UNCHANGED <<clientVars, foreign, left, acquisition>>

\* The greenlet of the acquisition runs for the first time.
RunAcquisition(s) ==
  /\ handler[s] = "spawned"
  /\ handler' = [handler EXCEPT ![s] = "serving"]
  /\ UNCHANGED <<clientVars, foreign, request, replies, left, acquisition>>

\* Mutant of Produce: FINISHED is due one frame later.
ProduceOneMore(s) ==
  /\ handler[s] = "serving"
  /\ left' = [left EXCEPT ![s] = @ - 1]
  /\ Says(s, Tag(s), IF left[s] = 0 THEN "last" ELSE "frame")
  /\ handler' = IF left[s] = 0 THEN [handler EXCEPT ![s] = "ending"] ELSE handler
  /\ UNCHANGED <<clientVars, foreign, request, acquisition>>

\* A frame is produced and written; FINISHED follows the last one.
Produce(s) ==
  /\ handler[s] = "serving"
  /\ left' = [left EXCEPT ![s] = @ - 1]
  /\ Says(s, Tag(s), IF left[s] = 1 THEN "last" ELSE "frame")
  /\ handler' = IF left[s] = 1 THEN [handler EXCEPT ![s] = "ending"] ELSE handler
  /\ UNCHANGED <<clientVars, foreign, request, acquisition>>

\* The write of a frame to a client that is gone raises ConnectionResetError.
LoseClient(s) ==
  /\ handler[s] = "serving" /\ ~Connected(s)
  /\ handler' = [handler EXCEPT ![s] = "ending"]
  /\ UNCHANGED <<clientVars, foreign, request, replies, left, acquisition>>

\* The finally clause stops whatever acquisition the detector has now and gives
\* it back; with none left it fails and the client is told.
EndAcquisition(s) ==
  /\ handler[s] = "ending"
  /\ IF acquisition \in {None, s}
     THEN handler' = [handler EXCEPT ![s] = "closed"]
     ELSE handler' = [handler EXCEPT ![s] = "closed", ![acquisition] = Killed(acquisition)]
  /\ IF acquisition = None THEN Says(s, Tag(s), "FAIL") ELSE UNCHANGED replies
  /\ acquisition' = None
  /\ request' = [request EXCEPT ![s] = None]
  /\ left' = [left EXCEPT ![s] = 0]
  /\ UNCHANGED <<clientVars, foreign>>

\* The stop of another program finds an acquisition.
ForeignStop ==
  /\ foreign < Foreign /\ acquisition # None
  /\ foreign' = foreign + 1
  /\ handler' = [handler EXCEPT ![acquisition] = Killed(acquisition)]
  /\ UNCHANGED <<clientVars, request, replies, left, acquisition>>

Serve(s) == \/ ServeCommand(s) \/ ServeTimeLeft(s) \/ ServeRunStatus(s)
            \/ ServeStart(s) \/ ServeStop(s)
ServerStep(s) == Serve(s) \/ RunAcquisition(s) \/ Produce(s) \/ LoseClient(s) \/ EndAcquisition(s)

-----------------------------------------------------------------------------
(* Properties *)

ThreadsTypeOK ==
  /\ sock \in [Objects -> Sockets \cup {None}]
  /\ reader \in [Objects -> Sockets \cup {None}]
  /\ local \in [Threads -> Sockets \cup {None}]
  /\ waits \in [Threads -> Sockets \cup {None}]
  /\ call \in [Threads -> Calls \cup {None}]
  /\ at \in [Threads -> Places]
  /\ closes \in [Threads -> 0..3]
  /\ result \in [Threads -> Results]
  /\ inside \in [Threads -> SUBSET Objects]
  /\ crossed \subseteq Objects
  /\ mixed \in BOOLEAN
  /\ request \in [Sockets -> Calls \cup {None}]
  /\ replies \in [Sockets -> Seq(Messages)]
  /\ handler \in [Sockets -> Handlers]
  /\ left \in [Sockets -> 0..Frames]
  /\ acquisition \in Sockets \cup {None}
  /\ foreign \in 0..Foreign

\* As long as the blocks of no two threads use a Connection at the same time, a
\* call on it gets the answer to its own command, and the stream of a command
\* never ends without one: deferred closes, stale readers, a second connect inside
\* a block and the closes of read() do no harm alone.  The only command that fails
\* is the exposure time left of an acquisition that has not run.
OwnAnswers ==
  crossed = {} => ~mixed /\ \A t \in Threads :
     /\ result[t] # "error"
     /\ at[t] = "reading" /\ call[t].command # "FRAME"
           => replies[waits[t]] # <<>> \/ handler[waits[t]] # "closed"
     /\ result[t] \in {"FAIL", "ConnectionError"} /\ call[t] # None
           => call[t].command \in {"FRAME", "TIME_LEFT"}
=============================================================================
