----------------------------- MODULE Transports ------------------------------
(***************************************************************************)
(* The transports that carry commands and platform signals to the device   *)
(* (src/src/server): the simulator's two TCP ports, the two channels of a  *)
(* virtual machine monitor, and the named pipe.  One loop per listener     *)
(* accepts connections, a thread serves each, and a request to stop sets a *)
(* flag and wakes every loop with a throwaway connection.                  *)
(*                                                                         *)
(* A request is the sequence of steps its arm of the code takes, so the    *)
(* steps of two connections interleave.  A client that stalls keeps its    *)
(* thread for ever: nothing here assumes that a client ever does anything. *)
(***************************************************************************)
EXTENDS Integers, FiniteSets, Sequences, SequencesExt

CONSTANTS
  Conns,        \* clients, each of which connects once
  Limit,        \* MAX_CONNECTIONS
  Backlog,      \* bound: connections the system holds for a listener
  MaxRequests   \* bound: requests that are sent

\* The throwaway connection, which is nobody's.
Wake == "wake"

ASSUME TransportsAssumption ==
  /\ IsFiniteSet(Conns) /\ Wake \notin Conns
  /\ Limit \in Nat \ {0} /\ Backlog \in Nat \ {0} /\ MaxRequests \in Nat

Interfaces == {"socket", "qemu", "pipe"}

\* The command or data port, and the platform or control port after it.
Ports == <<"command", "platform">>
Listeners == Range(Ports)

\* Localities that can be asked for: one past MAX_LOCALITY is refused.
MaxLocality == 1
Localities == 0 .. MaxLocality

VARIABLES
  interface,   \* the transport of the command line
  flag,        \* Shutdown.flag
  queue,       \* connections a listener has not accepted yet
  loop,        \* where each accept loop is, and the connection it holds
  active,      \* the connections that are counted
  thread,      \* where each connection is, and what its request has left to do
  locality,    \* Link.locality
  stopped,     \* the process has ended
  requests,    \* requests sent so far
  window,      \* history: localities in force since each command that is under way was sent
  misplaced    \* history: commands run at a locality that was never in force

vars == <<interface, flag, queue, loop, active, thread, locality, stopped,
          requests, window, misplaced>>

\* The pipe has no platform port.
Listening(i) == IF i = "pipe" THEN {"command"} ELSE Listeners

Thread(pc) == [pc |-> pc, port |-> "command", todo |-> <<>>, at |-> 0]

\* serve: the listeners are bound and registered before a loop starts.
Init ==
  /\ interface \in Interfaces
  /\ flag = FALSE
  /\ queue = [l \in Listeners |-> <<>>]
  /\ loop = [l \in Listeners |-> [pc |-> IF l \in Listening(interface) THEN "accept" ELSE "done",
                                  conn |-> Wake]]
  /\ active = 0
  /\ thread = [c \in Conns |-> Thread("new")]
  /\ locality = 0
  /\ stopped = FALSE
  /\ requests = 0
  /\ window = [c \in Conns |-> {}]
  /\ misplaced = {}

-----------------------------------------------------------------------------
(* accept_loop.                                                            *)

\* The system completes a connection that the loop has not accepted yet.
Connect(c, l) ==
  /\ thread[c].pc = "new"
  /\ loop[l].pc # "done"
  /\ Len(queue[l]) < Backlog
  /\ queue' = [queue EXCEPT ![l] = Append(@, c)]
  /\ thread' = [thread EXCEPT ![c] = [Thread("queued") EXCEPT !.port = l]]
  /\ UNCHANGED <<interface, flag, loop, active, locality, stopped, requests,
                 window, misplaced>>

\* The loop returns and its listener is dropped with what it still holds.
Leave(l, held) ==
  /\ loop' = [loop EXCEPT ![l] = [pc |-> "done", conn |-> Wake]]
  /\ queue' = [queue EXCEPT ![l] = <<>>]
  /\ thread' = [c \in Conns |-> IF c \in Range(queue[l]) \cup held
                                THEN Thread("refused") ELSE thread[c]]

\* accept returns; the flag is looked at before anything else.
Accept(l) ==
  /\ loop[l].pc = "accept"
  /\ queue[l] # <<>>
  /\ IF flag
     THEN Leave(l, {})
     ELSE /\ queue' = [queue EXCEPT ![l] = Tail(@)]
          /\ loop' = [loop EXCEPT ![l] =
                        [pc |-> IF Head(queue[l]) = Wake THEN "accept" ELSE "reserve",
                         conn |-> Head(queue[l])]]
          /\ UNCHANGED thread
  /\ UNCHANGED <<interface, flag, active, locality, stopped, requests, window,
                 misplaced>>

\* Mutant: the slot that makes it one too many is not given back.
RoomAndOne == active <= Limit

\* fetch_add, and whether the connection is within the limit.
Room == active < Limit

\* Mutant: the loop waits for a slot instead of refusing.
ReserveWaiting(l) ==
  /\ loop[l].pc = "reserve"
  /\ Room
  /\ active' = active + 1
  /\ loop' = [loop EXCEPT ![l].pc = "spawn"]
  /\ UNCHANGED <<interface, flag, queue, thread, locality, stopped, requests,
                 window, misplaced>>

Reserve(l) ==
  /\ loop[l].pc = "reserve"
  /\ active' = active + 1
  /\ loop' = [loop EXCEPT ![l].pc = IF Room THEN "spawn" ELSE "give_back"]
  /\ UNCHANGED <<interface, flag, queue, thread, locality, stopped, requests,
                 window, misplaced>>

GiveBack(l) ==
  /\ loop[l].pc = "give_back"
  /\ active' = active - 1
  /\ thread' = [thread EXCEPT ![loop[l].conn] = Thread("refused")]
  /\ loop' = [loop EXCEPT ![l] = [pc |-> "accept", conn |-> Wake]]
  /\ UNCHANGED <<interface, flag, queue, locality, stopped, requests, window,
                 misplaced>>

\* Mutant: a thread that cannot be started keeps its slot.
SpawnKeeping(l, started) ==
  /\ loop[l].pc = "spawn"
  /\ thread' = [thread EXCEPT ![loop[l].conn].pc = IF started THEN "open" ELSE "refused"]
  /\ UNCHANGED active
  /\ loop' = [loop EXCEPT ![l] = [pc |-> "check", conn |-> Wake]]
  /\ UNCHANGED <<interface, flag, queue, locality, stopped, requests, window,
                 misplaced>>

Spawn(l, started) ==
  /\ loop[l].pc = "spawn"
  /\ thread' = [thread EXCEPT ![loop[l].conn].pc = IF started THEN "open" ELSE "refused"]
  /\ active' = IF started THEN active ELSE active - 1
  /\ loop' = [loop EXCEPT ![l] = [pc |-> "check", conn |-> Wake]]
  /\ UNCHANGED <<interface, flag, queue, locality, stopped, requests, window,
                 misplaced>>

\* The flag is looked at again before the next accept.
Check(l) ==
  /\ loop[l].pc = "check"
  /\ IF flag
     THEN Leave(l, {})
     ELSE /\ loop' = [loop EXCEPT ![l].pc = "accept"]
          /\ UNCHANGED <<queue, thread>>
  /\ UNCHANGED <<interface, flag, active, locality, stopped, requests, window,
                 misplaced>>

\* serve returns when both loops have, and the process ends with every thread
\* still serving.  A pipe that cannot be created ends it too.
Exit ==
  /\ \/ \A l \in Listeners : loop[l].pc = "done"
     \/ interface = "pipe" /\ loop["command"].pc = "accept"
  /\ stopped' = TRUE
  /\ UNCHANGED <<interface, flag, queue, loop, active, thread, locality, requests,
                 window, misplaced>>

-----------------------------------------------------------------------------
(* serve_connection, serve_control and serve_data.                         *)

\* A signal is a request that is a call of the device and nothing else: power,
\* NV, physical presence, cancel, the H-CRTM sequence, the timer, INIT and STOP
\* of the control channel; a query and a buffer size are too.  A reset is two
\* calls.  An opcode that is not known closes the connection as "end" does.
Ops == {"command", "signal", "reset", "end", "stop", "shutdown"}

Requests ==
  [op : Ops, at : {0}] \cup [op : {"locality"}, at : 0 .. MaxLocality + 1]

\* Mutant: the loops are woken before the flag is set.
StopWakingFirst == <<"wake_command", "wake_platform", "flag">>

\* Shutdown::request.
RequestStop == <<"flag", "wake_command", "wake_platform">>

\* What the simulator's opcodes do.
SocketSteps(r) ==
  CASE r.op = "command" -> <<"execute", "reply">>
    [] r.op = "signal"  -> <<"device", "reply">>
    [] r.op = "reset"   -> <<"device", "device", "reply">>
    [] r.op = "stop"    -> RequestStop \o <<"reply", "close">>
    [] OTHER         -> <<"close">>

\* What the control requests do.
ControlSteps(r) ==
  CASE r.op = "signal"   -> <<"device", "reply">>
    [] r.op = "shutdown" -> <<"device", "reply">> \o RequestStop \o <<"close">>
    [] r.op = "locality" -> IF r.at <= MaxLocality THEN <<"set", "reply">> ELSE <<"reply">>
    [] OTHER          -> <<"close">>

\* Mutant: the locality is the one from before the command was read.
DataStepsEarly(r) == IF r.op = "command" THEN <<"execute", "reply", "load">> ELSE <<"close">>

\* The data channel carries commands, and a size that is no size closes it.
DataSteps(r) == IF r.op = "command" THEN <<"load", "execute", "reply">> ELSE <<"close">>

PipeSteps(r) == IF r.op = "command" THEN <<"execute", "reply">> ELSE <<"close">>

Steps(l, r) ==
  CASE interface = "socket" -> SocketSteps(r)
    [] interface = "pipe" -> PipeSteps(r)
    [] interface = "qemu" /\ l = "command" -> DataSteps(r)
    [] interface = "qemu" /\ l = "platform" -> ControlSteps(r)

\* A client sends its next request to a thread that waits for one, or closes:
\* the end of the stream is "end".  A simulator command brings its locality.
Send(c, r) ==
  /\ thread[c].pc = "open"
  /\ thread[c].todo = <<>>
  /\ r.op # "end" => requests < MaxRequests
  /\ requests' = IF r.op = "end" THEN requests ELSE requests + 1
  /\ thread' = [thread EXCEPT ![c].todo = Steps(thread[c].port, r),
                              ![c].at = IF r.op = "locality" THEN r.at ELSE @]
  /\ window' = [window EXCEPT ![c] = IF interface = "qemu" /\ r.op = "command"
                                     THEN {locality} ELSE {}]
  /\ UNCHANGED <<interface, flag, queue, loop, active, locality, stopped, misplaced>>

\* connect_timeout: a listener that is gone refuses, one whose backlog is full
\* lets the time pass, and both are ignored.
Knock(l) ==
  queue' = IF loop[l].pc # "done" /\ Len(queue[l]) < Backlog
           THEN [queue EXCEPT ![l] = Append(@, Wake)] ELSE queue

\* One step of the request a connection is in the middle of.
Step(c) ==
  LET me == thread[c]
      s  == Head(me.todo)
  IN  /\ me.pc = "open"
      /\ me.todo # <<>>
      /\ flag' = (flag \/ s = "flag")
      /\ CASE s = "wake_command"  -> Knock("command")
           [] s = "wake_platform" -> Knock("platform")
           [] OTHER               -> UNCHANGED queue
      /\ locality' = IF s = "set" THEN me.at ELSE locality
      /\ window' = CASE s = "set" -> [d \in Conns |-> IF window[d] = {} THEN {}
                                                      ELSE window[d] \cup {me.at}]
                     [] s = "execute" -> [window EXCEPT ![c] = {}]
                     [] OTHER -> window
      /\ misplaced' = IF s = "execute" /\ interface = "qemu" /\ me.at \notin window[c]
                      THEN misplaced \cup {c} ELSE misplaced
      /\ thread' = [thread EXCEPT ![c].todo = Tail(@),
                                  ![c].pc = IF s = "close" THEN "closed" ELSE @,
                                  ![c].at = CASE s = "load" -> locality
                                              [] s \in {"reply", "close"} -> 0
                                              [] OTHER -> @]
      /\ UNCHANGED <<interface, loop, active, stopped, requests>>

\* A reply that cannot be written ends the connection with an error, and with
\* it whatever its request had left to do.
ReplyFails(c) ==
  /\ thread[c].pc = "open"
  /\ thread[c].todo # <<>>
  /\ Head(thread[c].todo) = "reply"
  /\ thread' = [thread EXCEPT ![c].todo = <<"close">>]
  /\ UNCHANGED <<interface, flag, queue, loop, active, locality, stopped, requests,
                 window, misplaced>>

\* The thread ends and gives its slot back.
Release(c) ==
  /\ thread[c].pc = "closed"
  /\ active' = active - 1
  /\ thread' = [thread EXCEPT ![c] = Thread("gone")]
  /\ UNCHANGED <<interface, flag, queue, loop, locality, stopped, requests, window,
                 misplaced>>

-----------------------------------------------------------------------------
LoopStep(l) ==
  \/ Accept(l) \/ Reserve(l) \/ GiveBack(l) \/ Check(l)
  \/ \E started \in BOOLEAN : Spawn(l, started)

ThreadStep(c) == Step(c) \/ ReplyFails(c) \/ Release(c)

Next ==
  /\ ~stopped
  /\ \/ \E l \in Listeners : LoopStep(l)
     \/ \E c \in Conns :
          \/ \E l \in Listeners : Connect(c, l)
          \/ \E r \in Requests : Send(c, r)
          \/ ThreadStep(c)
     \/ Exit

\* A thread that can run does: the loops, the threads in the middle of a
\* request, and the end of serve once the loops are done.
Fairness ==
  /\ \A l \in Listeners : WF_vars(~stopped /\ LoopStep(l))
  /\ \A c \in Conns : WF_vars(~stopped /\ ThreadStep(c))
  /\ WF_vars(~stopped /\ Exit)

Spec == Init /\ [][Next]_vars /\ Fairness

-----------------------------------------------------------------------------
(* Correctness.                                                            *)

Serving == {c \in Conns : thread[c].pc \in {"open", "closed"}}

\* "The count is capped and further connections are closed immediately"
\* (socket.rs:21-22): two loops that count and two that give back at once
\* never let more than MAX_CONNECTIONS threads serve.
ServedWithinLimit == Cardinality(Serving) <= Limit

\* No slot is lost or given back twice, whatever ends a connection: the count
\* is the threads that serve and the loops that hold one.
NoSlotLost ==
  active = Cardinality(Serving)
           + Cardinality({l \in Listeners : loop[l].pc \in {"spawn", "give_back"}})

\* A command on the data channel runs at a locality that was in force at some
\* time between the client sending it and the TPM running it, so one sent
\* after a SET_LOCALITY was acknowledged runs there.
LocalityInForce == misplaced = {}

\* Once the flag is set the process ends: no loop stays blocked in accept, as
\* the comment on Shutdown explains (socket.rs:28-32), whichever threads the
\* loops and the request run on and however full the backlogs are.
FlagStops == flag ~> stopped

\* A connection the system has taken is served or refused, or the process
\* ends, however many clients stall with the slots they hold.
NobodyWaitsForEver ==
  \A c \in Conns : thread[c].pc = "queued" ~> (thread[c].pc # "queued" \/ stopped)

=============================================================================
