---------------------------- MODULE MqttStreams ----------------------------
(***************************************************************************)
(* The remote camera and display streams of UnifiedMqttService             *)
(* (main/phone_os/unified_mqtt_service.cc): commands of the cloud that its  *)
(* one worker handles, leases that lost connections, voice, the user and    *)
(* the peers themselves revoke, and the cleanup that joins a revoked peer.  *)
(* stream_operation_mutex_ is op; every step that takes mqtt_mutex_ is one   *)
(* action; native Start, Stop and the peers' callbacks run between them.     *)
(* The peers (webrtc_camera_service.cc, webrtc_display_service.cc) are taken *)
(* as their Start, Stop and terminal callback.                              *)
(***************************************************************************)
EXTENDS Naturals, Sequences, FiniteSets

CONSTANTS
    Scenarios,      \* [requests, breaks, calls]: the commands of the cloud, as records
                    \* [no, op, kind, session, start]; how many connections are lost; how
                    \* many StopWebRtcXStream and Stop calls come from other tasks
    MaxStreams      \* leases ever issued (next_stream_instance_nonce_)

Order == <<"camera", "display">>
Kinds == {Order[i] : i \in DOMAIN Order}

\* A command names its stream, and an exact stop the command that started it.
Requests == [no : Nat \ {0}, op : {"start", "stop", "signal"}, kind : Kinds, session : Nat,
             start : Nat]

ASSUME StreamsAssumption ==
    /\ Scenarios \subseteq [requests : SUBSET Requests, breaks : Nat, calls : Nat]
    /\ MaxStreams \in Nat

VARIABLES
    conn,           \* [started, up, epoch]: started_, connected_, connection_epoch_
    leases,         \* every StreamLease ever made; its nonce is its index
    held,           \* per kind [lease, closed, latest]: nonces, 0 for none
    pending,        \* stream_cleanup_pending_
    peer,           \* per kind: the native instance and where its task is
    op,             \* stream_operation_mutex_: its owner and the cleanup it runs
    handler,        \* the MQTT worker in HandleCommand
    caller,         \* a task in StopWebRtcCameraStream, ...DisplayStream or Stop
    ledger,         \* what command_ledger_ remembers of each command number
    scenario        \* the scenario, and what remains of its breaks and calls

streamVars == <<conn, leases, held, pending, peer, op, handler, caller, ledger, scenario>>

NoPeer == [n |-> 0, pc |-> "none"]
NoReq  == [no |-> 0, op |-> "none", kind |-> "camera", session |-> 0, start |-> 0]
Free   == [owner |-> "free", pc |-> "none", i |-> 1, snap |-> 0]
Idle   == [pc |-> "idle", req |-> NoReq, epoch |-> 0, lease |-> 0, ok |-> FALSE]
Unknown == [no \in {r.no : r \in scenario.requests} |->
                [known |-> FALSE, ok |-> FALSE, epoch |-> 0, nonce |-> 0]]
NoCall == [pc |-> "idle", what |-> "none"]

SpendScenario(what) == scenario[what] > 0 /\ scenario' = [scenario EXCEPT ![what] = @ - 1]

(***************************************************************************)
(* Admission: the connection of a command, the lease of a stream.           *)
(***************************************************************************)
Connected == conn.started /\ conn.up
IsCommandContextCurrent == Connected /\ conn.epoch = handler.epoch

IsStreamPublicationCurrent(n) ==
    /\ Connected /\ leases[n].epoch = conn.epoch
    /\ leases[n].active /\ held[leases[n].kind].lease = n

\* The stream that was last closed by a completed join, on this connection.
FindClosedStream(kind, session, start) ==
    LET n == held[kind].closed
    IN  IF /\ Connected /\ n # 0 /\ held[kind].lease = 0
           /\ leases[n].accepted /\ ~leases[n].active
           /\ start # 0 /\ leases[n].session = session /\ leases[n].no = start
           /\ leases[n].epoch = conn.epoch /\ n = held[kind].latest
        THEN n ELSE 0

Revoked(ns) == [n \in DOMAIN leases |-> IF n \in ns THEN [leases[n] EXCEPT !.active = FALSE]
                                         ELSE leases[n]]
HeldLeases == {held[k].lease : k \in Kinds} \ {0}

\* AdvanceConnectionEpochLocked: every connection change ends what it carried.
AdvanceConnectionEpoch ==
    /\ leases' = Revoked(HeldLeases)
    /\ held' = [k \in Kinds |-> [held[k] EXCEPT !.closed = 0]]
    /\ pending' = (HeldLeases # {})

(***************************************************************************)
(* CleanupRevokedStreamsLocked, run by the owner of op: per kind the revoked *)
(* lease is read, its peer stopped and joined outside the lock, and the      *)
(* completed join recorded.                                                 *)
(***************************************************************************)
Kind == Order[op.i]
OpAt(pc) == op.pc = pc
Clean(owner) == op' = [owner |-> owner, pc |-> "snap", i |-> 1, snap |-> 0]

CleanSnap ==
    /\ OpAt("snap")
    /\ op' = IF op.i > Len(Order) THEN [op EXCEPT !.pc = "recompute"]
             ELSE LET n == held[Kind].lease
                  IN  IF n # 0 /\ ~leases[n].active THEN [op EXCEPT !.pc = "stop", !.snap = n]
                      ELSE [op EXCEPT !.i = @ + 1]
    /\ UNCHANGED <<conn, leases, held, pending, peer, handler, caller, ledger, scenario>>

\* Native Stop: the peer is asked to end, and joined once its callback has returned.
CleanJoin ==
    /\ OpAt("stop") /\ peer[Kind].pc \in {"none", "ended"}
    /\ peer' = [peer EXCEPT ![Kind] = NoPeer]
    /\ op' = [op EXCEPT !.pc = "record"]
    /\ UNCHANGED <<conn, leases, held, pending, handler, caller, ledger, scenario>>

CleanRecord ==
    /\ OpAt("record")
    /\ LET n == op.snap
           closes == leases[n].accepted /\ Connected /\ leases[n].epoch = conn.epoch
                     /\ n = held[Kind].latest
       IN  held' = IF held[Kind].lease # n THEN held
                   ELSE [held EXCEPT ![Kind].lease = 0,
                                     ![Kind].closed = IF closes THEN n ELSE @]
    /\ op' = [op EXCEPT !.pc = "snap", !.i = @ + 1]
    /\ UNCHANGED <<conn, leases, pending, peer, handler, caller, ledger, scenario>>

\* Bug: the cleanup reports that nothing is left without looking again.
CleanRecomputeClears ==
    /\ OpAt("recompute")
    /\ pending' = FALSE
    /\ op' = [op EXCEPT !.pc = "done"]
    /\ UNCHANGED <<conn, leases, held, peer, handler, caller, ledger, scenario>>

CleanRecompute ==
    /\ OpAt("recompute")
    /\ pending' = (\E n \in HeldLeases : ~leases[n].active)
    /\ op' = [op EXCEPT !.pc = "done"]
    /\ UNCHANGED <<conn, leases, held, peer, handler, caller, ledger, scenario>>

Cleaned(owner) == op.owner = owner /\ OpAt("done")

(***************************************************************************)
(* A peer's task ends on its own or because Stop asked it to: the terminal   *)
(* callback revokes the lease, then reports it under the lock.               *)
(***************************************************************************)
PeerEnds(k) ==
    /\ peer[k].pc = "running"
    /\ peer' = [peer EXCEPT ![k].pc = "revoking"]
    /\ leases' = Revoked({peer[k].n})
    /\ UNCHANGED <<conn, held, pending, op, handler, caller, ledger, scenario>>

RevokeStreamLease(k) ==
    /\ peer[k].pc = "revoking"
    /\ peer' = [peer EXCEPT ![k].pc = "ended"]
    /\ pending' = (pending \/ peer[k].n \in HeldLeases)
    /\ UNCHANGED <<conn, leases, held, op, handler, caller, ledger, scenario>>

(***************************************************************************)
(* The worker: CleanupRevokedStreams in its loop, and HandleCommand.        *)
(***************************************************************************)
WorkerAt(pc) == handler.pc = pc
WorkerTo(pc) == handler' = [handler EXCEPT !.pc = pc]

LoopCleanup ==
    /\ WorkerAt("idle") /\ conn.started /\ pending /\ op.owner = "free"
    /\ WorkerTo("loop") /\ Clean("worker")
    /\ UNCHANGED <<conn, leases, held, pending, peer, caller, ledger, scenario>>

LoopCleaned ==
    /\ WorkerAt("loop") /\ Cleaned("worker")
    /\ handler' = Idle /\ op' = Free
    /\ UNCHANGED <<conn, leases, held, pending, peer, caller, ledger, scenario>>

\* A message of the current connection is taken from the queue; the cloud may
\* deliver any command again.
Deliver(r) ==
    /\ WorkerAt("idle") /\ Connected
    /\ r.op = "start" => Len(leases) < MaxStreams \/ ledger[r.no].known
    /\ handler' = [Idle EXCEPT !.pc = "lock", !.req = r, !.epoch = conn.epoch]
    /\ UNCHANGED <<conn, leases, held, pending, peer, op, caller, ledger, scenario>>

Lock ==
    /\ WorkerAt("lock") /\ op.owner = "free"
    /\ WorkerTo("begin") /\ Clean("worker")
    /\ UNCHANGED <<conn, leases, held, pending, peer, caller, ledger, scenario>>

\* Bug: a remembered success of an exact stop is repeated as it is.
ReplayedAsRemembered(r) == ledger[r.no].ok

\* A remembered success of an exact stop is repeated only while it still describes
\* the stream that was closed last, on this connection.
Replayed(r) ==
    LET closed == FindClosedStream(r.kind, r.session, r.start)
        entry  == ledger[r.no]
    IN  /\ entry.ok
        /\ r.op = "stop" /\ r.start # 0 =>
              /\ IsCommandContextCurrent /\ closed # 0
              /\ entry.epoch = handler.epoch /\ entry.nonce = closed

CommandBegin ==
    /\ WorkerAt("begin") /\ Cleaned("worker")
    /\ LET r == handler.req
       IN  IF ~IsCommandContextCurrent
           THEN handler' = Idle /\ op' = Free
           ELSE IF ledger[r.no].known
           THEN /\ handler' = [handler EXCEPT !.pc = "answer", !.ok = Replayed(r),
                                            !.lease = ledger[r.no].nonce]
                /\ UNCHANGED op
           ELSE WorkerTo(r.op) /\ UNCHANGED op
    /\ UNCHANGED <<conn, leases, held, pending, peer, caller, ledger, scenario>>

Failed == handler' = [handler EXCEPT !.pc = "end", !.ok = FALSE]

StreamStart ==
    /\ WorkerAt("start")
    /\ LET r == handler.req
           n == Len(leases) + 1
       IN  IF ~IsCommandContextCurrent \/ HeldLeases # {}
           THEN Failed /\ UNCHANGED <<leases, held>>
           ELSE /\ leases' = Append(leases, [kind |-> r.kind, session |-> r.session,
                                             no |-> r.no, epoch |-> handler.epoch,
                                             active |-> TRUE, accepted |-> FALSE])
                /\ held' = [held EXCEPT ![r.kind] = [lease |-> n, closed |-> 0, latest |-> n]]
                /\ handler' = [handler EXCEPT !.pc = "native", !.lease = n]
    /\ UNCHANGED <<conn, pending, peer, op, caller, ledger, scenario>>

\* Native Start, which fails while another instance runs; afterwards the peer's
\* callbacks run beside the command that started it.
NativeStart(started) ==
    /\ WorkerAt("native")
    /\ LET k == handler.req.kind
       IN  /\ started => peer[k].pc = "none"
           /\ peer' = IF started
                      THEN [peer EXCEPT ![k] = [n |-> handler.lease, pc |-> "running"]]
                      ELSE peer
    /\ handler' = [handler EXCEPT !.pc = "commit", !.ok = started]
    /\ UNCHANGED <<conn, leases, held, pending, op, caller, ledger, scenario>>

\* The lease may have been revoked while the peer was starting.
StartCommit ==
    /\ WorkerAt("commit")
    /\ LET n == handler.lease
           ok == handler.ok /\ IsStreamPublicationCurrent(n)
       IN  /\ leases' = IF ok THEN [leases EXCEPT ![n].accepted = TRUE] ELSE Revoked({n})
           /\ pending' = (pending \/ ~ok)
           /\ handler' = [handler EXCEPT !.pc = "end", !.ok = ok]
    /\ UNCHANGED <<conn, held, peer, op, caller, ledger, scenario>>

StreamStop ==
    /\ WorkerAt("stop")
    /\ LET r == handler.req
           n == held[r.kind].lease
           closed == FindClosedStream(r.kind, r.session, r.start)
           mine == /\ n # 0 /\ leases[n].session = r.session
                   /\ r.start # 0 => leases[n].no = r.start
                   /\ IsStreamPublicationCurrent(n)
       IN  IF IsCommandContextCurrent /\ mine
           THEN /\ leases' = Revoked({n}) /\ pending' = TRUE
                /\ handler' = [handler EXCEPT !.pc = "verify", !.lease = n]
                /\ Clean("worker")
           ELSE IF IsCommandContextCurrent /\ r.start # 0 /\ closed # 0
           THEN /\ handler' = [handler EXCEPT !.pc = "end", !.ok = TRUE, !.lease = closed]
                /\ UNCHANGED <<leases, pending, op>>
           ELSE Failed /\ UNCHANGED <<leases, pending, op>>
    /\ UNCHANGED <<conn, held, peer, caller, ledger, scenario>>

\* Only the completed join of this very stream makes the stop a success.
StopVerify ==
    /\ WorkerAt("verify") /\ Cleaned("worker")
    /\ LET n == handler.lease
           closed == FindClosedStream(handler.req.kind, handler.req.session, leases[n].no)
       IN  handler' = [handler EXCEPT !.pc = "end", !.ok = IsCommandContextCurrent /\ closed = n]
    /\ UNCHANGED <<conn, leases, held, pending, peer, op, caller, ledger, scenario>>

\* A signal for the peer goes to the instance of a session that is current.
StreamSignal ==
    /\ WorkerAt("signal")
    /\ LET n == held[handler.req.kind].lease
       IN  handler' = [handler EXCEPT !.pc = "end", !.lease = n,
                !.ok = /\ IsCommandContextCurrent /\ n # 0
                       /\ leases[n].session = handler.req.session
                       /\ IsStreamPublicationCurrent(n)
                       /\ peer[handler.req.kind].pc = "running"]
    /\ UNCHANGED <<conn, leases, held, pending, peer, op, caller, ledger, scenario>>

CommandEnd ==
    /\ WorkerAt("end")
    /\ WorkerTo("complete") /\ Clean("worker")
    /\ UNCHANGED <<conn, leases, held, pending, peer, caller, ledger, scenario>>

\* The operation is over, its lock released, and its result remembered.
CommandComplete ==
    /\ WorkerAt("complete") /\ Cleaned("worker")
    /\ LET exact == handler.ok /\ handler.req.op = "stop" /\ handler.req.start # 0
       IN  ledger' = [ledger EXCEPT ![handler.req.no] =
                [known |-> TRUE, ok |-> handler.ok,
                 epoch |-> IF exact THEN handler.epoch ELSE 0,
                 nonce |-> IF exact THEN handler.lease ELSE 0]]
    /\ WorkerTo("answer")
    /\ UNCHANGED <<conn, leases, held, pending, peer, op, caller, scenario>>

CommandAnswer ==
    /\ WorkerAt("answer")
    /\ handler' = Idle /\ op' = Free
    /\ UNCHANGED <<conn, leases, held, pending, peer, caller, ledger, scenario>>

(***************************************************************************)
(* Connections, and calls from other tasks.                                 *)
(***************************************************************************)
ConnectionUp ==
    /\ conn.started /\ ~conn.up
    /\ conn' = [conn EXCEPT !.up = TRUE, !.epoch = @ + 1]
    /\ AdvanceConnectionEpoch
    /\ UNCHANGED <<peer, op, handler, caller, ledger, scenario>>

ConnectionLost ==
    /\ Connected /\ SpendScenario("breaks")
    /\ conn' = [conn EXCEPT !.up = FALSE, !.epoch = @ + 1]
    /\ AdvanceConnectionEpoch
    /\ UNCHANGED <<peer, op, handler, caller, ledger>>

\* StopWebRtcCameraStream (voice, unbinding) and StopWebRtcDisplayStream.
CallStopStream(k) ==
    /\ caller.pc = "idle" /\ SpendScenario("calls")
    /\ leases' = Revoked({held[k].lease})
    /\ pending' = (pending \/ held[k].lease # 0)
    /\ caller' = [pc |-> "lock", what |-> k]
    /\ UNCHANGED <<conn, held, peer, op, handler, ledger>>

\* Bug: the stop does not wait for a command that is under way.
CallLockUnheld ==
    /\ caller.pc = "lock" /\ (op.owner = "free" \/ WorkerAt("native"))
    /\ leases' = IF caller.what \in Kinds THEN Revoked({held[caller.what].lease}) ELSE leases
    /\ caller' = [caller EXCEPT !.pc = "clean"] /\ Clean("caller")
    /\ UNCHANGED <<conn, held, pending, peer, handler, ledger, scenario>>

\* Under the operation lock the stream that is current by then is revoked.
CallLock ==
    /\ caller.pc = "lock" /\ op.owner = "free"
    /\ leases' = IF caller.what \in Kinds THEN Revoked({held[caller.what].lease}) ELSE leases
    /\ caller' = [caller EXCEPT !.pc = "clean"] /\ Clean("caller")
    /\ UNCHANGED <<conn, held, pending, peer, handler, ledger, scenario>>

CallCleaned ==
    /\ caller.pc = "clean" /\ Cleaned("caller")
    /\ caller' = IF caller.what = "service" THEN [caller EXCEPT !.pc = "join"] ELSE NoCall
    /\ op' = Free
    /\ UNCHANGED <<conn, leases, held, pending, peer, handler, ledger, scenario>>

\* Stop detaches the client, cleans up if there is something to, and joins the worker.
CallStop ==
    /\ caller.pc = "idle" /\ conn.started /\ SpendScenario("calls")
    /\ conn' = [started |-> FALSE, up |-> FALSE, epoch |-> conn.epoch + 1]
    /\ AdvanceConnectionEpoch
    /\ caller' = [pc |-> IF HeldLeases # {} THEN "lock" ELSE "join", what |-> "service"]
    /\ UNCHANGED <<peer, op, handler, ledger>>

\* The service is started again, for the same authority or for another one, for
\* which nothing is remembered.
Restart(same) ==
    /\ caller.pc = "join" /\ WorkerAt("idle")
    /\ caller' = NoCall
    /\ conn' = [conn EXCEPT !.started = TRUE]
    /\ ledger' = IF same THEN ledger
                 ELSE Unknown
    /\ UNCHANGED <<leases, held, pending, peer, op, handler, scenario>>

StreamsInit ==
    /\ conn = [started |-> TRUE, up |-> TRUE, epoch |-> 1]
    /\ leases = <<>>
    /\ held = [k \in Kinds |-> [lease |-> 0, closed |-> 0, latest |-> 0]]
    /\ pending = FALSE /\ peer = [k \in Kinds |-> NoPeer]
    /\ op = Free /\ handler = Idle /\ caller = NoCall
    /\ scenario \in Scenarios /\ ledger = Unknown

CleanStep == CleanSnap \/ CleanJoin \/ CleanRecord \/ CleanRecompute
CommandStep ==
    \/ LoopCleanup \/ LoopCleaned \/ Lock \/ CommandBegin \/ StreamStart
    \/ \E started \in BOOLEAN : NativeStart(started)
    \/ StartCommit \/ StreamStop \/ StopVerify \/ StreamSignal \/ CommandEnd
    \/ CommandComplete \/ CommandAnswer
CallStep == CallLock \/ CallCleaned \/ \E same \in BOOLEAN : Restart(same)
PeerStops(k) == OpAt("stop") /\ Kind = k /\ PeerEnds(k)

StreamsNext ==
    \/ CleanStep \/ CommandStep \/ CallStep
    \/ \E r \in scenario.requests : Deliver(r)
    \/ \E k \in Kinds : PeerEnds(k) \/ RevokeStreamLease(k) \/ CallStopStream(k)
    \/ ConnectionUp \/ ConnectionLost \/ CallStop

\* The worker, a caller, a cleanup and a peer that was told to stop keep running.
StreamsFairness ==
    /\ WF_streamVars(CleanStep) /\ WF_streamVars(CommandStep) /\ WF_streamVars(CallStep)
    /\ \A k \in Kinds : WF_streamVars(PeerStops(k)) /\ WF_streamVars(RevokeStreamLease(k))

StreamsSpec == StreamsInit /\ [][StreamsNext]_streamVars /\ StreamsFairness

StreamsTypeOK ==
    /\ conn \in [started : BOOLEAN, up : BOOLEAN, epoch : Nat]
    /\ held \in [Kinds -> [lease : 0..Len(leases), closed : 0..Len(leases),
                          latest : 0..Len(leases)]]
    /\ pending \in BOOLEAN /\ Len(leases) <= MaxStreams
    /\ \A k \in Kinds : peer[k].n \in 0..Len(leases)
                        /\ peer[k].pc \in {"none", "running", "revoking", "ended"}
    /\ op.owner \in {"free", "worker", "caller"}

\* A cleanup that stops a peer stops the instance whose lease it read, although it
\* reads the lease and stops the peer in separate steps (CleanupRevokedStreamsLocked).
NoForeignStop ==
    OpAt("stop") \/ OpAt("record") => peer[Kind].n \in {0, op.snap}

\* An exact stop is answered with success, at first or as a replay, only when that
\* very start was accepted, its peer was joined and nothing was started since
\* (HandleCommand: only the completed native join is evidence).
StopMeansJoined ==
    WorkerAt("answer") /\ handler.ok /\ handler.req.op = "stop" /\ handler.req.start # 0 =>
        LET k == handler.req.kind
            n == handler.lease
        IN  /\ n # 0 /\ leases[n].accepted /\ leases[n].no = handler.req.start
            /\ n = held[k].latest /\ held[k].lease = 0 /\ peer[k] = NoPeer

\* Whoever revoked a stream, its lease is given up and its peer joined
\* (stream_cleanup_pending_).
RevokedIsReclaimed ==
    \A n \in 1..MaxStreams :
        (n \in DOMAIN leases /\ ~leases[n].active)
            ~> (n \notin HeldLeases /\ \A k \in Kinds : peer[k].n # n)
=============================================================================
