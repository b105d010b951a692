------------------------------- MODULE MCCloud -------------------------------
(***************************************************************************)
(* Three parts of UnifiedMqttService that share no state, side by side: the *)
(* connection (MqttClient), the streams and the commands that start and     *)
(* stop them (MqttStreams) and the command ledger (CommandLedger).  A       *)
(* behaviour belongs to one part, chosen at the start.                      *)
(***************************************************************************)
EXTENDS CommandLedger, MqttClient, MqttStreams

VARIABLE part

Budgeted(n, m, r, d, v, u, f) ==
    [networks |-> n, moves |-> m, rotations |-> r, drops |-> d, voice |-> v,
     unbinds |-> u, faults |-> f]
Rarely ==
    {Budgeted(1, 1, 1, 0, 0, 0, 1), Budgeted(1, 1, 0, 0, 1, 1, 0),
     Budgeted(1, 1, 1, 0, 1, 0, 0), Budgeted(2, 1, 0, 0, 0, 0, 1),
     Budgeted(1, 0, 0, 0, 0, 1, 1), Budgeted(0, 1, 1, 1, 0, 0, 1)}

Request(no, what, kind, session, start) ==
    [no |-> no, op |-> what, kind |-> kind, session |-> session, start |-> start]
Camera1 == Request(1, "start", "camera", 1, 0)
Camera2 == Request(2, "start", "camera", 1, 0)
Exact   == Request(3, "stop", "camera", 1, 1)
Display == Request(4, "start", "display", 1, 0)
Plain   == Request(5, "stop", "display", 1, 0)
Signal  == Request(6, "signal", "camera", 1, 0)
Commanded(requests, breaks, calls) ==
    [requests |-> requests, breaks |-> breaks, calls |-> calls]
Sessions ==
    {Commanded({Camera1, Camera2, Exact}, 1, 0), Commanded({Camera1, Exact}, 1, 1),
     Commanded({Camera1, Display, Plain}, 0, 1), Commanded({Camera1, Signal}, 1, 0),
     Commanded({Camera1, Camera2, Exact}, 0, 1)}

all == <<part, ledgerVars, connectionVars, streamVars>>

CloudInit ==
    /\ part \in {"connection", "streams", "ledger"}
    /\ LedgerInit /\ ConnectionInit /\ StreamsInit
    /\ part # "connection" => left = Budgeted(1, 0, 0, 0, 0, 1, 1)
    /\ part # "streams" => scenario = Commanded({Camera1, Signal}, 1, 0)

LedgerRuns ==
    /\ part = "ledger" /\ LedgerNext
    /\ UNCHANGED <<part, connectionVars, streamVars>>
ConnectionRuns ==
    /\ part = "connection" /\ ConnectionNext
    /\ UNCHANGED <<part, ledgerVars, streamVars>>
StreamsRun ==
    /\ part = "streams" /\ StreamsNext
    /\ UNCHANGED <<part, ledgerVars, connectionVars>>
CloudNext == LedgerRuns \/ ConnectionRuns \/ StreamsRun

\* The fairness of the modules, for the part that runs.
Connecting == part = "connection"
Streaming  == part = "streams"
CloudFairness ==
    /\ WF_connectionVars(Connecting /\ WorkerStep)
    /\ WF_connectionVars(Connecting /\ StopStep)
    /\ WF_connectionVars(Connecting /\ MqttConnected)
    /\ WF_connectionVars(Connecting /\ TransportFailures)
    /\ WF_connectionVars(Connecting /\ ScheduleCredentialRefresh)
    /\ WF_connectionVars(Connecting /\ MqttDisconnected /\ client.addr # server)
    /\ WF_connectionVars(Connecting /\ VoiceEnds)
    /\ WF_connectionVars(Connecting /\ RetryDelayPasses)
    /\ WF_connectionVars(Connecting /\ CooldownPasses)
    /\ WF_streamVars(Streaming /\ CleanStep) /\ WF_streamVars(Streaming /\ CommandStep)
    /\ WF_streamVars(Streaming /\ CallStep)
    /\ \A k \in Kinds : /\ WF_streamVars(Streaming /\ PeerStops(k))
                        /\ WF_streamVars(Streaming /\ RevokeStreamLease(k))

CloudSpec == CloudInit /\ [][CloudNext]_all /\ CloudFairness

\* The types of the parts, and their liveness, for the part that runs.
CloudTypeOK        == LedgerTypeOK /\ ConnectionTypeOK /\ StreamsTypeOK
ConnectionRecovers == Connecting => Recovers
StreamsReclaim     == Streaming => RevokedIsReclaimed
=============================================================================
