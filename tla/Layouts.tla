------------------------------ MODULE Layouts ------------------------------
(***************************************************************************)
(* The classes that travel in packets: Message.cpp, Message.h and what     *)
(* they carry, rpc/MercRPC.h and the generated rpc/Application_MercRPC.h.  *)
(*                                                                         *)
(* Every class has a Serialize, a constructor that takes a packet, and a   *)
(* GetLength that sizes the packet before it is written: "writes", "reads" *)
(* and "length" translate one each.                                        *)
(***************************************************************************)
EXTENDS Naturals, Sequences

-----------------------------------------------------------------------------
(***************************************************************************)
(* Layouts: fields in the order in which they are written, or read; parts  *)
(* of a length.                                                            *)
(***************************************************************************)

F(kind, field) == [kind |-> kind, field |-> field, many |-> FALSE, counted |-> TRUE,
                   flag |-> "", is |-> TRUE]
Many(kind, field) == [F(kind, field) EXCEPT !.many = TRUE]
Bytes(n) == [F("bytes", "") EXCEPT !.field = n]
If(flag, is, fs) == [i \in DOMAIN fs |-> [fs[i] EXCEPT !.flag = flag, !.is = is]]

Struct(writes, reads, length) == [writes |-> writes, reads |-> reads, length |-> length]

\* A class that calls what it inherits first.
Extend(base, writes, reads, length) ==
    Struct(base.writes \o writes, base.reads \o reads, base.length \o length)

Width == [byte |-> 1, bool |-> 1, short |-> 2, int |-> 4, float |-> 4]

IPEndPoint == Struct(<<F("int", "ip"), F("short", "port")>>, <<F("int", "ip"), F("short", "port")>>, <<Bytes(6)>>)

GUID == Struct(<<F("int", "ip"), F("short", "port"), F("int", "oid")>>,
               <<F("int", "ip"), F("short", "port"), F("int", "oid")>>, <<Bytes(4 + 2 + 4)>>)

Constraint == Struct(<<F("int", "attr"), F("value", "min"), F("value", "max")>>,
                     <<F("int", "attr"), F("value", "min"), F("value", "max")>>,
                     <<Bytes(4), F("value", "min"), F("value", "max")>>)

PeerInfo == Struct(<<F("IPEndPoint", "addr"), F("Constraint", "range")>>,
                   <<F("IPEndPoint", "addr"), F("Constraint", "range")>>,
                   <<F("IPEndPoint", "addr"), F("Constraint", "range")>>)

Event == Struct(<<F("byte", "type"), F("int", "nonce"), F("int", "lifetime"), F("byte", "matched")>>,
                <<F("byte", "type"), F("int", "nonce"), F("int", "lifetime"), F("byte", "matched")>>,
                <<Bytes(1), Bytes(4), Bytes(4), Bytes(1)>>)

MercuryEvent == Extend(Event, <<Many("Constraint", "constraints")>>, <<Many("Constraint", "constraints")>>,
                       <<Bytes(4), Many("Constraint", "constraints")>>)

PointEvent == MercuryEvent

Interest == Struct(<<F("byte", "type"), F("IPEndPoint", "subscriber"), F("GUID", "guid"),
                     Many("Constraint", "constraints"), F("int", "lifetime"), F("int", "nonce")>>,
                   <<F("byte", "type"), F("IPEndPoint", "subscriber"), F("GUID", "guid"),
                     Many("Constraint", "constraints"), F("int", "lifetime"), F("int", "nonce")>>,
                   <<Bytes(1), F("IPEndPoint", "subscriber"), Bytes(4), F("GUID", "guid"),
                     Many("Constraint", "constraints"), Bytes(4), Bytes(4)>>)

Metric == Struct(<<F("byte", "type")>>, <<F("byte", "type")>>, <<Bytes(1)>>)
NCMetric == Extend(Metric, <<F("value", "span")>>, <<F("value", "span")>>, <<F("value", "span")>>)
LoadMetric == Extend(Metric, <<F("float", "load")>>, <<F("float", "load")>>, <<Bytes(4)>>)

Sample == Struct(<<F("IPEndPoint", "sender"), F("Constraint", "range"), F("Metric", "metric")>>,
                 <<F("IPEndPoint", "sender"), F("Constraint", "range"), F("Metric", "metric")>>,
                 <<F("IPEndPoint", "sender"), F("Constraint", "range"), F("Metric", "metric")>>)

HistElem == Struct(<<F("float", "value"), F("Constraint", "range")>>,
                   <<F("float", "value"), F("Constraint", "range")>>, <<F("Constraint", "range"), Bytes(4)>>)

Histogram == Struct(<<Many("HistElem", "buckets")>>, <<Many("HistElem", "buckets")>>,
                    <<Bytes(4), Many("HistElem", "buckets")>>)

HubInitInfo ==
    Struct(<<F("byte", "id"), F("string", "name"), F("IPEndPoint", "rep"), F("byte", "isMember"),
             F("value", "absmin"), F("value", "absmax"), F("bool", "staticjoin")>>
           \o If("staticjoin", TRUE, <<F("Constraint", "range"), Many("PeerInfo", "succs"), Many("PeerInfo", "preds")>>),
           <<F("byte", "id"), F("string", "name"), F("IPEndPoint", "rep"), F("byte", "isMember"),
             F("value", "absmin"), F("value", "absmax"), F("bool", "staticjoin")>>
           \o If("staticjoin", TRUE, <<F("Constraint", "range"), Many("PeerInfo", "succs"), Many("PeerInfo", "preds")>>),
           <<Bytes(1), F("string", "name"), F("IPEndPoint", "rep"), Bytes(1), F("value", "absmin"),
             F("value", "absmax"), Bytes(1)>>
           \o If("staticjoin", TRUE, <<F("Constraint", "range"), Bytes(4), Many("PeerInfo", "succs"), Bytes(4),
                                       Many("PeerInfo", "preds")>>))

-----------------------------------------------------------------------------
(***************************************************************************)
(* The messages.                                                           *)
(***************************************************************************)

Message == Struct(<<F("byte", "type"), F("IPEndPoint", "sender"), F("byte", "hubID"), F("short", "hopCount"), F("int", "nonce")>>,
                  <<F("byte", "type"), F("IPEndPoint", "sender"), F("byte", "hubID"), F("short", "hopCount"), F("int", "nonce")>>,
                  <<Bytes(1), F("IPEndPoint", "sender"), Bytes(1), Bytes(2 + 4)>>)

\* Types registered after the sentinel are the application's: they have no hub.
MsgApp == Struct(SelectSeq(Message.writes, LAMBDA f : f.field # "hubID"),
                 SelectSeq(Message.reads, LAMBDA f : f.field # "hubID"),
                 <<Bytes(1), F("IPEndPoint", "sender"), Bytes(2 + 4)>>)

MsgHeartBeat == Extend(Message, <<F("Constraint", "range")>>, <<F("Constraint", "range")>>, <<F("Constraint", "range")>>)
MsgLivenessPing == Extend(MsgHeartBeat, <<F("byte", "seqno"), F("byte", "peertype")>>,
                          <<F("byte", "seqno"), F("byte", "peertype")>>, <<Bytes(1), Bytes(1)>>)
MsgLivenessPong == MsgLivenessPing
MsgNotifySuccessor == MsgHeartBeat
MsgAck == MsgHeartBeat
MsgLinkBreak == Message
MsgGetPred == Message
MsgGetSuccessorList == Message
MsgBootstrapRequest == Message
MsgCB_AllJoined == Message
MsgCB_EstimateReq == Message
MsgLeaveCheckRequest == Message
MsgLeaveJoinDenial == Message

MsgJoinRequest ==
    Extend(Message, <<F("bool", "usedesired")>> \o If("usedesired", TRUE, <<F("value", "desiredmax")>>) \o <<F("bool", "lj")>>,
                    <<F("bool", "usedesired")>> \o If("usedesired", TRUE, <<F("value", "desiredmax")>>) \o <<F("bool", "lj")>>,
                    <<Bytes(1)>> \o If("usedesired", TRUE, <<F("value", "desiredmax")>>) \o <<Bytes(1)>>)

\* The length counts the error as the int it is kept in, but it is written as a byte.
MsgJoinResponse ==
    Extend(Message,
        <<F("byte", "ok")>> \o If("ok", TRUE,
            <<F("Constraint", "assigned"), F("bool", "only"), Many("PeerInfo", "sil"), F("bool", "lj"), F("float", "load")>>),
        <<F("byte", "ok")>> \o If("ok", TRUE,
            <<F("Constraint", "assigned"), F("bool", "only"), Many("PeerInfo", "sil"), F("bool", "lj"), F("float", "load")>>),
        If("ok", TRUE, <<Bytes(1), F("Constraint", "assigned"), Bytes(1), Bytes(4), Many("PeerInfo", "sil"), Bytes(1 + 4)>>)
        \o If("ok", FALSE, <<Bytes(4)>>))

MsgPred == Extend(Message, <<F("IPEndPoint", "pred"), F("Constraint", "predrange"), F("Constraint", "currange")>>,
                  <<F("IPEndPoint", "pred"), F("Constraint", "predrange"), F("Constraint", "currange")>>,
                  <<F("IPEndPoint", "pred"), F("Constraint", "predrange"), F("Constraint", "currange")>>)

MsgSuccessorList == Extend(Message, <<Many("PeerInfo", "sil")>>, <<Many("PeerInfo", "sil")>>,
                           <<Bytes(4), Many("PeerInfo", "sil")>>)

MsgBootstrapResponse == Extend(Message, <<Many("HubInitInfo", "hubInfoVec")>>, <<Many("HubInitInfo", "hubInfoVec")>>,
                               <<Bytes(4), Many("HubInitInfo", "hubInfoVec")>>)

MsgPublication == Extend(Message, <<F("IPEndPoint", "creator"), F("byte", "metadata"), F("Event", "pub")>>,
                         <<F("IPEndPoint", "creator"), F("byte", "metadata"), F("Event", "pub")>>,
                         <<F("IPEndPoint", "creator"), Bytes(1), F("Event", "pub")>>)

MsgSubscription == Extend(Message, <<F("IPEndPoint", "creator"), F("byte", "metadata"), F("Interest", "sub")>>,
                          <<F("IPEndPoint", "creator"), F("byte", "metadata"), F("Interest", "sub")>>,
                          <<F("IPEndPoint", "creator"), Bytes(1), F("Interest", "sub")>>)

MsgLinearPublication == Extend(MsgPublication, <<F("value", "stopval")>>, <<F("value", "stopval")>>, <<F("value", "stopval")>>)
MsgLinearSubscription == Extend(MsgSubscription, <<F("value", "stopval")>>, <<F("value", "stopval")>>, <<F("value", "stopval")>>)

MsgSubscriptionList == Extend(Message, <<Many("Interest", "subscriptions")>>, <<Many("Interest", "subscriptions")>>,
                              <<Bytes(4), Many("Interest", "subscriptions")>>)

MsgTriggerList == Extend(Message, <<Many("MsgPublication", "triggers")>>, <<Many("MsgPublication", "triggers")>>,
                         <<Bytes(4), Many("MsgPublication", "triggers")>>)

MsgLeaveNotification ==
    Extend(Message,
        <<F("Constraint", "assigned"), F("float", "addload"), Many("MsgPublication", "triggers"), Many("Interest", "subscriptions")>>,
        <<F("Constraint", "assigned"), F("float", "addload"), Many("MsgPublication", "triggers"), Many("Interest", "subscriptions")>>,
        <<F("Constraint", "assigned"), Bytes(4), Bytes(4), Many("MsgPublication", "triggers"), Bytes(4), Many("Interest", "subscriptions")>>)

MsgPointEstimateRequest ==
    Extend(Message, <<F("int", "handle"), F("byte", "direction"), F("byte", "ttl"), F("IPEndPoint", "creator")>>,
           <<F("int", "handle"), F("byte", "direction"), F("byte", "ttl"), F("IPEndPoint", "creator")>>,
           <<Bytes(4), Bytes(1), Bytes(1), F("IPEndPoint", "creator")>>)

MsgPointEstimateResponse ==
    Extend(Message, <<F("int", "handle"), F("byte", "distance"), F("Sample", "estimate")>>,
           <<F("int", "handle"), F("byte", "distance"), F("Sample", "estimate")>>,
           <<Bytes(4), Bytes(1), F("Sample", "estimate")>>)

MsgSampleRequest ==
    Extend(Message, <<F("int", "handle"), F("byte", "ttl"), F("IPEndPoint", "creator"), F("byte", "seqno")>>,
           <<F("int", "handle"), F("byte", "ttl"), F("IPEndPoint", "creator"), F("byte", "seqno")>>,
           <<F("IPEndPoint", "creator"), Bytes(4), Bytes(1), Bytes(1)>>)

MsgSampleResponse == Extend(Message, <<F("int", "handle"), Many("Sample", "samples")>>,
                            <<F("int", "handle"), Many("Sample", "samples")>>, <<Bytes(4), Bytes(4), Many("Sample", "samples")>>)

MsgLocalLBRequest == Extend(Message, <<F("float", "load"), F("Constraint", "range")>>,
                            <<F("float", "load"), F("Constraint", "range")>>, <<Bytes(4), F("Constraint", "range")>>)

MsgLocalLBResponse == Extend(Message, <<F("Constraint", "assigned"), F("Constraint", "range"), F("float", "newload")>>,
                             <<F("Constraint", "assigned"), F("Constraint", "range"), F("float", "newload")>>,
                             <<F("Constraint", "assigned"), F("Constraint", "range"), Bytes(4)>>)

MsgLeaveCheckResponse == Extend(Message, <<F("bool", "isok")>>, <<F("bool", "isok")>>, <<Bytes(1)>>)

MsgLeaveJoinLBRequest == Extend(Message, <<F("Constraint", "range"), F("float", "load")>>,
                                <<F("Constraint", "range"), F("float", "load")>>, <<F("Constraint", "range"), Bytes(4)>>)

MsgCB_EstimateResp == Extend(Message, <<F("Histogram", "hist")>>, <<F("Histogram", "hist")>>, <<F("Histogram", "hist")>>)

MsgNeighborRequest ==
    Extend(Message, <<F("IPEndPoint", "creator"), F("value", "val"), F("int", "epoch"), F("int", "nbrNonce")>>,
           <<F("IPEndPoint", "creator"), F("value", "val"), F("int", "epoch"), F("int", "nbrNonce")>>,
           <<F("IPEndPoint", "creator"), F("value", "val"), Bytes(4), Bytes(4)>>)

MsgNeighborResponse ==
    Extend(Message, <<F("int", "epoch"), F("int", "nbrNonce"), F("Constraint", "range")>>,
           <<F("int", "epoch"), F("int", "nbrNonce"), F("Constraint", "range")>>,
           <<Bytes(4), Bytes(4), F("Constraint", "range")>>)

MsgBlob == Extend(Message, <<F("string", "data")>>, <<F("string", "data")>>, <<F("string", "data")>>)

MsgPing == Extend(Message, <<F("int", "tv_sec"), F("int", "tv_usec"), F("int", "pingNonce")>>,
                  <<F("int", "tv_sec"), F("int", "tv_usec"), F("int", "pingNonce")>>, <<Bytes(4), Bytes(4), Bytes(4)>>)

\* It has no header of its own: sender, hop count and nonce are those of the message in it.
MsgCompressed == Struct(<<F("byte", "type"), F("int", "compLen"), F("int", "origLen"), F("buffer", "compBuf")>>,
                        <<F("byte", "type"), F("int", "compLen"), F("int", "origLen"), F("buffer", "compBuf")>>,
                        <<Bytes(1), Bytes(4), Bytes(4), F("buffer", "compBuf")>>)

-----------------------------------------------------------------------------
(***************************************************************************)
(* Calls between a node and an application in another process.  Their      *)
(* types are registered after the sentinel.                                *)
(***************************************************************************)

MercRPC == Extend(MsgApp, <<F("int", "Hubid"), F("int", "rpcNonce")>>, <<F("int", "Hubid"), F("int", "rpcNonce")>>,
                  <<Bytes(4), Bytes(4)>>)

MercRPCResult == Extend(MsgApp, <<F("int", "rpcNonce"), F("int", "ErrorCode")>>,
                        <<F("int", "rpcNonce"), F("int", "ErrorCode")>>, <<Bytes(4), Bytes(4)>>)

VoidResult == MercRPCResult
BoolResult == Extend(MercRPCResult, <<F("bool", "val")>>, <<F("bool", "val")>>, <<Bytes(1)>>)
IntResult == Extend(MercRPCResult, <<F("int", "val")>>, <<F("int", "val")>>, <<Bytes(4)>>)
FloatResult == Extend(MercRPCResult, <<F("float", "val")>>, <<F("float", "val")>>, <<Bytes(4)>>)
StringResult == Extend(MercRPCResult, <<F("string", "val")>>, <<F("string", "val")>>, <<F("string", "val")>>)

Neighbor == Struct(<<F("IPEndPoint", "addr"), F("Constraint", "range"), F("int", "rtt_millis")>>,
                   <<F("IPEndPoint", "addr"), F("Constraint", "range"), F("int", "rtt_millis")>>,
                   <<F("IPEndPoint", "addr"), F("Constraint", "range"), Bytes(4)>>)

NeighborResult == Extend(MercRPCResult, <<F("Neighbor", "val")>>, <<F("Neighbor", "val")>>, <<F("Neighbor", "val")>>)
NeighborVecResult == Extend(MercRPCResult, <<Many("Neighbor", "val")>>, <<Many("Neighbor", "val")>>,
                            <<Bytes(4), Many("Neighbor", "val")>>)
ConstraintVecResult == Extend(MercRPCResult, <<Many("Constraint", "val")>>, <<Many("Constraint", "val")>>,
                              <<Bytes(4), Many("Constraint", "val")>>)
SampleVecResult == Extend(MercRPCResult, <<Many("Sample", "val")>>, <<Many("Sample", "val")>>,
                          <<Bytes(4), Many("Sample", "val")>>)

\* There may be no object.
ObjectResult(class) ==
    Extend(MercRPCResult, <<F("bool", "some")>> \o If("some", TRUE, <<F(class, "val")>>),
           <<F("bool", "some")>> \o If("some", TRUE, <<F(class, "val")>>),
           <<Bytes(1)>> \o If("some", TRUE, <<F(class, "val")>>))

NullCalls == {"IsJoined", "AllJoined", "GetIP", "GetPort", "Start", "Stop", "ReadEvent", "GetHubConstraints", "GetHubRanges"}
HubIDCalls == {"GetSuccessors", "GetPredecessors", "GetLongNeighbors"}

SendEvent == Extend(MercRPC, <<F("Event", "val")>>, <<F("Event", "val")>>, <<F("Event", "val")>>)
RegisterInterest == Extend(MercRPC, <<F("Interest", "val")>>, <<F("Interest", "val")>>, <<F("Interest", "val")>>)

SamplerCalls == {"RegisterSampler", "RegisterLoadSampler", "GetSamples"}
SamplerCallbacks == {"SamplerGetName", "SamplerGetLocalRadius", "SamplerGetSampleLifetime",
                     "SamplerGetNumReportSamples", "SamplerGetRandomWalkInterval", "SamplerGetPointEstimate"}
AboutSampler == Extend(MercRPC, <<F("int", "samplerID")>>, <<F("int", "samplerID")>>, <<Bytes(4)>>)

\* The number of samples is read, but not written.
SamplerMakeLocalEstimate ==
    Extend(AboutSampler, <<[Many("Metric", "samples") EXCEPT !.counted = FALSE]>>,
           <<Many("Metric", "samples")>>, <<Many("Metric", "samples")>>)

\* What make_stub.pl makes of a list of fields.
Stub(base, fs) ==
    Extend(base, fs, fs, [i \in DOMAIN fs |-> IF fs[i].kind \in DOMAIN Width THEN Bytes(Width[fs[i].kind]) ELSE fs[i]])

Join == Stub(MercRPC, <<F("IPEndPoint", "succ")>>)
Leave == Stub(MercRPC, <<>>)
RangeChange == Stub(MercRPC, <<F("Constraint", "oldrange"), F("Constraint", "newrange")>>)
EventPassing == Stub(MercRPC, <<F("Event", "ev"), F("IPEndPoint", "lastHop")>>)
EventAtRendezvous == Stub(MercRPC, <<F("Event", "ev"), F("IPEndPoint", "lastHop"), F("int", "nhops")>>)
EventInterestMatch == Stub(MercRPC, <<F("Event", "ev"), F("Interest", "in"), F("IPEndPoint", "subscriber")>>)
InterestPassing == Stub(MercRPC, <<F("Interest", "in"), F("IPEndPoint", "lastHop")>>)
IsLeaveJoinOK_Result == Stub(MercRPCResult, <<F("byte", "res")>>)
Answer == Stub(MercRPCResult, <<F("int", "res")>>)

\* The results of calls that return nothing; those of calls that return an int or an enum.
VoidResults == {"JoinBegin_Result", "JoinEnd_Result", "LeaveBegin_Result", "LeaveEnd_Result",
                "RangeExpanded_Result", "RangeContracted_Result", "EventInterestMatch_Result"}
Answers == {"EventRoute_Result", "EventLinear_Result", "EventAtRendezvous_Result",
            "InterestRoute_Result", "InterestLinear_Result", "InterestAtRendezvous_Result"}

\* MercRPC_RegisterTypes, Application_RegisterTypes.
Remote ==
    NullCalls \cup HubIDCalls \cup SamplerCalls \cup SamplerCallbacks \cup VoidResults \cup Answers
    \cup {"SendEvent", "RegisterInterest", "SamplerMakeLocalEstimate",
          "VoidResult", "BoolResult", "IntResult", "FloatResult", "StringResult", "NeighborResult",
          "NeighborVecResult", "ConstraintVecResult", "SampleVecResult", "EventResult",
          "InterestResult", "MetricResult",
          "JoinBegin", "JoinEnd", "LeaveBegin", "LeaveEnd", "RangeExpanded", "RangeContracted",
          "EventRoute", "EventLinear", "EventAtRendezvous", "EventInterestMatch", "InterestRoute",
          "InterestLinear", "InterestAtRendezvous", "IsLeaveJoinOK", "IsLeaveJoinOK_Result"}

\* What is registered under each type (RegisterMessageTypes, RegisterEventTypes, ...).
Messages ==
    {"MsgHeartBeat", "MsgLivenessPing", "MsgLivenessPong", "MsgJoinRequest", "MsgJoinResponse",
     "MsgNotifySuccessor", "MsgGetPred", "MsgPred", "MsgGetSuccessorList", "MsgSuccessorList",
     "MsgNeighborRequest", "MsgNeighborResponse", "MsgLinkBreak", "MsgPublication",
     "MsgLinearPublication", "MsgAck", "MsgSubscription", "MsgLinearSubscription",
     "MsgSubscriptionList", "MsgTriggerList", "MsgBootstrapRequest", "MsgBootstrapResponse",
     "MsgSampleRequest", "MsgSampleResponse", "MsgPointEstimateRequest",
     "MsgPointEstimateResponse", "MsgLocalLBRequest", "MsgLocalLBResponse", "MsgLeaveNotification",
     "MsgLeaveJoinLBRequest", "MsgLeaveJoinDenial", "MsgLeaveCheckRequest",
     "MsgLeaveCheckResponse", "MsgCB_AllJoined", "MsgCB_EstimateReq", "MsgCB_EstimateResp",
     "MsgBlob", "MsgPing"}

\* What they carry.
Parts ==
    {"IPEndPoint", "GUID", "Constraint", "PeerInfo", "MercuryEvent", "PointEvent", "Interest",
     "NCMetric", "LoadMetric", "Sample", "HistElem", "Histogram", "HubInitInfo", "Neighbor"}

LayoutOfRemote(class) ==
    CASE class \in NullCalls \cup HubIDCalls -> MercRPC [] class \in SamplerCalls \cup SamplerCallbacks -> AboutSampler
    [] class \in VoidResults \cup {"VoidResult"} -> VoidResult [] class \in Answers -> Answer
    [] class = "SendEvent" -> SendEvent [] class = "RegisterInterest" -> RegisterInterest
    [] class = "SamplerMakeLocalEstimate" -> SamplerMakeLocalEstimate
    [] class = "BoolResult" -> BoolResult [] class = "IntResult" -> IntResult
    [] class = "FloatResult" -> FloatResult [] class = "StringResult" -> StringResult
    [] class = "NeighborResult" -> NeighborResult [] class = "NeighborVecResult" -> NeighborVecResult
    [] class = "ConstraintVecResult" -> ConstraintVecResult [] class = "SampleVecResult" -> SampleVecResult
    [] class = "EventResult" -> ObjectResult("Event") [] class = "InterestResult" -> ObjectResult("Interest")
    [] class = "MetricResult" -> ObjectResult("Metric")
    [] class \in {"JoinBegin", "JoinEnd"} -> Join
    [] class \in {"LeaveBegin", "LeaveEnd", "IsLeaveJoinOK"} -> Leave
    [] class \in {"RangeExpanded", "RangeContracted"} -> RangeChange
    [] class \in {"EventRoute", "EventLinear"} -> EventPassing
    [] class = "EventAtRendezvous" -> EventAtRendezvous
    [] class = "EventInterestMatch" -> EventInterestMatch
    [] class \in {"InterestRoute", "InterestLinear", "InterestAtRendezvous"} -> InterestPassing
    [] class = "IsLeaveJoinOK_Result" -> IsLeaveJoinOK_Result

Layout(class) ==
    CASE class = "MsgHeartBeat" -> MsgHeartBeat [] class = "MsgLivenessPing" -> MsgLivenessPing
    [] class = "MsgLivenessPong" -> MsgLivenessPong [] class = "MsgJoinRequest" -> MsgJoinRequest
    [] class = "MsgJoinResponse" -> MsgJoinResponse
    [] class = "MsgNotifySuccessor" -> MsgNotifySuccessor [] class = "MsgGetPred" -> MsgGetPred
    [] class = "MsgPred" -> MsgPred [] class = "MsgGetSuccessorList" -> MsgGetSuccessorList
    [] class = "MsgSuccessorList" -> MsgSuccessorList
    [] class = "MsgNeighborRequest" -> MsgNeighborRequest
    [] class = "MsgNeighborResponse" -> MsgNeighborResponse
    [] class = "MsgLinkBreak" -> MsgLinkBreak [] class = "MsgPublication" -> MsgPublication
    [] class = "MsgLinearPublication" -> MsgLinearPublication [] class = "MsgAck" -> MsgAck
    [] class = "MsgSubscription" -> MsgSubscription
    [] class = "MsgLinearSubscription" -> MsgLinearSubscription
    [] class = "MsgSubscriptionList" -> MsgSubscriptionList
    [] class = "MsgTriggerList" -> MsgTriggerList
    [] class = "MsgBootstrapRequest" -> MsgBootstrapRequest
    [] class = "MsgBootstrapResponse" -> MsgBootstrapResponse
    [] class = "MsgSampleRequest" -> MsgSampleRequest
    [] class = "MsgSampleResponse" -> MsgSampleResponse
    [] class = "MsgPointEstimateRequest" -> MsgPointEstimateRequest
    [] class = "MsgPointEstimateResponse" -> MsgPointEstimateResponse
    [] class = "MsgLocalLBRequest" -> MsgLocalLBRequest
    [] class = "MsgLocalLBResponse" -> MsgLocalLBResponse
    [] class = "MsgLeaveNotification" -> MsgLeaveNotification
    [] class = "MsgLeaveJoinLBRequest" -> MsgLeaveJoinLBRequest
    [] class = "MsgLeaveJoinDenial" -> MsgLeaveJoinDenial
    [] class = "MsgLeaveCheckRequest" -> MsgLeaveCheckRequest
    [] class = "MsgLeaveCheckResponse" -> MsgLeaveCheckResponse
    [] class = "MsgCB_AllJoined" -> MsgCB_AllJoined
    [] class = "MsgCB_EstimateReq" -> MsgCB_EstimateReq
    [] class = "MsgCB_EstimateResp" -> MsgCB_EstimateResp [] class = "MsgBlob" -> MsgBlob
    [] class = "MsgPing" -> MsgPing [] class = "MsgApp" -> MsgApp
    [] class = "IPEndPoint" -> IPEndPoint [] class = "GUID" -> GUID
    [] class = "Constraint" -> Constraint [] class = "PeerInfo" -> PeerInfo
    [] class = "MercuryEvent" -> MercuryEvent [] class = "PointEvent" -> PointEvent
    [] class = "Interest" -> Interest [] class = "NCMetric" -> NCMetric
    [] class = "LoadMetric" -> LoadMetric [] class = "Sample" -> Sample
    [] class = "HistElem" -> HistElem [] class = "Histogram" -> Histogram
    [] class = "HubInitInfo" -> HubInitInfo [] class = "MsgCompressed" -> MsgCompressed
    [] class = "Neighbor" -> Neighbor [] class \in Remote -> LayoutOfRemote(class)
=============================================================================
