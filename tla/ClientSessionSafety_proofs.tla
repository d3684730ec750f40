---------------------- MODULE ClientSessionSafety_proofs ----------------------
(***************************************************************************)
(* The safety properties of ClientSession: one session per client, lots    *)
(* that are the contracts' and never zero where it matters, legs that are  *)
(* fed, and events that reach the strategy that sent their order.          *)
(***************************************************************************)
EXTENDS ClientSession_proofs

-----------------------------------------------------------------------------
(* What each kind of step leaves alone.                                      *)

LEMMA PhaseSteps ==
    ASSUME Safe, [Next]_vars
    PROVE  \/ PhasesKept /\ UNCHANGED handler
           \/ \E c \in Clients : Login(c) \/ Dispose(c)
           \/ \E s \in Sessions : Disposal(s)
<1>1. ASSUME LoadSettings \/ LoadContract \/ UNCHANGED vars PROVE PhasesKept /\ UNCHANGED handler
  BY <1>1, MainSafe, Zenon DEF LoadSettings, LoadContract, vars
<1>2. ASSUME NEW c \in Clients, Requests(c)
      PROVE  (PhasesKept /\ UNCHANGED handler) \/ Login(c) \/ Dispose(c)
  <2>1. ASSUME NEW p \in Packets, HandleOnFOPairSubscription(c, p) PROVE PhasesKept /\ UNCHANGED handler
    BY <2>1, SubscriptionSafe, Zenon DEF HandleOnFOPairSubscription
  <2>2. ASSUME NEW p \in Packets, HandleOnFOPairUnSubscription(c, p.PORTFOLIONAME)
        PROVE  PhasesKept /\ UNCHANGED handler
    BY <2>2, UnSubscriptionSafe, Zenon DEF HandleOnFOPairUnSubscription
  <2>3. ASSUME NEW p \in Packets, HandleOnFOPairDiff(c, p) PROVE PhasesKept /\ UNCHANGED handler
    BY <2>3, DiffSafe, Zenon DEF HandleOnFOPairDiff
  <2>4. ASSUME NEW p \in Packets, ManualOrderEntry(c, p.TokenFar) PROVE PhasesKept /\ UNCHANGED handler
    BY <2>4, PacketTypes, ManualOrderSafe, Zenon DEF ManualOrderEntry
  <2>5. ASSUME NEW o \in DOMAIN orders, ManualOrder_Mod_CNclEntry(c, o) PROVE PhasesKept /\ UNCHANGED handler
    BY <2>5, ManualChangeSafe, Zenon DEF ManualOrder_Mod_CNclEntry
  <2> QED
    BY <1>2, <2>1, <2>2, <2>3, <2>4, <2>5, Zenon DEF Requests
<1>3. ASSUME NEW s \in Sessions, DataThread(s) \/ Eventsubscriber(s) PROVE PhasesKept /\ UNCHANGED handler
  <2>1. CASE Look(s)
    BY <2>1, LookSafe, Zenon DEF Look
  <2>2. CASE Send(s)
    BY <2>2, SendSafe, Zenon DEF Send
  <2>3. CASE CallErased(s)
    BY <2>3, CallErasedSafe, Zenon DEF CallErased
  <2>4. CASE Eventsubscriber(s)
    BY <2>4, EventSafe, Zenon DEF Eventsubscriber
  <2>5. CASE Datasubscriber(s)
    BY <2>5, DatasubscriberSafe, Zenon DEF Datasubscriber
  <2> QED
    BY <1>3, <2>1, <2>2, <2>3, <2>4, <2>5, Zenon DEF DataThread
<1>4. ASSUME NEW o \in DOMAIN orders, Exchange(o) PROVE PhasesKept /\ UNCHANGED handler
  BY <1>4, ExchangeSafe, Zenon DEF Exchange, Accept, Fill, Withdraw, Refuse, Moves
<1> QED
  BY <1>1, <1>2, <1>3, <1>4, Zenon DEF Next, Step

-----------------------------------------------------------------------------
(* One session per client.                                                   *)

\* The session ClientHandler has for a client is the only one that is not erased.
Handled ==
    /\ \A s \in Sessions : session[s].phase # "erased" => StgMap[session[s].client] = s
    /\ \A c \in Clients : StgMap[c] # 0 =>
         session[StgMap[c]].client = c /\ session[StgMap[c]].phase # "erased"

LEMMA HandledQuiet ==
    ASSUME Safe, Kept, Handled, PhasesKept, UNCHANGED handler
    PROVE  Handled'
<1>1. Sessions' = Sessions /\ StgMap' = StgMap
  BY Zenon DEF PhasesKept, handler
<1>2. \A s \in Sessions : session'[s].phase = session[s].phase /\ session'[s].client = session[s].client
  BY Zenon DEF PhasesKept, Kept, SessionKept
<1>3. \A c \in Clients : StgMap[c] # 0 => StgMap[c] \in Sessions
  BY ClientTypes, Zenon DEF Safe
<1> QED
  BY <1>1, <1>2, <1>3, Zenon DEF Handled

LEMMA HandledLogin ==
    ASSUME Safe, Handled, NEW c \in Clients, Login(c)
    PROVE  Handled'
<1>0. TypeOK
  BY Zenon DEF Safe
<1>1. CASE ~IniMap
  <2>1. UNCHANGED <<handler, session>>
    BY <1>1, Zenon DEF Login
  <2> QED
    BY <2>1, Zenon DEF Handled, handler, Sessions
<1>2. CASE IniMap
  <2>1. PICK n : n = Len(session) + 1
    OBVIOUS
  <2>2. /\ \A j \in Sessions : session'[j] = session[j]
        /\ session'[n] = NewSession(c, cimlist') /\ Len(session') = n
    BY <1>0, <1>2, <2>1, LoginStep, Zenon
  <2>3. StgMap[c] = 0 /\ StgMap' = [StgMap EXCEPT ![c] = n]
    BY <1>2, <2>1, Zenon DEF Login
  <2>4. \A k \in Clients : StgMap'[k] = IF k = c THEN n ELSE StgMap[k]
    BY <1>0, <2>3, TypeSplit, Zenon DEF HandlerTypes
  <2>5. /\ \A j \in Sessions' : j \in Sessions \/ j = n
        /\ n # 0 /\ 0 \notin Sessions
    BY <1>0, <2>1, <2>2, Lengths, SMT DEF Sessions
  <2>6. session'[n].client = c /\ session'[n].phase = "open"
    <3>1. NewSession(c, cimlist').client = c /\ NewSession(c, cimlist').phase = "open"
      BY SMT DEF NewSession
    <3> QED
      BY <2>2, <3>1, Zenon
  <2>7. "open" # "erased"
    OBVIOUS
  <2>8. \A j \in Sessions' : session'[j].phase # "erased" => StgMap'[session'[j].client] = j
    <3>1. SUFFICES ASSUME NEW j \in Sessions', session'[j].phase # "erased"
                   PROVE  StgMap'[session'[j].client] = j
      BY Zenon
    <3>2. CASE j \in Sessions
      <4>1. session'[j] = session[j] /\ session[j].client \in Clients
        BY <1>0, <2>2, <3>2, ClientTypes, Zenon
      <4>2. StgMap[session[j].client] = j
        BY <3>1, <3>2, <4>1, Zenon DEF Handled
      <4> QED
        BY <2>3, <2>4, <2>5, <3>2, <4>1, <4>2, Zenon
    <3>3. CASE j = n
      BY <2>4, <2>6, <3>3, Zenon
    <3> QED
      BY <2>5, <3>1, <3>2, <3>3, Zenon
  <2>9. \A k \in Clients : StgMap'[k] # 0 =>
          session'[StgMap'[k]].client = k /\ session'[StgMap'[k]].phase # "erased"
    <3>1. ASSUME NEW k \in Clients, k # c, StgMap[k] # 0
          PROVE  StgMap'[k] = StgMap[k] /\ session'[StgMap[k]] = session[StgMap[k]]
      BY <1>0, <2>2, <2>4, <3>1, ClientTypes, Zenon
    <3>2. ASSUME NEW k \in Clients, k = c
          PROVE  session'[StgMap'[k]].client = k /\ session'[StgMap'[k]].phase # "erased"
      BY <2>4, <2>6, <2>7, <3>2, Zenon
    <3>3. ASSUME NEW k \in Clients, k # c, StgMap'[k] # 0
          PROVE  session'[StgMap'[k]].client = k /\ session'[StgMap'[k]].phase # "erased"
      <4>1. StgMap'[k] = StgMap[k] /\ StgMap[k] # 0
        BY <2>4, <3>3, Zenon
      <4>2. session'[StgMap'[k]] = session[StgMap[k]]
        BY <3>1, <3>3, <4>1, Zenon
      <4>3. session[StgMap[k]].client = k /\ session[StgMap[k]].phase # "erased"
        BY <4>1, Zenon DEF Handled
      <4> QED
        BY <4>2, <4>3, Zenon
    <3> QED
      BY <3>2, <3>3, Zenon
  <2> QED
    BY <2>8, <2>9, Zenon DEF Handled
<1> QED
  BY <1>1, <1>2, Zenon

LEMMA HandledDispose ==
    ASSUME Safe, Handled, NEW c \in Clients, Dispose(c)
    PROVE  Handled'
<1>0. TypeOK
  BY Zenon DEF Safe
<1>1. PICK n : n = StgMap[c]
  OBVIOUS
<1>2. /\ Len(session') = Len(session)
      /\ \A j \in Sessions : session'[j] = IF j = n THEN [session[j] EXCEPT !.phase = "exiting"]
                                           ELSE session[j]
  BY <1>0, <1>1, DisposeStep, Zenon
<1>3. n \in Sessions /\ StgMap' = StgMap /\ Sessions' = Sessions
  BY <1>0, <1>1, <1>2, ClientTypes, Zenon DEF Dispose, handler, Sessions
<1>4. session[n].client = c /\ session[n].phase # "erased"
  BY <1>1, Zenon DEF Handled, Dispose
<1>5. session'[n].phase = "exiting" /\ session'[n].client = c /\ "exiting" # "erased"
  <2>1. session'[n] = [session[n] EXCEPT !.phase = "exiting"]
    BY <1>2, <1>3, Zenon
  <2>2. session[n] \in SessionRecords
    BY <1>0, <1>3, Records, Zenon
  <2>3. session'[n].phase = "exiting" /\ session'[n].client = session[n].client
    BY <2>1, <2>2, PhaseFields
  <2> QED
    BY <1>4, <2>3
<1>6. \A j \in Sessions : /\ session'[j].client = session[j].client
                          /\ session'[j].phase # "erased" <=> session[j].phase # "erased"
  <2>1. SUFFICES ASSUME NEW j \in Sessions
                 PROVE  /\ session'[j].client = session[j].client
                        /\ session'[j].phase # "erased" <=> session[j].phase # "erased"
    BY Zenon
  <2>2. CASE j = n
    BY <1>4, <1>5, <2>2, Zenon
  <2>3. CASE j # n
    BY <1>2, <2>3, Zenon
  <2> QED
    BY <2>2, <2>3, Zenon
<1>7. \A k \in Clients : StgMap[k] # 0 => StgMap[k] \in Sessions
  BY <1>0, ClientTypes, Zenon
<1> QED
  BY <1>3, <1>6, <1>7, Zenon DEF Handled

LEMMA HandledStop ==
    ASSUME Safe, Handled, NEW s \in Sessions, StopAllOrder(s)
    PROVE  Handled'
<1>0. TypeOK
  BY Zenon DEF Safe
<1>1. Len(session') = Len(session) /\ session[s].phase = "exiting"
  BY <1>0, StopAllOrderStep
<1>2. PICK T : OnlySession(s, Halted(session[s], T))
  BY <1>0, StopAllOrderStep
<1>3. StgMap' = StgMap /\ Sessions' = Sessions
  BY <1>1, Zenon DEF StopAllOrder, handler, Sessions
<1>4. session'[s].phase = "stopped" /\ session'[s].client = session[s].client
  <2>1. session'[s] = Halted(session[s], T)
    BY <1>2, Zenon DEF OnlySession
  <2> QED
    BY <1>0, <2>1, Records, StoppedFields
<1>5. "stopped" # "erased" /\ "exiting" # "erased"
  OBVIOUS
<1>6. \A j \in Sessions : /\ session'[j].client = session[j].client
                          /\ session'[j].phase # "erased" <=> session[j].phase # "erased"
  <2>1. SUFFICES ASSUME NEW j \in Sessions
                 PROVE  /\ session'[j].client = session[j].client
                        /\ session'[j].phase # "erased" <=> session[j].phase # "erased"
    BY Zenon
  <2>2. CASE j = s
    BY <1>1, <1>4, <1>5, <2>2, Zenon
  <2>3. CASE j # s
    BY <1>2, <2>3, Zenon DEF OnlySession
  <2> QED
    BY <2>2, <2>3, Zenon
<1>7. \A k \in Clients : StgMap[k] # 0 => StgMap[k] \in Sessions
  BY <1>0, ClientTypes, Zenon
<1> QED
  BY <1>3, <1>6, <1>7, Zenon DEF Handled

LEMMA HandledErase ==
    ASSUME Safe, Handled, NEW s \in Sessions, EraseAll(s)
    PROVE  Handled'
<1>0. TypeOK
  BY Zenon DEF Safe
<1>1. Len(session') = Len(session) /\ session[s].phase = "stopped"
  BY <1>0, EraseAllStep
<1>2. PICK T : OnlySession(s, Cleared(session[s], T))
  BY <1>0, EraseAllStep
<1>3. PICK c : c = session[s].client
  OBVIOUS
<1>4. c \in Clients /\ StgMap[c] = s
  <2>1. "stopped" # "erased"
    OBVIOUS
  <2> QED
    BY <1>0, <1>1, <1>3, <2>1, ClientTypes, Zenon DEF Handled
<1>5. Sessions' = Sessions /\ \A k \in Clients : StgMap'[k] = IF k = c THEN 0 ELSE StgMap[k]
  <2>1. StgMap' = [StgMap EXCEPT ![c] = 0]
    BY <1>3, Zenon DEF EraseAll
  <2> QED
    BY <1>0, <1>1, <2>1, TypeSplit, Zenon DEF HandlerTypes, Sessions
<1>6. session'[s].phase = "erased"
  <2>1. session'[s] = Cleared(session[s], T)
    BY <1>2, Zenon DEF OnlySession
  <2> QED
    BY <1>0, <2>1, Records, ErasedFields
<1>7. ASSUME NEW j \in Sessions', session'[j].phase # "erased"
      PROVE  StgMap'[session'[j].client] = j
  <2>1. j # s /\ j \in Sessions
    BY <1>5, <1>6, <1>7, Zenon
  <2>2. session'[j] = session[j]
    BY <1>2, <2>1, Zenon DEF OnlySession
  <2>3. session[j].client \in Clients /\ StgMap[session[j].client] = j
    BY <1>0, <1>7, <2>1, <2>2, ClientTypes, Zenon DEF Handled
  <2> QED
    BY <1>4, <1>5, <2>1, <2>2, <2>3, Zenon
<1>8. ASSUME NEW k \in Clients, StgMap'[k] # 0
      PROVE  session'[StgMap'[k]].client = k /\ session'[StgMap'[k]].phase # "erased"
  <2>1. k # c /\ StgMap'[k] = StgMap[k]
    BY <1>5, <1>8, Zenon
  <2>2. /\ StgMap[k] \in Sessions /\ session[StgMap[k]].client = k
        /\ session[StgMap[k]].phase # "erased"
    BY <1>0, <1>8, <2>1, ClientTypes, Zenon DEF Handled
  <2>3. session'[StgMap[k]] = session[StgMap[k]]
    BY <1>2, <1>3, <2>1, <2>2, Zenon DEF OnlySession
  <2> QED
    BY <2>1, <2>2, <2>3, Zenon
<1> QED
  BY <1>7, <1>8, Zenon DEF Handled

LEMMA HandledKept == Safe /\ Handled /\ [Next]_vars => Handled'
<1> SUFFICES ASSUME Safe, Handled, [Next]_vars PROVE Handled'
  OBVIOUS
<1>1. Kept
  BY NextSafe, Zenon
<1>2. CASE PhasesKept /\ UNCHANGED handler
  BY <1>1, <1>2, HandledQuiet, Zenon
<1>3. ASSUME NEW c \in Clients, Login(c) \/ Dispose(c) PROVE Handled'
  BY <1>3, HandledLogin, HandledDispose, Zenon
<1>4. ASSUME NEW s \in Sessions, Disposal(s) PROVE Handled'
  BY <1>4, HandledStop, HandledErase, Zenon DEF Disposal
<1> QED
  BY <1>2, <1>3, <1>4, PhaseSteps, Zenon

LEMMA HandledInit == Init => Handled
<1> SUFFICES ASSUME Init PROVE Handled
  OBVIOUS
<1>1. Sessions = {}
  <2>1. session = <<>>
    BY Zenon DEF Init
  <2> QED
    BY <2>1, SMT DEF Sessions
<1>2. \A c \in Clients : StgMap[c] = 0
  BY Zenon DEF Init
<1> QED
  BY <1>1, <1>2, Zenon DEF Handled

LEMMA AlwaysHandled == Spec => []Handled
  BY HandledInit, HandledKept, AlwaysSafe, PTL DEF Spec

\* ClientSession: a client has at most one session that trades, the one ClientHandler
\* knows, whatever logins, logouts and disposals came before.
THEOREM OneSession == Spec => []OneSessionPerClient
<1>1. Handled => OneSessionPerClient
  <2>1. "open" # "erased"
    OBVIOUS
  <2> QED
    BY <2>1, Zenon DEF Handled, OneSessionPerClient, IsExit
<1> QED
  BY <1>1, AlwaysHandled, PTL

-----------------------------------------------------------------------------
(* Legs are fed.                                                             *)

LEMMA LegSteps ==
    ASSUME Safe, [Next]_vars
    PROVE  \/ FeedsKept /\ LegsKept /\ told' = told
           \/ \E c \in Clients, p \in Packets : HandleOnFOPairSubscription(c, p)
           \/ \E s \in Sessions : StopAllOrder(s)
<1>1. ASSUME LoadSettings \/ LoadContract \/ UNCHANGED vars PROVE FeedsKept /\ LegsKept /\ told' = told
  BY <1>1, MainSafe, Zenon DEF LoadSettings, LoadContract, vars
<1>2. ASSUME NEW c \in Clients, Requests(c)
      PROVE  \/ FeedsKept /\ LegsKept /\ told' = told
             \/ \E p \in Packets : HandleOnFOPairSubscription(c, p)
  <2>1. CASE Login(c)
    <3>1. told' = told
      BY <2>1, Zenon DEF Login
    <3> QED
      BY <2>1, <3>1, LoginSafe, Zenon
  <2>2. CASE Dispose(c)
    BY <2>2, DisposeSafe, Zenon DEF Dispose
  <2>3. ASSUME NEW p \in Packets, HandleOnFOPairUnSubscription(c, p.PORTFOLIONAME)
        PROVE  FeedsKept /\ LegsKept /\ told' = told
    BY <2>3, UnSubscriptionSafe, Zenon DEF HandleOnFOPairUnSubscription
  <2>4. ASSUME NEW p \in Packets, HandleOnFOPairDiff(c, p) PROVE FeedsKept /\ LegsKept /\ told' = told
    BY <2>4, DiffSafe, Zenon DEF HandleOnFOPairDiff
  <2>5. ASSUME NEW p \in Packets, ManualOrderEntry(c, p.TokenFar)
        PROVE  FeedsKept /\ LegsKept /\ told' = told
    BY <2>5, PacketTypes, ManualOrderSafe, Zenon DEF ManualOrderEntry
  <2>6. ASSUME NEW o \in DOMAIN orders, ManualOrder_Mod_CNclEntry(c, o)
        PROVE  FeedsKept /\ LegsKept /\ told' = told
    BY <2>6, ManualChangeSafe, Zenon DEF ManualOrder_Mod_CNclEntry
  <2> QED
    BY <1>2, <2>1, <2>2, <2>3, <2>4, <2>5, <2>6, Zenon DEF Requests
<1>3. ASSUME NEW s \in Sessions, EraseAll(s) \/ DataThread(s) \/ Eventsubscriber(s)
      PROVE  FeedsKept /\ LegsKept /\ told' = told
  <2>1. CASE Look(s)
    BY <2>1, LookSafe, Zenon DEF Look
  <2>2. CASE Send(s)
    BY <2>2, SendSafe, Zenon DEF Send
  <2>3. CASE CallErased(s)
    BY <2>3, CallErasedSafe, Zenon DEF CallErased
  <2>4. CASE Eventsubscriber(s)
    BY <2>4, EventSafe, Zenon DEF Eventsubscriber
  <2>5. CASE EraseAll(s)
    BY <2>5, EraseAllSafe, Zenon DEF EraseAll
  <2>6. CASE Datasubscriber(s)
    BY <2>6, DatasubscriberSafe, Zenon DEF Datasubscriber
  <2> QED
    BY <1>3, <2>1, <2>2, <2>3, <2>4, <2>5, <2>6, Zenon DEF DataThread
<1>4. ASSUME NEW o \in DOMAIN orders, Exchange(o) PROVE FeedsKept /\ LegsKept /\ told' = told
  BY <1>4, ExchangeSafe, Zenon DEF Exchange, Accept, Fill, Withdraw, Refuse, Moves
<1> QED
  BY <1>1, <1>2, <1>3, <1>4, Zenon DEF Next, Step, Disposal

\* The tokens of a session that are subscribed, or were too early.
Asked(r) == r.feed \cup r.early

\* While a session runs, a flag in _SubStatus says that the token is one of them.
FlagsTell == \A s \in Sessions : ~IsExit(s) => session[s].SubStatus \subseteq Asked(session[s])

\* A session starts without a flag.
LEMMA NoFlags ==
    ASSUME Safe, [Next]_vars, NEW s \in Sessions', s \notin Sessions
    PROVE  session'[s].SubStatus = {}
<1>0. TypeOK
  BY Zenon DEF Safe
<1>1. ASSUME NEW c \in Clients, Login(c) PROVE session'[s].SubStatus = {}
  <2>1. CASE ~IniMap
    BY <1>1, <2>1, Zenon DEF Login, Sessions
  <2>2. CASE IniMap
    <3>1. Len(session') = Len(session) + 1 /\ session'[Len(session) + 1] = NewSession(c, cimlist')
      BY <1>0, <1>1, <2>2, LoginStep, Zenon
    <3>2. s = Len(session) + 1
      BY <1>0, <3>1, Lengths, SMT DEF Sessions
    <3>3. NewSession(c, cimlist').SubStatus = {}
      BY SMT DEF NewSession
    <3> QED
      BY <3>1, <3>2, <3>3, Zenon
  <2> QED
    BY <2>1, <2>2
<1>2. ASSUME NEW c \in Clients, Dispose(c) PROVE Sessions' = Sessions
  BY <1>0, <1>2, DisposeStep, Zenon DEF Sessions
<1>3. ASSUME NEW r \in Sessions, Disposal(r) PROVE Sessions' = Sessions
  <2>1. CASE StopAllOrder(r)
    <3>1. Len(session') = Len(session)
      BY <1>0, <2>1, StopAllOrderStep
    <3> QED
      BY <3>1, Zenon DEF Sessions
  <2>2. CASE EraseAll(r)
    <3>1. Len(session') = Len(session)
      BY <1>0, <2>2, EraseAllStep
    <3> QED
      BY <3>1, Zenon DEF Sessions
  <2> QED
    BY <1>3, <2>1, <2>2, Zenon DEF Disposal
<1> QED
  BY <1>1, <1>2, <1>3, PhaseSteps, Zenon DEF PhasesKept

LEMMA FlagsKept == Safe /\ FlagsTell /\ [Next]_vars => FlagsTell'
<1> SUFFICES ASSUME Safe, FlagsTell, [Next]_vars PROVE FlagsTell'
  OBVIOUS
<1>0. TypeOK /\ Kept
  BY NextSafe, Zenon DEF Safe
<1>1. SUFFICES ASSUME NEW s \in Sessions, session'[s].phase = "open"
               PROVE  session'[s].SubStatus \subseteq Asked(session'[s])
  <2>1. ASSUME NEW s \in Sessions', s \notin Sessions
        PROVE  session'[s].SubStatus \subseteq Asked(session'[s])
    BY <2>1, NoFlags, Zenon
  <2> QED
    BY <2>1, Zenon DEF FlagsTell, IsExit
<1>2. session[s].phase = "open" /\ session[s].SubStatus \subseteq Asked(session[s])
  BY <1>0, <1>1, Zenon DEF Kept, SessionKept, FlagsTell, IsExit
<1>3. CASE FeedsKept
  BY <1>2, <1>3, Zenon DEF FeedsKept, MoreFed, Asked
<1>4. ASSUME NEW c \in Clients, NEW p \in Packets, HandleOnFOPairSubscription(c, p) PROVE FeedsKept
  BY <1>4, SubscriptionSafe, Zenon
<1>5. ASSUME NEW r \in Sessions, StopAllOrder(r)
      PROVE  session'[s].SubStatus \subseteq Asked(session'[s])
  <2>1. session[r].phase = "exiting"
    BY <1>0, <1>5, StopAllOrderStep
  <2>2. s # r
    BY <1>2, <2>1
  <2>3. PICK T : OnlySession(r, Halted(session[r], T))
    BY <1>0, <1>5, StopAllOrderStep
  <2>4. session'[s] = session[s]
    BY <2>2, <2>3, Zenon DEF OnlySession
  <2> QED
    BY <1>2, <2>4, Zenon
<1> QED
  BY <1>3, <1>4, <1>5, LegSteps, Zenon

\* What LegsAreFed says of one strategy.
Fed(x) ==
    strategy[x].live /\ strategy[x].gen > 0 /\ ~IsExit(strategy[x].ses) =>
        Tokens(strategy[x].pack) \subseteq told \cap Asked(session[strategy[x].ses])

\* An old strategy that has the legs it had is fed as it was.
LEMMA StillFed ==
    ASSUME Safe, Kept, NEW x \in Strategies, Fed(x),
           strategy'[x].pack = strategy[x].pack, strategy'[x].gen = strategy[x].gen,
           IsExit(strategy[x].ses) \/ Asked(session[strategy[x].ses]) \subseteq Asked(session'[strategy[x].ses]),
           told \subseteq told'
    PROVE  Fed(x)'
<1>1. strategy[x].ses \in Sessions
  BY Referred, Zenon DEF Safe
<1>2. strategy'[x].ses = strategy[x].ses /\ (strategy'[x].live => strategy[x].live)
  BY Zenon DEF Kept, StrategyKept, SameMaking
<1>3. IsExit(strategy[x].ses) => session'[strategy[x].ses].phase # "open"
  BY <1>1, Zenon DEF Kept, SessionKept, IsExit
<1> QED
  BY <1>2, <1>3, Zenon DEF Fed, IsExit

LEMMA FedQuiet ==
    ASSUME Safe, Kept, LegsAreFed, FeedsKept, LegsKept, told' = told
    PROVE  LegsAreFed'
<1>1. ASSUME NEW x \in Strategies' PROVE Fed(x)'
  <2>1. CASE x \notin Strategies /\ strategy'[x].gen = 0
    BY <2>1, SMT DEF Fed
  <2>2. CASE x \in Strategies /\ strategy'[x].pack = strategy[x].pack /\ strategy'[x].gen = strategy[x].gen
    <3>1. Fed(x)
      BY <2>2, Zenon DEF LegsAreFed, Fed, Asked
    <3>2. Asked(session[strategy[x].ses]) \subseteq Asked(session'[strategy[x].ses])
      BY <2>2, Referred, Zenon DEF Safe, FeedsKept, MoreFed, Asked
    <3> QED
      BY <2>2, <3>1, <3>2, StillFed, Zenon
  <2> QED
    BY <2>1, <2>2, Zenon DEF LegsKept
<1> QED
  BY <1>1, Zenon DEF LegsAreFed, Fed, Asked

LEMMA FedSubscription ==
    ASSUME Safe, FlagsTell, LegsAreFed, NEW c \in Clients, NEW p \in Packets, HandleOnFOPairSubscription(c, p)
    PROVE  LegsAreFed'
<1>0. TypeOK
  BY Zenon DEF Safe
<1>1. Kept /\ FeedsKept
  BY SubscriptionSafe, Zenon
<1>2. PICK s : s = StgMap[c]
  OBVIOUS
<1>3. PICK found : found = Find(s, p.PORTFOLIONAME)
  OBVIOUS
<1>4. s \in Sessions /\ SubscriptionEffect(s, p, found)
  BY <1>0, <1>2, <1>3, SubscriptionStep
<1>5. PICK x, st :
        /\ x \in Strategies'
        /\ \/ x \in found /\ st = strategy[x] /\ Strategies' = Strategies
           \/ /\ found = {} /\ x = Len(strategy) + 1 /\ Len(strategy') = Len(strategy) + 1
              /\ \E BLQ \in LotSizes(s, p.TokenFar) :
                   st = NewStrategy(s, p.PORTFOLIONAME, "sub", BLQ)
        /\ GoodStrategy(st, Len(session), Len(orders))
        /\ strategy'[x] = OnSubscription(st, p)
        /\ \A y \in Strategies : y # x => strategy'[y] = strategy[y]
        /\ session'[s] = Connect(session[s], x, OnSubscription(st, p).gen, p)
  BY <1>4, Zenon DEF SubscriptionEffect
<1>6. told' = told \cup Tokens(p)
  BY Zenon DEF HandleOnFOPairSubscription
<1>7. strategy'[x].ses = s /\ strategy'[x].pack = p
  <2>1. st \in StrategyRecords
    BY <1>5, Zenon DEF GoodStrategy
  <2>2. SameMaking(strategy'[x], st) /\ strategy'[x].pack = p
    BY <1>5, <2>1, SubscribedFields
  <2>3. st.ses = s
    <3>1. CASE x \in found /\ st = strategy[x]
      BY <1>3, <3>1, Zenon DEF Find
    <3>2. ASSUME NEW BLQ, st = NewStrategy(s, p.PORTFOLIONAME, "sub", BLQ) PROVE st.ses = s
      BY <3>2, SMT DEF NewStrategy
    <3> QED
      BY <1>5, <3>1, <3>2, Zenon
  <2> QED
    BY <2>2, <2>3, Zenon DEF SameMaking
<1>8. ~IsExit(s)' => Tokens(p) \subseteq Asked(session'[s])
  <2>1. session[s].SubStatus \subseteq Asked(session[s]) => Tokens(p) \subseteq Asked(session'[s])
    BY <1>0, <1>4, <1>5, Records, ConnectFields DEF Asked
  <2>2. ~IsExit(s)' => ~IsExit(s)
    BY <1>1, <1>4, Zenon DEF Kept, SessionKept, IsExit
  <2> QED
    BY <1>4, <2>1, <2>2, Zenon DEF FlagsTell
<1>9. Fed(x)'
  BY <1>6, <1>7, <1>8, Zenon DEF Fed
<1>10. ASSUME NEW y \in Strategies, y # x PROVE Fed(y)'
  <2>1. strategy'[y] = strategy[y] /\ Fed(y)
    BY <1>5, <1>10, Zenon DEF LegsAreFed, Fed, Asked
  <2>2. Asked(session[strategy[y].ses]) \subseteq Asked(session'[strategy[y].ses])
    BY <1>0, <1>1, Referred, Zenon DEF FeedsKept, MoreFed, Asked
  <2>3. told \subseteq told'
    BY <1>6, Zenon
  <2> QED
    BY <1>1, <2>1, <2>2, <2>3, StillFed, Zenon
<1>11. \A y \in Strategies' : y \in Strategies \/ y = x
  BY <1>0, <1>5, Lengths, SMT DEF Strategies
<1> QED
  BY <1>9, <1>10, <1>11, Zenon DEF LegsAreFed, Fed, Asked

LEMMA FedStop ==
    ASSUME Safe, LegsAreFed, NEW s \in Sessions, StopAllOrder(s)
    PROVE  LegsAreFed'
<1>0. TypeOK
  BY Zenon DEF Safe
<1>1. Kept /\ LegsKept
  BY StopAllOrderSafe, Zenon
<1>2. session[s].phase = "exiting" /\ Len(strategy') = Len(strategy)
  BY <1>0, StopAllOrderStep
<1>3. PICK T : OnlySession(s, Halted(session[s], T))
  BY <1>0, StopAllOrderStep
<1>4. told' = told
  BY Zenon DEF StopAllOrder
<1>5. "exiting" # "open"
  OBVIOUS
<1>6. ASSUME NEW x \in Strategies'
      PROVE  Fed(x)'
  <2>1. /\ x \in Strategies /\ strategy'[x].pack = strategy[x].pack
        /\ strategy'[x].gen = strategy[x].gen
    BY <1>1, <1>2, <1>6, Zenon DEF LegsKept, Strategies
  <2>2. IsExit(strategy[x].ses) \/ Asked(session[strategy[x].ses]) \subseteq Asked(session'[strategy[x].ses])
    <3>1. CASE strategy[x].ses = s
      BY <1>2, <1>5, <3>1, Zenon DEF IsExit
    <3>2. CASE strategy[x].ses # s
      BY <1>0, <1>3, <2>1, <3>2, Referred, Zenon DEF OnlySession
    <3> QED
      BY <3>1, <3>2, Zenon
  <2>3. Fed(x) /\ told \subseteq told'
    BY <1>4, <2>1, Zenon DEF LegsAreFed, Fed, Asked
  <2> QED
    BY <1>1, <2>1, <2>2, <2>3, StillFed, Zenon
<1> QED
  BY <1>6, Zenon DEF LegsAreFed, Fed, Asked

LEMMA FedKept == Safe /\ FlagsTell /\ LegsAreFed /\ [Next]_vars => LegsAreFed'
<1> SUFFICES ASSUME Safe, FlagsTell, LegsAreFed, [Next]_vars PROVE LegsAreFed'
  OBVIOUS
<1>1. Kept
  BY NextSafe, Zenon
<1>2. CASE FeedsKept /\ LegsKept /\ told' = told
  BY <1>1, <1>2, FedQuiet, Zenon
<1> QED
  BY <1>2, FedSubscription, FedStop, LegSteps, Zenon

LEMMA NoStrategies == Init => Strategies = {} /\ Sessions = {} /\ DOMAIN orders = {}
<1> SUFFICES ASSUME Init PROVE Strategies = {} /\ Sessions = {} /\ DOMAIN orders = {}
  OBVIOUS
<1>1. strategy = <<>> /\ session = <<>> /\ orders = <<>>
  BY Zenon DEF Init
<1> QED
  BY <1>1, SMT DEF Strategies, Sessions

\* ClientSession: each leg of a subscribed portfolio of a running session was published to
\* the data server, and is subscribed on the data thread's socket or had its one subscription
\* made before the thread created it, however portfolios that share tokens come and go.
THEOREM LegsFed == Spec => []LegsAreFed
<1>1. Init => LegsAreFed /\ FlagsTell
  BY NoStrategies, Zenon DEF LegsAreFed, FlagsTell
<1> QED
  BY <1>1, FlagsKept, FedKept, AlwaysSafe, PTL DEF Spec

-----------------------------------------------------------------------------
(* Where orders come from.                                                   *)

\* An order is sent by a client's hand, or by the strategy that the data thread of a session
\* has in hand, under the strategy's tag.
OrderFrom(o) ==
    /\ orders'[o].state = "sent"
    /\ \/ orders'[o].obj = 0 /\ \E c \in Clients : orders'[o].tag = Tag(c, Manual)
       \/ \E s \in Sessions : /\ session[s].hand \in Strategies /\ orders'[o].obj = session[s].hand
                              /\ orders'[o].tag = AddressOf(strategy[session[s].hand])

LEMMA SentFields ==
    ASSUME NEW t, NEW f, NEW x, NEW o, o = Sent(t, f, x)
    PROVE  o.tag = t /\ o.obj = x /\ o.state = "sent"
  BY SMT DEF Sent

\* Manual entries, the data threads and the exchange change the orders.
LEMMA OrderSteps ==
    ASSUME Safe, [Next]_vars
    PROVE  \/ orders' = orders
           \/ \E c \in Clients, p \in Packets : ManualOrderEntry(c, p.TokenFar)
           \/ \E s \in Sessions : Send(s)
           \/ \E o \in DOMAIN orders : Exchange(o)
<1>1. ASSUME NEW c \in Clients, Requests(c)
      PROVE  orders' = orders \/ \E p \in Packets : ManualOrderEntry(c, p.TokenFar)
  <2>1. CASE Login(c) \/ Dispose(c)
    BY <2>1, Zenon DEF Login, Dispose
  <2> QED
    BY <1>1, <2>1, Zenon DEF Requests, HandleOnFOPairSubscription, HandleOnFOPairUnSubscription,
       HandleOnFOPairDiff, ManualOrder_Mod_CNclEntry
<1>2. ASSUME NEW s \in Sessions, Disposal(s) \/ DataThread(s) \/ Eventsubscriber(s)
      PROVE  orders' = orders \/ Send(s)
  <2>1. CASE Disposal(s)
    BY <2>1, Zenon DEF Disposal, StopAllOrder, EraseAll
  <2>2. CASE DataThread(s)
    BY <2>2, Zenon DEF DataThread, Datasubscriber, Look, CallErased
  <2>3. CASE Eventsubscriber(s)
    BY <2>3, Zenon DEF Eventsubscriber
  <2> QED
    BY <1>2, <2>1, <2>2, <2>3, Zenon
<1>3. ASSUME LoadSettings \/ LoadContract \/ UNCHANGED vars PROVE orders' = orders
  BY <1>3, Zenon DEF LoadSettings, LoadContract, vars
<1> QED
  BY <1>1, <1>2, <1>3, Zenon DEF Next, Step

LEMMA NewOrders ==
    ASSUME Safe, [Next]_vars
    PROVE  \/ orders' = orders
           \/ \E o \in DOMAIN orders : Exchange(o)
           \/ \A o \in DOMAIN orders' : \/ o \in DOMAIN orders /\ orders'[o] = orders[o]
                                        \/ o \notin DOMAIN orders /\ OrderFrom(o)
<1>0. TypeOK
  BY Zenon DEF Safe
<1>1. ASSUME Safe', Len(orders') = Len(orders) + 1, \A o \in DOMAIN orders : orders'[o] = orders[o],
             OrderFrom(Len(orders) + 1)
      PROVE  \A o \in DOMAIN orders' : \/ o \in DOMAIN orders /\ orders'[o] = orders[o]
                                       \/ o \notin DOMAIN orders /\ OrderFrom(o)
  <2>1. DOMAIN orders' = 1..Len(orders') /\ Len(orders) \in Nat /\ DOMAIN orders = 1..Len(orders)
    BY <1>0, <1>1, NextLengths, Lengths, Zenon DEF Safe
  <2>2. \A o \in DOMAIN orders' : o \in DOMAIN orders \/ (o = Len(orders) + 1 /\ o \notin DOMAIN orders)
    BY <1>1, <2>1, SMT
  <2> QED
    BY <1>1, <2>2, Zenon
<1>2. ASSUME NEW c \in Clients, NEW p \in Packets, ManualOrderEntry(c, p.TokenFar)
      PROVE  /\ Safe' /\ Len(orders') = Len(orders) + 1 /\ \A o \in DOMAIN orders : orders'[o] = orders[o]
             /\ OrderFrom(Len(orders) + 1)
  <2>1. Safe'
    BY <1>2, PacketTypes, ManualOrderSafe, Zenon
  <2>2. p.TokenFar \in AllTokens
    BY PacketTypes, Zenon
  <2>3. PICK s, n : s = StgMap[c] /\ n = Len(orders) + 1
    OBVIOUS
  <2>4. /\ Len(orders') = Len(orders) + 1 /\ \A o \in DOMAIN orders : orders'[o] = orders[o]
        /\ orders'[n] = Sent(Tag(c, Manual), p.TokenFar, 0)
    BY <1>0, <1>2, <2>2, <2>3, ManualOrderStep
  <2>5. orders'[n].tag = Tag(c, Manual) /\ orders'[n].obj = 0 /\ orders'[n].state = "sent"
    BY <2>4, SentFields
  <2> QED
    BY <2>1, <2>3, <2>4, <2>5, Zenon DEF OrderFrom
<1>3. ASSUME NEW s \in Sessions, Send(s)
      PROVE  /\ Safe' /\ Len(orders') = Len(orders) + 1 /\ \A o \in DOMAIN orders : orders'[o] = orders[o]
             /\ OrderFrom(Len(orders) + 1)
  <2>1. Safe'
    BY <1>3, SendSafe, Zenon
  <2>2. PICK x, n : x = session[s].hand /\ n = Len(orders) + 1
    OBVIOUS
  <2>3. /\ x \in Strategies
        /\ Len(orders') = Len(orders) + 1 /\ \A o \in DOMAIN orders : orders'[o] = orders[o]
        /\ orders'[n] = Sent(AddressOf(strategy[x]), strategy[x].NMPack.FARMONTH.TokenNo, x)
    BY <1>0, <1>3, <2>2, SendStep
  <2>4. orders'[n].tag = AddressOf(strategy[x]) /\ orders'[n].obj = x /\ orders'[n].state = "sent"
    BY <2>3, SentFields
  <2> QED
    BY <2>1, <2>2, <2>3, <2>4, Zenon DEF OrderFrom
<1> QED
  BY <1>1, <1>2, <1>3, OrderSteps, Zenon

\* The exchange keeps whose order it is.
LEMMA ExchangeOrders ==
    ASSUME Safe, NEW o \in DOMAIN orders, Exchange(o)
    PROVE  DOMAIN orders' = DOMAIN orders
<1>0. TypeOK
  BY Zenon DEF Safe
<1>1. ASSUME NEW from, NEW to, NEW kind, Moves(o, from, to, kind)
      PROVE  DOMAIN orders' = DOMAIN orders
  BY <1>1, Zenon DEF Moves
<1> QED
  BY <1>1, Zenon DEF Exchange, Accept, Fill, Withdraw, Refuse

-----------------------------------------------------------------------------
(* Lot sizes.                                                                *)

\* A strategy that is about to send an order, or sent one, has a lot size.
LotsKnown ==
    /\ \A s \in Sessions : session[s].hand # 0 => strategy[session[s].hand].BLQ # "zero"
    /\ \A o \in DOMAIN orders : orders[o].obj # 0 => strategy[orders[o].obj].BLQ # "zero"

\* A strategy keeps its lot size.
LEMMA LotsStay ==
    ASSUME Kept
    PROVE  \A x \in Strategies : strategy'[x].BLQ = strategy[x].BLQ
  BY Zenon DEF Kept, StrategyKept, SameMaking

LEMMA HandsKnown ==
    ASSUME Safe, LotsKnown, [Next]_vars
    PROVE  \A s \in Sessions' : session'[s].hand # 0 => strategy'[session'[s].hand].BLQ # "zero"
<1>0. TypeOK
  BY Zenon DEF Safe
<1>1. Kept
  BY NextSafe, Zenon
<1>2. CASE HandsKept
  <2>1. \A s \in Sessions : session[s].hand # 0 => session[s].hand \in Strategies
    BY <1>0, Referred, Zenon
  <2> QED
    BY <1>1, <1>2, <2>1, LotsStay, Zenon DEF HandsKept, LotsKnown
<1>3. ASSUME NEW s \in Sessions, Look(s)
      PROVE  \A j \in Sessions' : session'[j].hand # 0 => strategy'[session'[j].hand].BLQ # "zero"
  <2>1. Len(session') = Len(session) /\ strategy' = strategy
    BY <1>0, <1>3, LookStep
  <2>2. PICK d : /\ d.obj \in Strategies /\ MayQuote(strategy[d.obj])
                 /\ \A j \in Sessions : session'[j] =
                      IF j = s THEN [session[s] EXCEPT !.hand = d.obj] ELSE session[j]
    BY <1>0, <1>3, LookStep
  <2>3. session'[s].hand = d.obj
    <3>1. session'[s] = [session[s] EXCEPT !.hand = d.obj]
      BY <2>2, Zenon
    <3>2. session[s] \in SessionRecords
      BY <1>0, Records, Zenon
    <3> QED
      BY <3>1, <3>2, HandFields
  <2>4. strategy[d.obj].BLQ # "zero"
    BY <2>2, Zenon DEF MayQuote
  <2>5. Sessions' = Sessions
    BY <2>1, Zenon DEF Sessions
  <2>6. SUFFICES ASSUME NEW j \in Sessions, session'[j].hand # 0
                 PROVE  strategy'[session'[j].hand].BLQ # "zero"
    BY <2>5, Zenon
  <2>7. CASE j = s
    BY <2>1, <2>3, <2>4, <2>7, Zenon
  <2>8. CASE j # s
    BY <2>1, <2>2, <2>6, <2>8, Zenon DEF LotsKnown
  <2> QED
    BY <2>7, <2>8, Zenon
<1>4. HandsKept \/ \E s \in Sessions : Look(s)
  <2>1. ASSUME NEW c \in Clients, Requests(c) PROVE HandsKept
    BY <2>1, LoginSafe, DisposeSafe, SubscriptionSafe, UnSubscriptionSafe, DiffSafe, PacketTypes,
       ManualOrderSafe, ManualChangeSafe, Zenon DEF Requests
  <2>2. ASSUME NEW s \in Sessions, Disposal(s) \/ DataThread(s) \/ Eventsubscriber(s)
        PROVE  HandsKept \/ Look(s)
    BY <2>2, StopAllOrderSafe, EraseAllSafe, DatasubscriberSafe, SendSafe, CallErasedSafe, EventSafe, Zenon
       DEF Disposal, DataThread
  <2> QED
    BY <2>1, <2>2, MainSafe, ExchangeSafe, Zenon DEF Next, Step
<1> QED
  BY <1>2, <1>3, <1>4, Zenon

LEMMA LotsKnownKept == Safe /\ LotsKnown /\ [Next]_vars => LotsKnown'
<1> SUFFICES ASSUME Safe, LotsKnown, [Next]_vars PROVE LotsKnown'
  OBVIOUS
<1>0. TypeOK /\ Kept
  BY NextSafe, Zenon DEF Safe
<1>1. ASSUME NEW o \in DOMAIN orders, o \in DOMAIN orders', orders'[o].obj # 0
      PROVE  strategy'[orders'[o].obj].BLQ # "zero"
  <2>1. orders'[o].obj = orders[o].obj
    BY <1>0, Zenon DEF Kept, OrderKept
  <2>2. orders[o].obj \in Strategies
    BY <1>0, <1>1, <2>1, Referred, Zenon
  <2> QED
    BY <1>0, <1>1, <2>1, <2>2, LotsStay, Zenon DEF LotsKnown
<1>2. ASSUME NEW o \in DOMAIN orders', OrderFrom(o), orders'[o].obj # 0
      PROVE  strategy'[orders'[o].obj].BLQ # "zero"
  <2>1. PICK s \in Sessions : session[s].hand \in Strategies /\ orders'[o].obj = session[s].hand
    BY <1>2, Zenon DEF OrderFrom
  <2> QED
    BY <1>0, <1>2, <2>1, LotsStay, Zenon DEF LotsKnown
<1>3. \A o \in DOMAIN orders' : o \in DOMAIN orders \/ OrderFrom(o)
  BY NewOrders, ExchangeOrders, Zenon
<1> QED
  BY <1>1, <1>2, <1>3, HandsKnown, Zenon DEF LotsKnown

\* ClientSession: the process dies of a division only when the trade is of an order of a
\* strategy that is no more: a strategy that sent an order has a lot size.
THEOREM NoDivision == Spec => []DividesOnlyForStrangers
<1>1. Init => LotsKnown
  BY NoStrategies, Zenon DEF LotsKnown
<1>2. Safe /\ LotsKnown => DividesOnlyForStrangers
  <2> SUFFICES ASSUME Safe, LotsKnown, NEW h \in heard, orders[h[1]].obj = h[2]
               PROVE  strategy[h[2]].BLQ # "zero"
    BY Zenon DEF DividesOnlyForStrangers
  <2>1. heard \subseteq (DOMAIN orders) \X Strategies
    BY TypeSplit, Zenon DEF Safe, HistoryTypes
  <2>2. h[1] \in DOMAIN orders /\ h[2] \in Strategies
    BY <2>1, SMT
  <2>3. h[2] # 0
    BY <2>2, SMT DEF Strategies
  <2> QED
    BY <2>2, <2>3, Zenon DEF LotsKnown
<1> QED
  BY <1>1, <1>2, LotsKnownKept, AlwaysSafe, PTL DEF Spec

\* Every session has the contracts ClientHandler copied, and there is none before it did.
ContractsCopied ==
    /\ loadCimList = FALSE => Sessions = {}
    /\ \A s \in Sessions : session[s].cim = cimlist

LEMMA CopiedQuiet ==
    ASSUME Kept, ContractsCopied, Sessions' = Sessions, UNCHANGED <<cimlist, loadCimList>>
    PROVE  ContractsCopied'
  BY Zenon DEF Kept, SessionKept, ContractsCopied

LEMMA CopiedLogin ==
    ASSUME Safe, ContractsCopied, NEW c \in Clients, Login(c)
    PROVE  /\ ContractsCopied'
           /\ UNCHANGED <<cimlist, loadCimList>> \/ Sessions = {}
<1>0. TypeOK
  BY Zenon DEF Safe
<1>1. CASE ~IniMap
  <2>1. UNCHANGED <<cimlist, loadCimList, session>>
    BY <1>1, Zenon DEF Login, handler
  <2> QED
    BY <2>1, Zenon DEF ContractsCopied, Sessions
<1>2. CASE IniMap
  <2>1. PICK n : n = Len(session) + 1
    OBVIOUS
  <2>2. /\ \A j \in Sessions : session'[j] = session[j]
        /\ session'[n] = NewSession(c, cimlist') /\ Len(session') = n
    BY <1>0, <1>2, <2>1, LoginStep, Zenon
  <2>3. loadCimList' = TRUE /\ cimlist' = IF loadCimList THEN cimlist ELSE ContMap
    BY <1>2, Zenon DEF Login
  <2>4. \A j \in Sessions' : j \in Sessions \/ j = n
    BY <1>0, <2>1, <2>2, Lengths, SMT DEF Sessions
  <2>5. session'[n].cim = cimlist'
    <3>1. NewSession(c, cimlist').cim = cimlist'
      BY SMT DEF NewSession
    <3> QED
      BY <2>2, <3>1, Zenon
  <2>6. loadCimList \in BOOLEAN
    BY <1>0, TypeSplit, Zenon DEF HandlerTypes
  <2>7. CASE loadCimList = TRUE
    <3>1. UNCHANGED <<cimlist, loadCimList>>
      BY <2>3, <2>7, Zenon
    <3>2. ASSUME NEW j \in Sessions' PROVE session'[j].cim = cimlist'
      <4>1. CASE j \in Sessions
        BY <2>2, <3>1, <4>1, Zenon DEF ContractsCopied
      <4>2. CASE j = n
        BY <2>5, <4>2, Zenon
      <4> QED
        BY <2>4, <4>1, <4>2, Zenon
    <3> QED
      BY <2>3, <3>1, <3>2, Zenon DEF ContractsCopied
  <2>8. CASE loadCimList = FALSE
    <3>1. Sessions = {}
      BY <2>8, Zenon DEF ContractsCopied
    <3>2. ASSUME NEW j \in Sessions' PROVE session'[j].cim = cimlist'
      BY <2>4, <2>5, <3>1, Zenon
    <3> QED
      BY <2>3, <3>1, <3>2, Zenon DEF ContractsCopied
  <2> QED
    BY <2>6, <2>7, <2>8, Zenon
<1> QED
  BY <1>1, <1>2, Zenon

LEMMA CopiedSteps ==
    ASSUME Safe, ContractsCopied, [Next]_vars
    PROVE  /\ ContractsCopied'
           /\ UNCHANGED <<cimlist, loadCimList>> \/ Sessions = {}
<1>1. Kept
  BY NextSafe, Zenon
<1>2. CASE PhasesKept /\ UNCHANGED handler
  <2>1. Sessions' = Sessions /\ UNCHANGED <<cimlist, loadCimList>>
    BY <1>2, Zenon DEF PhasesKept, handler
  <2> QED
    BY <1>1, <2>1, CopiedQuiet, Zenon
<1>3. ASSUME NEW c \in Clients, Login(c)
      PROVE  /\ ContractsCopied'
             /\ UNCHANGED <<cimlist, loadCimList>> \/ Sessions = {}
  BY <1>3, CopiedLogin, Zenon
<1>4. ASSUME NEW c \in Clients, Dispose(c)
      PROVE  ContractsCopied' /\ UNCHANGED <<cimlist, loadCimList>>
  <2>1. UNCHANGED <<cimlist, loadCimList>>
    BY <1>4, Zenon DEF Dispose, handler
  <2>2. Len(session') = Len(session)
    BY <1>4, DisposeStep, Zenon DEF Safe
  <2> QED
    BY <1>1, <2>1, <2>2, CopiedQuiet, Zenon DEF Sessions
<1>5. ASSUME NEW s \in Sessions, Disposal(s)
      PROVE  ContractsCopied' /\ UNCHANGED <<cimlist, loadCimList>>
  <2>1. UNCHANGED <<cimlist, loadCimList>>
    BY <1>5, Zenon DEF Disposal, StopAllOrder, EraseAll, handler
  <2>2. CASE StopAllOrder(s)
    <3>1. Len(session') = Len(session)
      BY <2>2, StopAllOrderStep DEF Safe
    <3> QED
      BY <1>1, <2>1, <3>1, CopiedQuiet, Zenon DEF Sessions
  <2>3. CASE EraseAll(s)
    <3>1. Len(session') = Len(session)
      BY <2>3, EraseAllStep DEF Safe
    <3> QED
      BY <1>1, <2>1, <3>1, CopiedQuiet, Zenon DEF Sessions
  <2> QED
    BY <1>5, <2>2, <2>3, <2>1, Zenon DEF Disposal
<1> QED
  BY <1>2, <1>3, <1>4, <1>5, PhaseSteps, Zenon

LEMMA LotsKept ==
    ASSUME \A p \in Packets : p.TokenFar \in Contracts,
           Safe, ContractsCopied, LotsAreTheContracts, [Next]_vars
    PROVE  LotsAreTheContracts'
<1>0. TypeOK /\ Kept
  BY NextSafe, Zenon DEF Safe
<1>1. CASE UNCHANGED <<cimlist, loadCimList>>
  <2> SUFFICES ASSUME cimlist = Contracts, NEW x \in Strategies', strategy'[x].by # "event"
               PROVE  strategy'[x].BLQ = "lot"
    BY <1>1, Zenon DEF LotsAreTheContracts
  <2>1. CASE x \in Strategies
    <3>1. strategy'[x].by = strategy[x].by /\ strategy'[x].BLQ = strategy[x].BLQ
      BY <1>0, <2>1, Zenon DEF Kept, StrategyKept, SameMaking
    <3> QED
      BY <2>1, <3>1, Zenon DEF LotsAreTheContracts
  <2>2. CASE x \notin Strategies
    <3>1. PICK p \in Packets : /\ strategy'[x].ses \in Sessions
                               /\ strategy'[x].BLQ \in LotSizes(strategy'[x].ses, p.TokenFar)
      BY <1>0, <2>2, Zenon DEF Kept, Fresh
    <3>2. p.TokenFar \in session[strategy'[x].ses].cim
      BY <3>1, Zenon DEF ContractsCopied
    <3> QED
      BY <3>1, <3>2, Zenon DEF LotSizes
  <2> QED
    BY <2>1, <2>2, Zenon
<1>2. CASE Sessions = {}
  <2>1. Strategies = {}
    BY <1>0, <1>2, Referred, Zenon
  <2>2. Strategies' = {}
    BY <1>0, <1>2, <2>1, Zenon DEF Kept, Fresh
  <2> QED
    BY <2>2, Zenon DEF LotsAreTheContracts
<1> QED
  BY <1>1, <1>2, CopiedSteps, Zenon

\* ClientSession: a strategy that a request made has the lot size of its contract, if the
\* contract file was read in full before the first login and lists the first legs.
THEOREM ContractLots ==
    ASSUME \A p \in Packets : p.TokenFar \in Contracts
    PROVE  Spec => []LotsAreTheContracts
<1>1. Init => ContractsCopied /\ LotsAreTheContracts
  BY NoStrategies, Zenon DEF ContractsCopied, LotsAreTheContracts
<1>2. Safe /\ ContractsCopied /\ LotsAreTheContracts /\ [Next]_vars =>
        ContractsCopied' /\ LotsAreTheContracts'
  BY CopiedSteps, LotsKept, Zenon
<1> QED
  BY <1>1, <1>2, AlwaysSafe, PTL DEF Spec

-----------------------------------------------------------------------------
(* Who an order's events are for.                                            *)

\* An order carries the tag of its client's hand, or that of the strategy that sent it.
Addressed ==
    \A o \in DOMAIN orders :
        \/ orders[o].obj = 0 /\ \E c \in Clients : orders[o].tag = Tag(c, Manual)
        \/ orders[o].obj # 0 /\ orders[o].tag = AddressOf(strategy[orders[o].obj])

\* _StgClass holds one strategy for a portfolio.
OneStrategy ==
    \A x, y \in Strategies :
        /\ strategy[x].live /\ strategy[y].live
        /\ strategy[x].ses = strategy[y].ses /\ strategy[x].pf = strategy[y].pf
        => x = y

\* The event thread of a session that runs is listening.
Listening == \A s \in Sessions : ~IsExit(s) => session[s].listens

LEMMA AddressKept ==
    ASSUME TypeOK, Kept, NEW x \in Strategies
    PROVE  x \in Strategies' /\ AddressOf(strategy[x])' = AddressOf(strategy[x])
<1>1. strategy'[x].ses = strategy[x].ses /\ strategy'[x].pf = strategy[x].pf /\ strategy'[x].by = strategy[x].by
  BY Zenon DEF Kept, StrategyKept, SameMaking
<1>2. session'[strategy[x].ses].client = session[strategy[x].ses].client
  BY Referred, Zenon DEF Kept, SessionKept
<1>3. AddressOf(strategy[x])' = IF strategy'[x].by = "sub"
                                THEN Tag(session'[strategy'[x].ses].client, strategy'[x].pf) ELSE 0
  BY Zenon DEF AddressOf
<1>4. x \in Strategies'
  BY Zenon DEF Kept, StrategyKept
<1> QED
  BY <1>1, <1>2, <1>3, <1>4, Zenon DEF AddressOf

LEMMA AddressedKept ==
    ASSUME Safe, Addressed, [Next]_vars
    PROVE  Addressed'
<1>0. TypeOK /\ Kept
  BY NextSafe, Zenon DEF Safe
<1>1. ASSUME NEW o \in DOMAIN orders, o \in DOMAIN orders'
      PROVE  \/ orders'[o].obj = 0 /\ \E c \in Clients : orders'[o].tag = Tag(c, Manual)
             \/ orders'[o].obj # 0 /\ orders'[o].tag = AddressOf(strategy[orders[o].obj])'
  <2>1. orders'[o].obj = orders[o].obj /\ orders'[o].tag = orders[o].tag
    BY <1>0, Zenon DEF Kept, OrderKept
  <2>2. CASE orders[o].obj = 0
    BY <2>1, <2>2, Zenon DEF Addressed
  <2>3. CASE orders[o].obj # 0
    <3>1. PICK x : x = orders[o].obj
      OBVIOUS
    <3>2. x \in Strategies
      BY <1>0, <2>3, <3>1, Referred, Zenon
    <3>3. AddressOf(strategy[x])' = AddressOf(strategy[x])
      BY <1>0, <3>2, AddressKept, Zenon
    <3>4. orders[o].tag = AddressOf(strategy[x])
      BY <2>3, <3>1, Zenon DEF Addressed
    <3>5. orders'[o].tag = AddressOf(strategy[x])' /\ orders'[o].obj = x
      BY <2>1, <3>1, <3>3, <3>4, Zenon
    <3> QED
      BY <2>3, <3>1, <3>5, Zenon
  <2> QED
    BY <2>2, <2>3, Zenon
<1>2. ASSUME NEW o \in DOMAIN orders', OrderFrom(o)
      PROVE  \/ orders'[o].obj = 0 /\ \E c \in Clients : orders'[o].tag = Tag(c, Manual)
             \/ orders'[o].obj # 0 /\ orders'[o].tag = AddressOf(strategy[orders[o].obj])'
  <2>1. CASE orders'[o].obj = 0 /\ \E c \in Clients : orders'[o].tag = Tag(c, Manual)
    BY <2>1, Zenon
  <2>2. ASSUME NEW s \in Sessions, session[s].hand \in Strategies, orders'[o].obj = session[s].hand,
               orders'[o].tag = AddressOf(strategy[session[s].hand])
        PROVE  orders'[o].obj # 0 /\ orders'[o].tag = AddressOf(strategy[orders[o].obj])'
    <3>1. PICK x : x = session[s].hand
      OBVIOUS
    <3>2. x \in Strategies /\ orders'[o].obj = x /\ orders'[o].tag = AddressOf(strategy[x])
      BY <2>2, <3>1, Zenon
    <3>3. AddressOf(strategy[x])' = AddressOf(strategy[x])
      BY <1>0, <3>2, AddressKept, Zenon
    <3>4. x # 0
      BY <3>2, SMT DEF Strategies
    <3>5. orders'[o].tag = AddressOf(strategy[x])'
      BY <3>2, <3>3, Zenon
    <3> QED
      BY <3>2, <3>4, <3>5, Zenon
  <2> QED
    BY <1>2, <2>1, <2>2, Zenon DEF OrderFrom
<1>3. \A o \in DOMAIN orders' : o \in DOMAIN orders \/ OrderFrom(o)
  BY NewOrders, ExchangeOrders, Zenon
<1> QED
  BY <1>1, <1>2, <1>3, Zenon DEF Addressed

LEMMA OneStrategyKept ==
    ASSUME Kept, OneStrategy
    PROVE  OneStrategy'
<1>1. SUFFICES ASSUME NEW x \in Strategies', NEW y \in Strategies', strategy'[x].live, strategy'[y].live,
                      strategy'[x].ses = strategy'[y].ses, strategy'[x].pf = strategy'[y].pf
               PROVE  x = y
  BY Zenon DEF OneStrategy
<1>2. ASSUME NEW v \in Strategies, strategy'[v].live
      PROVE  strategy[v].live /\ strategy[v].ses = strategy'[v].ses /\ strategy[v].pf = strategy'[v].pf
  BY <1>2, Zenon DEF Kept, StrategyKept, SameMaking
<1>3. ASSUME NEW v \in Strategies', v \notin Strategies, NEW w \in Strategies, strategy'[w].live,
             strategy'[v].ses = strategy'[w].ses, strategy'[v].pf = strategy'[w].pf
      PROVE  FALSE
  <2>1. Find(strategy'[v].ses, strategy'[v].pf) = {}
    BY <1>3, Zenon DEF Kept, Fresh
  <2>2. w \in Find(strategy'[v].ses, strategy'[v].pf)
    BY <1>2, <1>3, Zenon DEF Find
  <2> QED
    BY <2>1, <2>2, Zenon
<1>4. CASE x \in Strategies /\ y \in Strategies
  BY <1>1, <1>2, <1>4, Zenon DEF OneStrategy
<1>5. CASE x \notin Strategies /\ y \notin Strategies
  BY <1>5, Zenon DEF Kept, Fresh
<1> QED
  BY <1>1, <1>3, <1>4, <1>5, Zenon

LEMMA ListeningKept ==
    ASSUME Safe, Listening, [Next]_vars
    PROVE  Listening'
<1>0. TypeOK /\ Kept
  BY NextSafe, Zenon DEF Safe
<1>1. ASSUME NEW s \in Sessions, s \in Sessions', session'[s].phase = "open"
      PROVE  session'[s].listens
  BY <1>0, <1>1, Zenon DEF Kept, SessionKept, Listening, IsExit
<1>2. CASE Sessions' = Sessions
  BY <1>1, <1>2, Zenon DEF Listening, IsExit
<1>3. ASSUME NEW c \in Clients, Login(c)
      PROVE  Listening'
  <2>1. CASE ~IniMap
    <3>1. session' = session
      BY <1>3, <2>1, Zenon DEF Login
    <3> QED
      BY <1>2, <3>1, Zenon DEF Sessions
  <2>2. CASE IniMap
    <3>1. PICK n : n = Len(session) + 1
      OBVIOUS
    <3>2. session'[n] = NewSession(c, cimlist') /\ Len(session') = n
      BY <1>0, <1>3, <2>2, <3>1, LoginStep, Zenon
    <3>3. session'[n].listens = TRUE
      <4>1. NewSession(c, cimlist').listens = TRUE
        BY SMT DEF NewSession
      <4> QED
        BY <3>2, <4>1, Zenon
    <3>4. \A j \in Sessions' : j \in Sessions \/ j = n
      BY <1>0, <3>1, <3>2, Lengths, SMT DEF Sessions
    <3> QED
      BY <1>1, <3>3, <3>4, Zenon DEF Listening, IsExit
  <2> QED
    BY <2>1, <2>2, Zenon
<1>4. ASSUME NEW c \in Clients, Dispose(c) PROVE Sessions' = Sessions
  <2>1. Len(session') = Len(session)
    BY <1>0, <1>4, DisposeStep
  <2> QED
    BY <2>1, Zenon DEF Sessions
<1>5. ASSUME NEW s \in Sessions, Disposal(s) PROVE Sessions' = Sessions
  <2>1. Len(session') = Len(session)
    BY <1>0, <1>5, StopAllOrderStep, EraseAllStep DEF Disposal
  <2> QED
    BY <2>1, Zenon DEF Sessions
<1> QED
  BY <1>2, <1>3, <1>4, <1>5, PhaseSteps, Zenon DEF PhasesKept

-----------------------------------------------------------------------------
(* The events that were handled.                                             *)

\* Event h was handled by the right strategy (the first part of EventsReachTheirSender).
HandledBy(h) ==
    LET x == orders[h[1]].obj IN
    /\ x # 0 /\ strategy[h[2]].pf = strategy[x].pf
    /\ session[strategy[h[2]].ses].client = session[strategy[x].ses].client
    /\ h[2] = x \/ ~strategy[x].live \/ \E y \in {x, h[2]} : IsExit(strategy[y].ses)

\* What was right stays right.
LEMMA HandledByStays ==
    ASSUME TypeOK, Kept, NEW h, h[1] \in DOMAIN orders, h[2] \in Strategies, HandledBy(h)
    PROVE  HandledBy(h)'
<1>1. PICK x, z : x = orders[h[1]].obj /\ z = h[2]
  OBVIOUS
<1>2. x # 0 /\ x \in Strategies /\ z \in Strategies /\ orders'[h[1]].obj = x
  BY <1>1, Referred, Zenon DEF HandledBy, Kept, OrderKept
<1>3. ASSUME NEW y \in Strategies
      PROVE  /\ strategy'[y].pf = strategy[y].pf /\ strategy'[y].ses = strategy[y].ses
             /\ session'[strategy[y].ses].client = session[strategy[y].ses].client
             /\ ~strategy[y].live => ~strategy'[y].live
             /\ session[strategy[y].ses].phase # "open" => session'[strategy[y].ses].phase # "open"
  <2>1. strategy[y].ses \in Sessions
    BY Referred, Zenon
  <2> QED
    BY <2>1, Zenon DEF Kept, StrategyKept, SameMaking, SessionKept
<1>4. /\ strategy'[z].pf = strategy'[x].pf
      /\ session'[strategy'[z].ses].client = session'[strategy'[x].ses].client
  BY <1>1, <1>2, <1>3, Zenon DEF HandledBy
<1>5. z = x \/ ~strategy'[x].live \/ \E y \in {x, z} : session'[strategy'[y].ses].phase # "open"
  BY <1>1, <1>2, <1>3, ZenonT(40) DEF HandledBy, IsExit
<1> QED
  BY <1>1, <1>2, <1>4, <1>5, Zenon DEF HandledBy, IsExit

LEMMA NotATag == ASSUME NEW c \in Client, NEW PF \in Portfolio PROVE Tag(c, PF) # 0
<1>1. Decode(Tag(c, PF)).MsgType = eORDER
  <2>1. Decode(Tag(c, PF)) = [MsgType |-> eORDER, CID |-> c, PFNum |-> PF]
    BY DecodeInvertsTag, Zenon
  <2> QED
    BY <2>1, SMT
<1>2. Decode(0).MsgType # eORDER
  BY SMT DEF Decode, DigitsDecode, eORDER
<1> QED
  BY <1>1, <1>2, Zenon

\* The sender of an order that an event thread takes for one of its portfolio.
LEMMA SenderOf ==
    ASSUME TypeOK, Addressed, NEW c \in Client, NEW o \in DOMAIN orders,
           orders[o].tag \in SubscribedTags(c), NEW d, d = Decode(orders[o].tag), d.MsgType = eORDER,
           NEW z, z = orders[o].obj
    PROVE  z \in Strategies /\ z # 0 /\ strategy[z].pf = d.PFNum /\ session[strategy[z].ses].client = c
<1>1. d.PFNum \in Portfolio /\ orders[o].tag = Tag(c, d.PFNum)
  BY DecodeSubscribed, Zenon
<1>2. z # 0
  <2>1. SUFFICES ASSUME orders[o].obj = 0 PROVE FALSE
    BY Zenon
  <2>2. PICK m \in Clients : orders[o].tag = Tag(m, Manual)
    BY <2>1, Zenon DEF Addressed
  <2>3. m \in Client
    BY <2>2, SessionAssumption, Zenon DEF SessionAssumption
  <2>4. Decode(Tag(m, Manual)).MsgType # eORDER
    BY <2>3, ManualOrdersUnknown, Zenon
  <2> QED
    BY <2>2, <2>4, Zenon
<1>3. orders[o].tag = AddressOf(strategy[z]) /\ z \in Strategies
  BY <1>2, Referred, Zenon DEF Addressed
<1>4. orders[o].tag # 0
  BY <1>1, NotATag, Zenon
<1>5. orders[o].tag = Tag(session[strategy[z].ses].client, strategy[z].pf)
  BY <1>3, <1>4, Zenon DEF AddressOf
<1>6. session[strategy[z].ses].client \in Client /\ strategy[z].pf \in Portfolio
  <2>1. strategy[z] \in StrategyRecords
    BY <1>3, Records, Zenon
  <2>2. strategy[z].pf \in Portfolio
    BY <2>1, SMT DEF StrategyRecords
  <2>3. session[strategy[z].ses].client \in Client
    BY <1>3, Referred, ClientTypes, Zenon
  <2> QED
    BY <2>2, <2>3, Zenon
<1>7. PICK m, PF : m = session[strategy[z].ses].client /\ PF = strategy[z].pf
  OBVIOUS
<1>8. m \in Client /\ PF \in Portfolio /\ Tag(c, d.PFNum) = Tag(m, PF)
  BY <1>1, <1>5, <1>6, <1>7, Zenon
<1>9. c = m /\ d.PFNum = PF
  BY <1>1, <1>8, TagsDiffer, SMT
<1> QED
  BY <1>2, <1>3, <1>7, <1>9, Zenon

\* The order of this session's event that is for a strategy it has goes to that strategy.
LEMMA HandledNow ==
    ASSUME Safe, Kept, Handled, Addressed, OneStrategy, NEW s \in Sessions, Eventsubscriber(s),
           NEW h \in heard'
    PROVE  HandledBy(h)' \/ h \in heard
<1>0. TypeOK /\ InboxTags
  BY Zenon DEF Safe
<1>1. PICK e : e = Head(session[s].inbox)
  OBVIOUS
<1>2. PICK d : d = Decode(orders[e.order].tag)
  OBVIOUS
<1>3. PICK found : found = Find(s, d.PFNum)
  OBVIOUS
<1>4. EventEffect(s, e, d, found)
  BY <1>0, <1>1, <1>2, <1>3, EventStep, Zenon
<1>5. CASE d.MsgType # eORDER
  BY <1>4, <1>5, Zenon DEF EventEffect
<1>6. CASE d.MsgType = eORDER
  <2>1. PICK x, st :
             /\ x \in Strategies'
             /\ \/ x \in found /\ st = strategy[x] /\ Strategies' = Strategies
                \/ /\ found = {} /\ x = Len(strategy) + 1
                   /\ Len(strategy') = Len(strategy) + 1
                   /\ st = NewStrategy(s, d.PFNum, "event", "zero")
             /\ strategy'[x] = After(st, e.order, e.kind)
             /\ GoodStrategy(st, Len(session), Len(orders))
             /\ heard' = heard \cup {<<e.order, x>>}
    BY <1>4, <1>6, Zenon DEF EventEffect
  <2>2. /\ session[s].inbox # <<>> /\ orders' = orders /\ PhasesKept
    BY <1>4, EventSafe, Zenon DEF EventEffect
  <2>3. PICK o, c, z : o = e.order /\ c = session[s].client /\ z = orders[e.order].obj
    OBVIOUS
  <2>4. o \in DOMAIN orders /\ orders[o].tag \in SubscribedTags(c)
    BY <1>0, <1>1, <2>2, <2>3, FirstEvent, Zenon
  <2>5. c \in Client
    BY <1>0, <2>3, ClientTypes, Zenon
  <2>6. z \in Strategies /\ z # 0 /\ strategy[z].pf = d.PFNum /\ session[strategy[z].ses].client = c
    <3>1. d = Decode(orders[o].tag) /\ z = orders[o].obj
      BY <1>2, <2>3, Zenon
    <3> QED
      BY <1>0, <1>6, <2>3, <2>4, <2>5, <3>1, SenderOf, SMT
  <2>7. st.ses = s /\ st.pf = d.PFNum
    <3>1. CASE x \in found /\ st = strategy[x]
      BY <1>3, <3>1, Zenon DEF Find
    <3>2. CASE st = NewStrategy(s, d.PFNum, "event", "zero")
      BY <3>2, SMT DEF NewStrategy
    <3> QED
      BY <2>1, <3>1, <3>2, Zenon
  <2>8. strategy'[x].ses = s /\ strategy'[x].pf = d.PFNum
    <3>1. st \in StrategyRecords
      BY <2>1, Zenon DEF GoodStrategy
    <3>2. SameMaking(strategy'[x], st)
      <4>1. PICK q : q = strategy'[x]
        OBVIOUS
      <4>2. q = After(st, e.order, e.kind)
        BY <2>1, <4>1, Zenon
      <4>3. SameMaking(q, st)
        BY <3>1, <4>2, AfterFields
      <4> QED
        BY <4>1, <4>3, Zenon
    <3> QED
      BY <2>7, <3>2, Zenon DEF SameMaking
  <2>9. /\ strategy'[z].pf = d.PFNum /\ strategy'[z].ses = strategy[z].ses
        /\ strategy'[z].live => strategy[z].live
    BY <2>6, Zenon DEF Kept, StrategyKept, SameMaking
  <2>10. strategy[z].ses \in Sessions
    BY <1>0, <2>6, Referred, Zenon
  <2>11. session'[s].client = c /\ session'[strategy[z].ses].client = c
    BY <2>3, <2>6, <2>10, Zenon DEF Kept, SessionKept
  <2>12. x = z \/ ~strategy'[z].live \/ session'[s].phase # "open" \/ session'[strategy[z].ses].phase # "open"
    <3>1. SUFFICES ASSUME strategy'[z].live, session'[s].phase = "open",
                          session'[strategy[z].ses].phase = "open"
                   PROVE  x = z
      BY Zenon
    <3>2. session[s].phase # "erased" /\ session[strategy[z].ses].phase # "erased"
      <4>1. session[s].phase = "open" /\ session[strategy[z].ses].phase = "open"
        BY <2>2, <2>10, <3>1, Zenon DEF PhasesKept
      <4>2. "open" # "erased"
        OBVIOUS
      <4> QED
        BY <4>1, <4>2, Zenon
    <3>3. strategy[z].ses = s
      <4>1. StgMap[c] = s
        BY <2>3, <3>2, Zenon DEF Handled
      <4>2. StgMap[session[strategy[z].ses].client] = strategy[z].ses
        BY <2>10, <3>2, Zenon DEF Handled
      <4> QED
        BY <2>6, <4>1, <4>2, Zenon
    <3>4. z \in found
      BY <1>3, <2>6, <2>9, <3>1, <3>3, Zenon DEF Find
    <3>5. x \in found
      BY <2>1, <3>4, Zenon
    <3> QED
      BY <1>3, <3>4, <3>5, Zenon DEF Find, OneStrategy
  <2>13. ASSUME NEW g, g[1] = o, g[2] = x PROVE HandledBy(g)'
    <3>1. \/ g[2] = z \/ ~strategy'[z].live
          \/ \E y \in {z, g[2]} : session'[strategy'[y].ses].phase # "open"
      BY <2>8, <2>9, <2>12, <2>13, Zenon
    <3> QED
      BY <2>2, <2>3, <2>6, <2>8, <2>9, <2>11, <2>13, <3>1, ZenonT(40) DEF HandledBy, IsExit
  <2>14. h \in heard \/ h = <<o, x>>
    BY <2>1, <2>3, Zenon
  <2>15. \A g : g = <<o, x>> => g[1] = o /\ g[2] = x
    BY SMT
  <2> QED
    BY <2>13, <2>14, <2>15, Zenon
<1> QED
  BY <1>5, <1>6, Zenon

AllHandled == \A h \in heard : HandledBy(h)

LEMMA AllHandledKept ==
    ASSUME Safe, Handled, Addressed, OneStrategy, AllHandled, [Next]_vars
    PROVE  AllHandled'
<1>0. TypeOK /\ Kept
  BY NextSafe, Zenon DEF Safe
<1>1. ASSUME NEW h \in heard PROVE HandledBy(h)'
  <2>1. heard \subseteq (DOMAIN orders) \X Strategies
    BY <1>0, TypeSplit, Zenon DEF HistoryTypes
  <2>2. h[1] \in DOMAIN orders /\ h[2] \in Strategies
    BY <2>1, SMT
  <2> QED
    BY <1>0, <2>2, HandledByStays, Zenon DEF AllHandled
<1>2. heard' = heard \/ \E s \in Sessions : Eventsubscriber(s)
  <2>1. ASSUME NEW c \in Clients, Requests(c) PROVE heard' = heard
    BY <2>1, Zenon DEF Requests, Login, Dispose, HandleOnFOPairSubscription, HandleOnFOPairUnSubscription,
       HandleOnFOPairDiff, ManualOrderEntry, ManualOrder_Mod_CNclEntry, history
  <2>2. ASSUME NEW s \in Sessions, Disposal(s) \/ DataThread(s) PROVE heard' = heard
    BY <2>2, Zenon DEF Disposal, DataThread, StopAllOrder, EraseAll, Datasubscriber, Look, Send,
       CallErased, history
  <2>3. ASSUME NEW o \in DOMAIN orders, Exchange(o) PROVE heard' = heard
    BY <2>3, Zenon DEF Exchange, Accept, Fill, Withdraw, Refuse, Moves, history
  <2>4. ASSUME LoadSettings \/ LoadContract \/ UNCHANGED vars PROVE heard' = heard
    BY <2>4, Zenon DEF LoadSettings, LoadContract, vars, history
  <2> QED
    BY <2>1, <2>2, <2>3, <2>4, Zenon DEF Next, Step
<1> QED
  BY <1>0, <1>1, <1>2, HandledNow, Zenon DEF AllHandled

-----------------------------------------------------------------------------
(* No confirmation is lost.                                                  *)

Confirmed(o) == [order |-> o, kind |-> "confirmed"]

\* The confirmation of order o is still to come, on its way, or its sender heard of it.
NotLost(o, s) ==
    \/ orders[o].state = "sent" \/ <<o, orders[o].obj>> \in heard
    \/ \E i \in DOMAIN session[s].inbox : session[s].inbox[i] = Confirmed(o)

NoneLost ==
    \A o \in DOMAIN orders :
        LET x == orders[o].obj IN
        x # 0 /\ strategy[x].live /\ strategy[x].by = "sub" /\ ~IsExit(strategy[x].ses) =>
            NotLost(o, strategy[x].ses)

\* Only the exchange and the event threads change the inboxes, and nothing is forgotten.
LEMMA InboxSteps ==
    ASSUME Safe, [Next]_vars
    PROVE  \/ InboxesKept /\ UNCHANGED <<heard, known>>
           \/ \E s \in Sessions : Eventsubscriber(s)
           \/ \E o \in DOMAIN orders : Exchange(o)
<1>1. ASSUME NEW c \in Clients, Requests(c) PROVE InboxesKept /\ UNCHANGED <<heard, known>>
  <2>1. UNCHANGED <<heard, known>>
    BY <1>1, Zenon DEF Requests, Login, Dispose, HandleOnFOPairSubscription, HandleOnFOPairUnSubscription,
       HandleOnFOPairDiff, ManualOrderEntry, ManualOrder_Mod_CNclEntry, history
  <2>2. InboxesKept
    BY <1>1, LoginSafe, DisposeSafe, SubscriptionSafe, UnSubscriptionSafe, DiffSafe, PacketTypes,
       ManualOrderSafe, ManualChangeSafe, Zenon DEF Requests
  <2> QED
    BY <2>1, <2>2, Zenon
<1>2. ASSUME NEW s \in Sessions, Disposal(s) \/ DataThread(s) PROVE InboxesKept /\ UNCHANGED <<heard, known>>
  <2>1. UNCHANGED <<heard, known>>
    BY <1>2, Zenon DEF Disposal, DataThread, StopAllOrder, EraseAll, Datasubscriber, Look, Send,
       CallErased, history
  <2>2. InboxesKept
    BY <1>2, StopAllOrderSafe, EraseAllSafe, DatasubscriberSafe, LookSafe, SendSafe, CallErasedSafe, Zenon
       DEF Disposal, DataThread
  <2> QED
    BY <2>1, <2>2, Zenon
<1>3. ASSUME LoadSettings \/ LoadContract \/ UNCHANGED vars PROVE InboxesKept /\ UNCHANGED <<heard, known>>
  BY <1>3, MainSafe, Zenon DEF LoadSettings, LoadContract, vars, history
<1> QED
  BY <1>1, <1>2, <1>3, Zenon DEF Next, Step

\* An order that must not be lost was not lost before the step, or is new.
LEMMA LostBefore ==
    ASSUME TypeOK, Kept, NoneLost, NEW o \in DOMAIN orders, NEW x, x = orders[o].obj, x # 0,
           strategy'[x].live, strategy'[x].by = "sub", session'[strategy'[x].ses].phase = "open"
    PROVE  /\ x \in Strategies /\ strategy[x].live /\ strategy[x].by = "sub"
           /\ strategy'[x].ses = strategy[x].ses /\ strategy[x].ses \in Sessions
           /\ session[strategy[x].ses].phase = "open" /\ NotLost(o, strategy[x].ses)
<1>1. x \in Strategies
  BY Referred, Zenon
<1>2. /\ strategy[x].live /\ strategy[x].by = "sub" /\ strategy'[x].ses = strategy[x].ses
  BY <1>1, Zenon DEF Kept, StrategyKept, SameMaking
<1>3. strategy[x].ses \in Sessions
  BY <1>1, Referred, Zenon
<1>4. session[strategy[x].ses].phase = "open"
  BY <1>2, <1>3, Zenon DEF Kept, SessionKept
<1> QED
  BY <1>1, <1>2, <1>3, <1>4, Zenon DEF NoneLost, IsExit

\* A step that touches neither inboxes nor the states of orders.
LEMMA LostQuiet ==
    ASSUME Safe, NoneLost, [Next]_vars, InboxesKept, heard' = heard,
           ~ \E o \in DOMAIN orders : Exchange(o)
    PROVE  NoneLost'
<1>0. TypeOK /\ Kept
  BY NextSafe, Zenon DEF Safe
<1>1. SUFFICES ASSUME NEW o \in DOMAIN orders', NEW x, x = orders'[o].obj, x # 0,
                      strategy'[x].live, strategy'[x].by = "sub", session'[strategy'[x].ses].phase = "open"
               PROVE  NotLost(o, strategy[x].ses)'
  BY Zenon DEF NoneLost, IsExit
<1>2. (o \in DOMAIN orders /\ orders'[o] = orders[o]) \/ orders'[o].state = "sent"
  BY NewOrders, Zenon DEF OrderFrom
<1>3. CASE orders'[o].state = "sent"
  BY <1>3, Zenon DEF NotLost
<1>4. CASE o \in DOMAIN orders /\ orders'[o] = orders[o]
  <2>1. /\ strategy'[x].ses = strategy[x].ses /\ strategy[x].ses \in Sessions /\ NotLost(o, strategy[x].ses)
    BY <1>0, <1>1, <1>4, LostBefore, Zenon
  <2>2. session'[strategy[x].ses].inbox = session[strategy[x].ses].inbox
    BY <2>1, Zenon DEF InboxesKept
  <2> QED
    BY <1>4, <2>1, <2>2, Zenon DEF NotLost
<1> QED
  BY <1>2, <1>3, <1>4, Zenon

\* The event thread: a strategy that is the one found for an event has heard of it.
LEMMA EventIsHeard ==
    ASSUME NEW s \in Sessions, Eventsubscriber(s), NEW o, NEW d, NEW x,
           o = Head(session[s].inbox).order, d = Decode(orders[o].tag), d.MsgType = eORDER,
           x \in Find(s, d.PFNum), \A y \in Find(s, d.PFNum) : y = x
    PROVE  <<o, x>> \in heard'
<1>1. PICK found, z : /\ found = Find(s, d.PFNum)
                      /\ z = IF found = {} THEN Len(strategy) + 1 ELSE CHOOSE y \in found : TRUE
  OBVIOUS
<1>2. z = x
  BY <1>1, Zenon
<1>3. heard' = heard \cup {<<o, z>>}
  BY <1>1, Zenon DEF Eventsubscriber
<1> QED
  BY <1>2, <1>3, Zenon

LEMMA HeardGrows == ASSUME NEW s \in Sessions, Eventsubscriber(s) PROVE heard \subseteq heard'
  BY Zenon DEF Eventsubscriber

LEMMA AppendedLast ==
    ASSUME NEW q \in Seq(Events), NEW e \in Events, NEW n, n = Append(q, e)
    PROVE  /\ \A i \in DOMAIN q : i \in DOMAIN n /\ n[i] = q[i]
           /\ \E i \in DOMAIN n : n[i] = e
<1>1. /\ \A i \in DOMAIN q : i \in DOMAIN n /\ n[i] = q[i]
      /\ Len(q) + 1 \in DOMAIN n /\ n[Len(q) + 1] = e
  BY SMT
<1> QED
  BY <1>1, Zenon

LEMMA ConfirmedEvent ==
    ASSUME TypeOK, NEW o \in DOMAIN orders
    PROVE  Confirmed(o) \in Events /\ Confirmed(o).order = o /\ Confirmed(o).kind = "confirmed"
<1>1. o \in Nat
  BY Lengths, SMT
<1> QED
  BY <1>1, SMT DEF Confirmed, Events

\* The tag of a strategy's order is one of those its session subscribed to, and is decoded to
\* its portfolio.
LEMMA TagHeard ==
    ASSUME TypeOK, Addressed, NEW o \in DOMAIN orders, NEW x, x = orders[o].obj, x # 0,
           strategy[x].by = "sub"
    PROVE  /\ orders[o].tag \in SubscribedTags(session[strategy[x].ses].client)
           /\ Decode(orders[o].tag).MsgType = eORDER /\ Decode(orders[o].tag).PFNum = strategy[x].pf
<1>1. PICK c, PF : c = session[strategy[x].ses].client /\ PF = strategy[x].pf
  OBVIOUS
<1>2. orders[o].tag = Tag(c, PF)
  BY <1>1, Zenon DEF Addressed, AddressOf
<1>3. x \in Strategies
  BY Referred, Zenon
<1>4. c \in Client
  BY <1>1, <1>3, Referred, ClientTypes, Zenon
<1>5. PF \in Portfolio
  <2>1. strategy[x] \in StrategyRecords
    BY <1>3, Records, Zenon
  <2> QED
    BY <1>1, <2>1, SMT DEF StrategyRecords
<1>6. Decode(Tag(c, PF)).MsgType = eORDER /\ Decode(Tag(c, PF)).PFNum = PF
  <2>1. Decode(Tag(c, PF)) = [MsgType |-> eORDER, CID |-> c, PFNum |-> PF]
    BY <1>4, <1>5, DecodeInvertsTag, Zenon
  <2> QED
    BY <2>1, SMT
<1>7. Tag(c, PF) \in SubscribedTags(c)
  BY <1>5, Zenon DEF SubscribedTags
<1> QED
  BY <1>1, <1>2, <1>6, <1>7, Zenon

\* A step of the exchange: the confirmation of an order goes into the inbox of its sender.
LEMMA LostMoves ==
    ASSUME Safe, NoneLost, Addressed, Listening, NEW w \in DOMAIN orders, NEW from,
           NEW to \in {"working", "done"}, NEW kind \in {"confirmed", "traded", "cancelled", "refused"},
           from = "sent" => kind = "confirmed", Moves(w, from, to, kind), asked' \subseteq asked
    PROVE  NoneLost'
<1>0. TypeOK /\ Kept
  BY MovesSafe, Zenon DEF Safe
<1>1. /\ strategy' = strategy /\ Len(orders') = Len(orders)
      /\ \A i \in DOMAIN orders : orders'[i] =
           IF i = w THEN [orders[w] EXCEPT !.state = to] ELSE orders[i]
      /\ \A j \in Sessions : session'[j] =
           IF session[j].listens /\ orders[w].tag \in SubscribedTags(session[j].client)
           THEN [session[j] EXCEPT !.inbox = Append(session[j].inbox, [order |-> w, kind |-> kind])]
           ELSE session[j]
  <2>1. MovesEffect(w, to, kind)
    BY <1>0, MovesStep
  <2> QED
    BY <2>1, Zenon DEF MovesEffect
<1>2. heard' = heard /\ orders[w].state = from
  BY Zenon DEF Moves, history
<1>3. DOMAIN orders' = DOMAIN orders
  <2>1. TypeOK'
    BY MovesSafe, Zenon DEF Safe
  <2> QED
    BY <1>0, <1>1, <2>1, NextLengths, Lengths, Zenon
<1>4. SUFFICES ASSUME NEW o \in DOMAIN orders, NEW x, x = orders'[o].obj, x # 0,
                      strategy'[x].live, strategy'[x].by = "sub", session'[strategy'[x].ses].phase = "open"
               PROVE  NotLost(o, strategy[x].ses)'
  BY <1>3, Zenon DEF NoneLost, IsExit
<1>5. x = orders[o].obj
  BY <1>0, <1>4, Zenon DEF Kept, OrderKept
<1>6. PICK s : s = strategy[x].ses
  OBVIOUS
<1>7. /\ strategy[x].by = "sub" /\ strategy'[x].ses = s /\ s \in Sessions
      /\ session[s].phase = "open" /\ NotLost(o, s)
  BY <1>0, <1>4, <1>5, <1>6, LostBefore, Zenon
<1>8. PICK q, n, e : q = session[s].inbox /\ n = session'[s].inbox /\ e = [order |-> w, kind |-> kind]
  OBVIOUS
<1>9. /\ q \in Seq(Events)
      /\ e \in Events
  <2>1. q \in Seq(Events)
    BY <1>0, <1>7, <1>8, TypeSplit, SessionFields, Zenon DEF SessionsGood
  <2>2. w \in Nat
    BY <1>0, Lengths, SMT
  <2> QED
    BY <1>8, <2>1, <2>2, SMT DEF Events
<1>10. \/ n = q
       \/ n = Append(q, e)
  <2>1. CASE session'[s] = session[s]
    BY <1>8, <2>1, Zenon
  <2>2. CASE session'[s] = [session[s] EXCEPT !.inbox = Append(q, e)]
    BY <1>0, <1>7, <1>8, <2>2, Records, InboxFields
  <2> QED
    BY <1>1, <1>7, <1>8, <2>1, <2>2, Zenon
<1>11. CASE <<o, orders[o].obj>> \in heard
  BY <1>2, <1>4, <1>5, <1>11, Zenon DEF NotLost
<1>12. CASE \E i \in DOMAIN q : q[i] = Confirmed(o)
  <2>1. \E i \in DOMAIN n : n[i] = Confirmed(o)
    <3>1. CASE n = q
      BY <1>12, <3>1, Zenon
    <3>2. CASE n = Append(q, e)
      <4>1. \A i \in DOMAIN q : i \in DOMAIN n /\ n[i] = q[i]
        BY <1>9, <3>2, AppendedLast
      <4> QED
        BY <1>12, <4>1, Zenon
    <3> QED
      BY <1>10, <3>1, <3>2, Zenon
  <2> QED
    BY <1>7, <1>8, <2>1, Zenon DEF NotLost
<1>13. CASE orders[o].state = "sent" /\ o # w
  BY <1>1, <1>13, Zenon DEF NotLost
<1>14. CASE orders[o].state = "sent" /\ o = w
  <2>1. kind = "confirmed" /\ e = Confirmed(o)
    BY <1>2, <1>8, <1>14, Zenon DEF Confirmed
  <2>2. session[s].listens
    BY <1>7, Zenon DEF Listening, IsExit
  <2>3. orders[o].tag \in SubscribedTags(session[s].client)
    BY <1>0, <1>4, <1>5, <1>6, <1>7, TagHeard, Zenon
  <2>4. session'[s] = [session[s] EXCEPT !.inbox = Append(q, e)]
    BY <1>1, <1>7, <1>8, <1>14, <2>2, <2>3, Zenon
  <2>5. n = Append(q, e)
    BY <1>0, <1>7, <1>8, <2>4, Records, InboxFields
  <2>6. \E i \in DOMAIN n : n[i] = Confirmed(o)
    <3>1. \E i \in DOMAIN n : n[i] = e
      BY <1>9, <2>5, AppendedLast
    <3> QED
      BY <2>1, <3>1, Zenon
  <2> QED
    BY <1>7, <1>8, <2>6, Zenon DEF NotLost
<1> QED
  BY <1>7, <1>8, <1>11, <1>12, <1>13, <1>14, Zenon DEF NotLost

LEMMA LostExchange ==
    ASSUME Safe, NoneLost, Addressed, Listening, NEW w \in DOMAIN orders, Exchange(w)
    PROVE  NoneLost'
<1>1. ASSUME NEW from, NEW to \in {"working", "done"},
             NEW kind \in {"confirmed", "traded", "cancelled", "refused"},
             from = "sent" => kind = "confirmed", Moves(w, from, to, kind), asked' \subseteq asked
      PROVE  NoneLost'
  BY <1>1, LostMoves
<1>2. "working" # "sent" /\ "done" # "sent"
  OBVIOUS
<1>3. CASE Accept(w)
  BY <1>1, <1>3, Zenon DEF Accept
<1>4. CASE Fill(w)
  BY <1>1, <1>2, <1>4, Zenon DEF Fill
<1>5. CASE Withdraw(w)
  BY <1>1, <1>2, <1>5, Zenon DEF Withdraw
<1>6. CASE Refuse(w)
  BY <1>1, <1>2, <1>6, Zenon DEF Refuse
<1> QED
  BY <1>3, <1>4, <1>5, <1>6, Zenon DEF Exchange

\* The event thread: the first event of its inbox goes to the strategy it is for.
LEMMA LostEvent ==
    ASSUME Safe, NoneLost, Addressed, OneStrategy, NEW s \in Sessions, Eventsubscriber(s)
    PROVE  NoneLost'
<1>0. TypeOK /\ InboxTags /\ Kept
  BY EventSafe, Zenon DEF Safe
<1>1. PICK e : e = Head(session[s].inbox)
  OBVIOUS
<1>2. PICK d : d = Decode(orders[e.order].tag)
  OBVIOUS
<1>3. /\ orders' = orders /\ session[s].inbox # <<>>
      /\ \A j \in Sessions : session'[j] = IF j = s THEN Heard(session[s], d) ELSE session[j]
  <2>1. EventEffect(s, e, d, Find(s, d.PFNum))
    BY <1>0, <1>1, <1>2, EventStep, Zenon
  <2> QED
    BY <2>1, Zenon DEF EventEffect
<1>4. SUFFICES ASSUME NEW o \in DOMAIN orders, NEW x, x = orders[o].obj, x # 0,
                      strategy'[x].live, strategy'[x].by = "sub", session'[strategy'[x].ses].phase = "open"
               PROVE  NotLost(o, strategy[x].ses)'
  BY <1>3, Zenon DEF NoneLost, IsExit
<1>5. PICK j : j = strategy[x].ses
  OBVIOUS
<1>6. /\ x \in Strategies /\ strategy[x].live /\ strategy[x].by = "sub"
      /\ strategy'[x].ses = j /\ j \in Sessions /\ session[j].phase = "open" /\ NotLost(o, j)
  BY <1>0, <1>4, <1>5, LostBefore, Zenon
<1>7. CASE orders[o].state = "sent" \/ <<o, orders[o].obj>> \in heard
  BY <1>3, <1>7, HeardGrows, Zenon DEF NotLost
<1>8. ASSUME NEW i \in DOMAIN session[j].inbox, session[j].inbox[i] = Confirmed(o), j # s
      PROVE  NotLost(o, strategy[x].ses)'
  <2>1. session'[j].inbox = session[j].inbox
    BY <1>3, <1>6, <1>8, Zenon
  <2> QED
    BY <1>6, <1>8, <2>1, Zenon DEF NotLost
<1>9. ASSUME NEW i \in DOMAIN session[j].inbox, session[j].inbox[i] = Confirmed(o), j = s
      PROVE  NotLost(o, strategy[x].ses)'
  <2>1. PICK q, n : q = session[s].inbox /\ n = session'[s].inbox
    OBVIOUS
  <2>2. q \in Seq(Events) /\ q # <<>> /\ i \in DOMAIN q /\ q[i] = Confirmed(o)
    BY <1>0, <1>3, <1>9, <2>1, TypeSplit, SessionFields, Zenon DEF SessionsGood
  <2>3. n = Tail(q)
    <3>1. session'[s] = Heard(session[s], d) /\ session[s] \in SessionRecords /\ session[s].phase = "open"
      BY <1>0, <1>3, <1>6, <1>9, Records, Zenon
    <3> QED
      BY <2>1, <3>1, HeardFields
  <2>4. i = 1 \/ \E k \in DOMAIN n : n[k] = q[i]
    <3>1. i = 1 \/ (i - 1 \in DOMAIN Tail(q) /\ Tail(q)[i - 1] = q[i])
      BY <2>2, HeadTailProperties, SMT
    <3> QED
      BY <2>3, <3>1, Zenon
  <2>5. CASE \E k \in DOMAIN n : n[k] = q[i]
    BY <1>6, <1>9, <2>1, <2>2, <2>5, Zenon DEF NotLost
  <2>6. CASE i = 1
    <3>1. e = Confirmed(o)
      BY <1>1, <2>1, <2>2, <2>6, SMT
    <3>2. e.order = o /\ e.kind = "confirmed"
      BY <1>0, <3>1, ConfirmedEvent, Zenon
    <3>3. d.MsgType = eORDER /\ d.PFNum = strategy[x].pf
      BY <1>0, <1>2, <1>4, <1>6, <3>2, TagHeard, Zenon
    <3>4. x \in Find(s, d.PFNum) /\ \A y \in Find(s, d.PFNum) : y = x
      BY <1>5, <1>6, <1>9, <3>3, Zenon DEF Find, OneStrategy
    <3>5. o = Head(session[s].inbox).order /\ d = Decode(orders[o].tag)
      BY <1>1, <1>2, <3>2, Zenon
    <3>6. <<o, x>> \in heard'
      BY <3>3, <3>4, <3>5, EventIsHeard
    <3> QED
      BY <1>3, <1>4, <3>6, Zenon DEF NotLost
  <2> QED
    BY <2>4, <2>5, <2>6, Zenon
<1> QED
  BY <1>6, <1>7, <1>8, <1>9, Zenon DEF NotLost

\* What EventsReachTheirSender rests on.
SenderInv == Handled /\ Addressed /\ OneStrategy /\ Listening /\ AllHandled /\ NoneLost

LEMMA SenderInvKept == Safe /\ SenderInv /\ [Next]_vars => SenderInv'
<1> SUFFICES ASSUME Safe, SenderInv, [Next]_vars PROVE SenderInv'
  OBVIOUS
<1>0. Handled /\ Addressed /\ OneStrategy /\ Listening /\ AllHandled /\ NoneLost /\ Kept
  BY NextSafe, Zenon DEF SenderInv
<1>1. Handled' /\ Addressed' /\ OneStrategy' /\ Listening'
  BY <1>0, HandledKept, AddressedKept, OneStrategyKept, ListeningKept, Zenon
<1>2. AllHandled'
  BY <1>0, AllHandledKept, Zenon
<1>3. NoneLost'
  BY <1>0, InboxSteps, LostQuiet, LostExchange, LostEvent, Zenon
<1> QED
  BY <1>1, <1>2, <1>3, Zenon DEF SenderInv

LEMMA SenderInvInit == Init => SenderInv
<1> SUFFICES ASSUME Init PROVE SenderInv
  OBVIOUS
<1>1. heard = {}
  BY Zenon DEF Init
<1> QED
  BY <1>1, NoStrategies, HandledInit, Zenon DEF SenderInv, Addressed, OneStrategy, Listening, AllHandled, NoneLost

\* ClientSession: an event is handled by a strategy of the client and portfolio that sent the
\* order, by the sender itself unless it was erased or a session ended, and while the
\* sender's session runs no confirmation is lost on the way (Tag, Eventsubscriber).
THEOREM EventsFindSender == Spec => []EventsReachTheirSender
<1>1. SenderInv => EventsReachTheirSender
  BY Zenon DEF SenderInv, AllHandled, NoneLost, HandledBy, NotLost, Confirmed, EventsReachTheirSender
<1> QED
  BY <1>1, SenderInvInit, SenderInvKept, AlwaysSafe, PTL DEF Spec

-----------------------------------------------------------------------------
(* A strategy is called once.                                                *)

\* The connections D of a session to strategy x, whose record is st: none before its first
\* subscription, those of its legs while there was one, none after it was erased then.
Connected(D, st, x) ==
    /\ st.gen = 0 => {d \in D : d.obj = x} = {}
    /\ st.gen = 1 => {d \in D : d.obj = x} = IF st.live THEN Connections(x, 1, st.pack) ELSE {}

\* A session that runs is connected to strategies of its own only, and to each as it must be.
CallInv ==
    \A s \in Sessions : session[s].phase = "open" =>
        /\ \A d \in session[s].DataPack : strategy[d.obj].ses = s
        /\ \A x \in Strategies : strategy[x].ses = s => Connected(session[s].DataPack, strategy[x], x)

(* What most steps do not change. *)
PacksKept ==
    \A s \in Sessions' : session'[s].phase = "open" =>
        \/ s \in Sessions /\ session'[s].DataPack = session[s].DataPack
        \/ s \notin Sessions /\ session'[s].DataPack = {}
LivesKept ==
    \A x \in Strategies : session'[strategy[x].ses].phase = "open" => strategy'[x].live = strategy[x].live

LEMMA CallsKept ==
    ASSUME Safe, Kept, LegsKept, PacksKept, LivesKept, CallInv
    PROVE  CallInv'
<1>1. SUFFICES ASSUME NEW s \in Sessions', session'[s].phase = "open"
               PROVE  /\ \A d \in session'[s].DataPack : strategy'[d.obj].ses = s
                      /\ \A x \in Strategies' : strategy'[x].ses = s =>
                           Connected(session'[s].DataPack, strategy'[x], x)
  BY Zenon DEF CallInv
<1>2. CASE s \in Sessions /\ session'[s].DataPack = session[s].DataPack
  <2>1. PICK D : D = session[s].DataPack
    OBVIOUS
  <2>2. session[s].phase = "open"
    BY <1>1, <1>2, Zenon DEF Kept, SessionKept
  <2>3. \A d \in D : d.obj \in Strategies /\ strategy[d.obj].ses = s
    BY <1>2, <2>1, <2>2, Referred, Zenon DEF CallInv, Safe
  <2>4. ASSUME NEW x \in Strategies', strategy'[x].ses = s
        PROVE  Connected(D, strategy'[x], x)
    <3>1. CASE x \notin Strategies /\ strategy'[x].gen = 0
      <4>1. {d \in D : d.obj = x} = {}
        BY <2>3, <3>1, Zenon
      <4>2. strategy'[x].gen # 1
        BY <3>1, SMT
      <4> QED
        BY <4>1, <4>2, Zenon DEF Connected
    <3>2. CASE /\ x \in Strategies /\ strategy'[x].pack = strategy[x].pack
               /\ strategy'[x].gen = strategy[x].gen
      <4>1. strategy[x].ses = s
        BY <2>4, <3>2, Zenon DEF Kept, StrategyKept, SameMaking
      <4>2. strategy'[x].live = strategy[x].live
        BY <1>1, <3>2, <4>1, Zenon DEF LivesKept
      <4>3. Connected(D, strategy[x], x)
        BY <1>2, <2>1, <2>2, <3>2, <4>1, Zenon DEF CallInv
      <4> QED
        BY <3>2, <4>2, <4>3, Zenon DEF Connected
    <3> QED
      BY <3>1, <3>2, Zenon DEF LegsKept
  <2> QED
    BY <1>2, <2>1, <2>3, <2>4, Zenon DEF Kept, StrategyKept, SameMaking
<1>3. CASE s \notin Sessions /\ session'[s].DataPack = {}
  <2>1. ASSUME NEW x \in Strategies', strategy'[x].ses = s
        PROVE  Connected({}, strategy'[x], x)
    <3>1. x \notin Strategies
      BY <1>3, <2>1, Referred, Zenon DEF Kept, StrategyKept, SameMaking, Safe
    <3>2. strategy'[x].gen = 0
      BY <2>1, <3>1, Zenon DEF LegsKept
    <3> QED
      BY <3>2, SMT DEF Connected
  <2> QED
    BY <1>3, <2>1, Zenon
<1> QED
  BY <1>1, <1>2, <1>3, Zenon DEF PacksKept

LEMMA PacksSame ==
    ASSUME Sessions' = Sessions, \A j \in Sessions : session'[j].DataPack = session[j].DataPack
    PROVE  PacksKept
  BY Zenon DEF PacksKept

LEMMA SessionsSame ==
    ASSUME Len(session') = Len(session)
    PROVE  Sessions' = Sessions
  BY Zenon DEF Sessions

LEMMA SameCalls ==
    session' = session /\ strategy' = strategy => PacksKept /\ LivesKept
  BY Zenon DEF PacksKept, LivesKept, Sessions

LEMMA LoginCalls ==
    ASSUME Safe, NEW c \in Clients, Login(c)
    PROVE  LegsKept /\ PacksKept /\ LivesKept
<1>0. TypeOK
  BY Zenon DEF Safe
<1>1. LegsKept /\ strategy' = strategy
  BY LoginSafe, Zenon DEF Login
<1>2. LivesKept
  BY <1>1, Zenon DEF LivesKept
<1>3. CASE ~IniMap
  <2>1. session' = session
    BY <1>3, Zenon DEF Login
  <2> QED
    BY <1>1, <2>1, SameCalls, Zenon
<1>4. CASE IniMap
  <2>1. /\ Len(session') = Len(session) + 1
        /\ \A j \in Sessions : session'[j] = session[j]
        /\ session'[Len(session) + 1] = NewSession(c, cimlist')
    BY <1>0, <1>4, LoginStep, Zenon
  <2>2. \A j \in Sessions' : j \in Sessions \/ (j \notin Sessions /\ j = Len(session) + 1)
    BY <1>0, <2>1, Lengths, SMT DEF Sessions
  <2>3. session'[Len(session) + 1].DataPack = {}
    <3>1. NewSession(c, cimlist').DataPack = {}
      BY SMT DEF NewSession
    <3> QED
      BY <2>1, <3>1, Zenon
  <2>4. PacksKept
    BY <2>1, <2>2, <2>3, Zenon DEF PacksKept
  <2> QED
    BY <1>1, <1>2, <2>4, Zenon
<1> QED
  BY <1>3, <1>4, Zenon

LEMMA DisposeCalls ==
    ASSUME Safe, NEW c \in Clients, Dispose(c)
    PROVE  LegsKept /\ PacksKept /\ LivesKept
<1>0. TypeOK
  BY Zenon DEF Safe
<1>1. /\ Len(session') = Len(session)
      /\ \A j \in Sessions : session'[j] = IF j = StgMap[c] THEN [session[j] EXCEPT !.phase = "exiting"]
                                           ELSE session[j]
  BY <1>0, DisposeStep, Zenon
<1>2. \A j \in Sessions : session'[j].DataPack = session[j].DataPack
  <2>1. ASSUME NEW j \in Sessions, session'[j] = [session[j] EXCEPT !.phase = "exiting"]
        PROVE  session'[j].DataPack = session[j].DataPack
    BY <1>0, <2>1, Records, PhaseFields
  <2> QED
    BY <1>1, <2>1, Zenon
<1>3. strategy' = strategy
  BY Zenon DEF Dispose
<1> QED
  BY <1>1, <1>2, <1>3, DisposeSafe, PacksSame, SessionsSame, Zenon DEF LivesKept

LEMMA DiffCalls ==
    ASSUME Safe, NEW c \in Clients, NEW p \in Packets, HandleOnFOPairDiff(c, p)
    PROVE  LegsKept /\ PacksKept /\ LivesKept
<1>0. TypeOK
  BY Zenon DEF Safe
<1>1. PICK found : found = Find(StgMap[c], p.PORTFOLIONAME)
  OBVIOUS
<1>2. session' = session
  BY <1>0, DiffStep
<1>3. \/ \A y \in Strategies : strategy'[y] = strategy[y]
      \/ \A y \in Strategies : strategy'[y] =
           [strategy[y] EXCEPT !.quotes = strategy[y].quotes \/ y \in found]
  BY <1>0, <1>1, DiffStep, SMTT(40)
<1>4. ASSUME NEW y \in Strategies, NEW b, strategy'[y] = [strategy[y] EXCEPT !.quotes = b]
      PROVE  strategy'[y].live = strategy[y].live
  BY <1>0, <1>4, Records, FlagFields
<1>5. \A y \in Strategies : strategy'[y].live = strategy[y].live
  BY <1>3, <1>4, Zenon
<1>6. PacksKept
  BY <1>2, Zenon DEF PacksKept, Sessions
<1> QED
  BY <1>5, <1>6, DiffSafe, Zenon DEF LivesKept

LEMMA ManualCalls ==
    ASSUME Safe, NEW c \in Clients, NEW token \in AllTokens, ManualOrderEntry(c, token)
    PROVE  LegsKept /\ PacksKept /\ LivesKept
<1>0. TypeOK
  BY Zenon DEF Safe
<1>1. PICK s : s = StgMap[c]
  OBVIOUS
<1>2. strategy' = strategy /\ Len(session') = Len(session)
  BY <1>0, <1>1, ManualOrderStep
<1>3. PICK D \in Dictionaries : OnlySession(s, [session[s] EXCEPT !.SymbolDictionary = D])
  BY <1>0, <1>1, ManualOrderStep, Zenon
<1>4. \A j \in Sessions : session'[j].DataPack = session[j].DataPack
  <2>1. ASSUME NEW j \in Sessions, session'[j] = [session[j] EXCEPT !.SymbolDictionary = D]
        PROVE  session'[j].DataPack = session[j].DataPack
    BY <1>0, <2>1, Records, DictionaryFields
  <2> QED
    BY <1>3, <2>1, Zenon DEF OnlySession
<1> QED
  BY <1>2, <1>4, ManualOrderSafe, PacksSame, SessionsSame, Zenon DEF LivesKept

LEMMA StopCalls ==
    ASSUME Safe, NEW s \in Sessions, StopAllOrder(s)
    PROVE  LegsKept /\ PacksKept /\ LivesKept
<1>0. TypeOK
  BY Zenon DEF Safe
<1>1. /\ Len(session') = Len(session)
      /\ \A x \in Strategies : strategy'[x] \in {strategy[x], OnUnSubscription(strategy[x])}
  BY <1>0, StopAllOrderStep
<1>2. PICK T : OnlySession(s, Halted(session[s], T))
  BY <1>0, StopAllOrderStep
<1>3. \A j \in Sessions : session'[j].DataPack = session[j].DataPack
  <2>1. ASSUME NEW j \in Sessions, session'[j] = Halted(session[j], T)
        PROVE  session'[j].DataPack = session[j].DataPack
    BY <1>0, <2>1, Records, StoppedFields
  <2> QED
    BY <1>2, <2>1, Zenon DEF OnlySession
<1>4. \A x \in Strategies : strategy'[x].live = strategy[x].live
  <2>1. ASSUME NEW x \in Strategies, strategy'[x] = OnUnSubscription(strategy[x])
        PROVE  strategy'[x].live = strategy[x].live
    BY <1>0, <2>1, Records, UnSubscribedFields
  <2> QED
    BY <1>1, <2>1, Zenon
<1> QED
  BY <1>1, <1>3, <1>4, StopAllOrderSafe, PacksSame, SessionsSame, Zenon DEF LivesKept

\* Only strategies of the session that is erased are erased.
LEMMA EraseCalls ==
    ASSUME Safe, NEW s \in Sessions, EraseAll(s)
    PROVE  LegsKept /\ PacksKept /\ LivesKept
<1>0. TypeOK
  BY Zenon DEF Safe
<1>1. Len(session') = Len(session)
  BY <1>0, EraseAllStep
<1>2. PICK gone \in SUBSET Strategies :
        /\ \A x \in Strategies : strategy'[x] =
             [strategy[x] EXCEPT !.live = strategy[x].live /\ x \notin gone]
        /\ \A x \in gone : strategy[x].ses = s
  BY <1>0, EraseAllStep
<1>3. PICK T : OnlySession(s, Cleared(session[s], T))
  BY <1>0, EraseAllStep
<1>4. session'[s].phase = "erased"
  <2>1. session'[s] = Cleared(session[s], T)
    BY <1>3, Zenon DEF OnlySession
  <2> QED
    BY <1>0, <2>1, Records, ErasedFields
<1>5. "erased" # "open"
  OBVIOUS
<1>6. PacksKept
  <2>1. Sessions' = Sessions
    BY <1>1, SessionsSame, Zenon
  <2>2. \A j \in Sessions : session'[j].phase = "open" => session'[j].DataPack = session[j].DataPack
    BY <1>3, <1>4, <1>5, Zenon DEF OnlySession
  <2> QED
    BY <2>1, <2>2, Zenon DEF PacksKept
<1>7. LivesKept
  <2>1. ASSUME NEW x \in Strategies, session'[strategy[x].ses].phase = "open"
        PROVE  strategy'[x].live = strategy[x].live
    <3>1. x \notin gone
      BY <1>2, <1>4, <1>5, <2>1, Zenon
    <3>2. PICK b : b = (strategy[x].live /\ x \notin gone)
      OBVIOUS
    <3>3. strategy'[x] = [strategy[x] EXCEPT !.live = b]
      BY <1>2, <3>2, Zenon
    <3>4. strategy'[x].live = b
      BY <1>0, <3>3, Records, LiveFields
    <3>5. strategy[x].live \in BOOLEAN
      <4>1. strategy[x] \in StrategyRecords
        BY <1>0, Records, Zenon
      <4> QED
        BY <4>1, SMT DEF StrategyRecords
    <3> QED
      BY <3>1, <3>2, <3>4, <3>5, Zenon
  <2> QED
    BY <2>1, Zenon DEF LivesKept
<1> QED
  BY <1>6, <1>7, EraseAllSafe, Zenon

LEMMA DatasubscriberCalls ==
    ASSUME Safe, NEW s \in Sessions, Datasubscriber(s)
    PROVE  LegsKept /\ PacksKept /\ LivesKept
<1>0. TypeOK
  BY Zenon DEF Safe
<1>1. /\ Len(session') = Len(session) /\ strategy' = strategy
      /\ OnlySession(s, [session[s] EXCEPT !.Datasock = TRUE])
  BY <1>0, DatasubscriberStep
<1>2. \A j \in Sessions : session'[j].DataPack = session[j].DataPack
  <2>1. ASSUME NEW j \in Sessions, session'[j] = [session[j] EXCEPT !.Datasock = TRUE]
        PROVE  session'[j].DataPack = session[j].DataPack
    BY <1>0, <2>1, Records, SocketFields
  <2> QED
    BY <1>1, <2>1, Zenon DEF OnlySession
<1> QED
  BY <1>1, <1>2, DatasubscriberSafe, PacksSame, SessionsSame, Zenon DEF LivesKept

LEMMA LookCalls ==
    ASSUME Safe, NEW s \in Sessions, Look(s)
    PROVE  LegsKept /\ PacksKept /\ LivesKept
<1>0. TypeOK
  BY Zenon DEF Safe
<1>1. Len(session') = Len(session) /\ strategy' = strategy
  BY <1>0, LookStep
<1>2. PICK v : \A j \in Sessions : session'[j] =
                 IF j = s THEN [session[s] EXCEPT !.hand = v] ELSE session[j]
  BY <1>0, LookStep
<1>3. \A j \in Sessions : session'[j].DataPack = session[j].DataPack
  <2>1. ASSUME NEW j \in Sessions, session'[j] = [session[j] EXCEPT !.hand = v]
        PROVE  session'[j].DataPack = session[j].DataPack
    BY <1>0, <2>1, Records, HandFields
  <2> QED
    BY <1>2, <2>1, Zenon
<1> QED
  BY <1>1, <1>3, LookSafe, PacksSame, SessionsSame, Zenon DEF LivesKept

LEMMA SendCalls ==
    ASSUME Safe, NEW s \in Sessions, Send(s)
    PROVE  LegsKept /\ PacksKept /\ LivesKept
<1>0. TypeOK
  BY Zenon DEF Safe
<1>1. PICK x : x = session[s].hand
  OBVIOUS
<1>2. /\ Len(session') = Len(session)
      /\ \A y \in Strategies : strategy'[y] =
           IF y = x
           THEN [strategy[x] EXCEPT !.status = IF strategy[x].live THEN "PENDING" ELSE strategy[x].status]
           ELSE strategy[y]
      /\ \A j \in Sessions : session'[j] =
           IF j = s THEN [session[s] EXCEPT !.hand = 0] ELSE session[j]
  BY <1>0, <1>1, SendStep
<1>3. \A j \in Sessions : session'[j].DataPack = session[j].DataPack
  <2>1. ASSUME NEW j \in Sessions, session'[j] = [session[j] EXCEPT !.hand = 0]
        PROVE  session'[j].DataPack = session[j].DataPack
    BY <1>0, <2>1, Records, HandFields
  <2> QED
    BY <1>2, <2>1, Zenon
<1>4. \A y \in Strategies : strategy'[y].live = strategy[y].live
  <2>1. ASSUME NEW y \in Strategies, NEW v, strategy'[y] = [strategy[y] EXCEPT !.status = v]
        PROVE  strategy'[y].live = strategy[y].live
    BY <1>0, <2>1, Records, StatusFields
  <2>2. \A y \in Strategies : strategy'[y] = strategy[y] \/ \E v : strategy'[y] = [strategy[y] EXCEPT !.status = v]
    BY <1>2, Zenon
  <2> QED
    BY <2>1, <2>2, Zenon
<1> QED
  BY <1>2, <1>3, <1>4, SendSafe, PacksSame, SessionsSame, Zenon DEF LivesKept

LEMMA EventCalls ==
    ASSUME Safe, NEW s \in Sessions, Eventsubscriber(s)
    PROVE  LegsKept /\ PacksKept /\ LivesKept
<1>0. TypeOK /\ InboxTags
  BY Zenon DEF Safe
<1>1. PICK e : e = Head(session[s].inbox)
  OBVIOUS
<1>2. PICK d : d = Decode(orders[e.order].tag)
  OBVIOUS
<1>3. PICK found : found = Find(s, d.PFNum)
  OBVIOUS
<1>4. EventEffect(s, e, d, found)
  BY <1>0, <1>1, <1>2, <1>3, EventStep, Zenon
<1>5. /\ Len(session') = Len(session)
      /\ \A j \in Sessions : session'[j] = IF j = s THEN Heard(session[s], d) ELSE session[j]
  BY <1>4, Zenon DEF EventEffect
<1>6. \A j \in Sessions : session'[j].DataPack = session[j].DataPack
  <2>1. ASSUME NEW j \in Sessions, session'[j] = Heard(session[j], d)
        PROVE  session'[j].DataPack = session[j].DataPack
    BY <1>0, <2>1, Records, HeardFields
  <2> QED
    BY <1>5, <2>1, Zenon
<1>7. \A y \in Strategies : strategy'[y].live = strategy[y].live
  <2>1. CASE strategy' = strategy
    BY <2>1, Zenon
  <2>2. CASE strategy' # strategy
    <3>1. PICK x, st :
               /\ \/ x \in found /\ st = strategy[x]
                  \/ x = Len(strategy) + 1
               /\ strategy'[x] = After(st, e.order, e.kind)
               /\ GoodStrategy(st, Len(session), Len(orders))
               /\ \A y \in Strategies : y # x => strategy'[y] = strategy[y]
      BY <1>4, <2>2, Zenon DEF EventEffect
    <3>2. st \in StrategyRecords
      BY <3>1, Zenon DEF GoodStrategy
    <3>3. strategy'[x].live = st.live
      BY <3>1, <3>2, AfterFields
    <3>4. Len(strategy) + 1 \notin Strategies
      BY <1>0, Lengths, SMT DEF Strategies
    <3> QED
      BY <3>1, <3>3, <3>4, Zenon
  <2> QED
    BY <2>1, <2>2, Zenon
<1> QED
  BY <1>5, <1>6, <1>7, EventSafe, PacksSame, SessionsSame, Zenon DEF LivesKept

LEMMA ExchangeCalls ==
    ASSUME Safe, NEW o \in DOMAIN orders, Exchange(o)
    PROVE  LegsKept /\ PacksKept /\ LivesKept
<1>0. TypeOK
  BY Zenon DEF Safe
<1>1. ASSUME NEW from, NEW to \in {"working", "done"},
             NEW kind \in {"confirmed", "traded", "cancelled", "refused"},
             Moves(o, from, to, kind), asked' \subseteq asked
      PROVE  PacksKept /\ LivesKept
  <2>1. MovesEffect(o, to, kind)
    BY <1>0, <1>1, MovesStep
  <2>2. ASSUME NEW j \in Sessions, NEW q, session'[j] = [session[j] EXCEPT !.inbox = q]
        PROVE  session'[j].DataPack = session[j].DataPack
    BY <1>0, <2>2, Records, InboxFields
  <2>3. \A j \in Sessions : session'[j].DataPack = session[j].DataPack
    BY <2>1, <2>2, Zenon DEF MovesEffect
  <2>4. Len(session') = Len(session) /\ strategy' = strategy
    BY <2>1, Zenon DEF MovesEffect
  <2> QED
    BY <2>3, <2>4, PacksSame, SessionsSame, Zenon DEF LivesKept
<1>2. PacksKept /\ LivesKept
  BY <1>1, Zenon DEF Exchange, Accept, Fill, Withdraw, Refuse
<1> QED
  BY <1>2, ExchangeSafe, Zenon

LEMMA CallSteps ==
    ASSUME Safe, [Next]_vars
    PROVE  \/ LegsKept /\ PacksKept /\ LivesKept
           \/ \E c \in Clients, p \in Packets : \/ HandleOnFOPairSubscription(c, p)
                                                \/ HandleOnFOPairUnSubscription(c, p.PORTFOLIONAME)
<1>1. ASSUME LoadSettings \/ LoadContract \/ UNCHANGED vars PROVE LegsKept /\ PacksKept /\ LivesKept
  <2>1. session' = session /\ strategy' = strategy
    BY <1>1, Zenon DEF LoadSettings, LoadContract, vars
  <2> QED
    BY <1>1, <2>1, MainSafe, SameCalls, Zenon
<1>2. ASSUME NEW c \in Clients, Requests(c)
      PROVE  \/ LegsKept /\ PacksKept /\ LivesKept
             \/ \E p \in Packets : \/ HandleOnFOPairSubscription(c, p)
                                   \/ HandleOnFOPairUnSubscription(c, p.PORTFOLIONAME)
  <2>1. CASE Login(c) \/ Dispose(c)
    BY <2>1, LoginCalls, DisposeCalls, Zenon
  <2>2. ASSUME NEW p \in Packets, HandleOnFOPairDiff(c, p) PROVE LegsKept /\ PacksKept /\ LivesKept
    BY <2>2, DiffCalls, Zenon
  <2>3. ASSUME NEW p \in Packets, ManualOrderEntry(c, p.TokenFar) PROVE LegsKept /\ PacksKept /\ LivesKept
    BY <2>3, PacketTypes, ManualCalls, Zenon
  <2>4. ASSUME NEW o \in DOMAIN orders, ManualOrder_Mod_CNclEntry(c, o) PROVE LegsKept /\ PacksKept /\ LivesKept
    BY <2>4, ManualChangeSafe, SameCalls, Zenon DEF ManualOrder_Mod_CNclEntry
  <2> QED
    BY <1>2, <2>1, <2>2, <2>3, <2>4, Zenon DEF Requests
<1>3. ASSUME NEW s \in Sessions, Disposal(s) \/ DataThread(s) \/ Eventsubscriber(s)
      PROVE  LegsKept /\ PacksKept /\ LivesKept
  <2>1. CASE CallErased(s)
    BY <2>1, CallErasedSafe, SameCalls, Zenon DEF CallErased
  <2> QED
    BY <1>3, <2>1, StopCalls, EraseCalls, DatasubscriberCalls, LookCalls, SendCalls, EventCalls, Zenon DEF Disposal, DataThread
<1> QED
  BY <1>1, <1>2, <1>3, ExchangeCalls, Zenon DEF Next, Step

\* A subscription connects the strategy once: it had no connections if it is the first.
LEMMA SubscriptionCalls ==
    ASSUME Safe, CallInv, NEW c \in Clients, NEW p \in Packets, HandleOnFOPairSubscription(c, p)
    PROVE  CallInv'
<1>0. TypeOK
  BY Zenon DEF Safe
<1>1. Kept /\ PhasesKept
  BY SubscriptionSafe, Zenon
<1>2. PICK s, found : s = StgMap[c] /\ found = Find(s, p.PORTFOLIONAME)
  OBVIOUS
<1>3. s \in Sessions /\ SubscriptionEffect(s, p, found)
  BY <1>0, <1>2, SubscriptionStep
<1>4. PICK x, st :
        /\ x \in Strategies'
        /\ \/ x \in found /\ st = strategy[x] /\ Strategies' = Strategies
           \/ /\ found = {} /\ x = Len(strategy) + 1 /\ Len(strategy') = Len(strategy) + 1
              /\ \E BLQ \in LotSizes(s, p.TokenFar) :
                   st = NewStrategy(s, p.PORTFOLIONAME, "sub", BLQ)
        /\ GoodStrategy(st, Len(session), Len(orders))
        /\ strategy'[x] = OnSubscription(st, p)
        /\ \A y \in Strategies : y # x => strategy'[y] = strategy[y]
        /\ \A j \in Sessions : session'[j] =
             IF j = s THEN Connect(session[j], x, OnSubscription(st, p).gen, p) ELSE session[j]
  BY <1>3, ZenonT(40) DEF SubscriptionEffect
<1>5. PICK n : n = strategy'[x]
  OBVIOUS
<1>6. /\ st \in StrategyRecords /\ n.ses = st.ses /\ n.pack = p /\ n.live = st.live
      /\ n.gen = st.gen + 1 /\ st.gen \in Nat
  <2>1. st \in StrategyRecords
    BY <1>4, Zenon DEF GoodStrategy
  <2>2. SameMaking(n, st) /\ n.live = st.live /\ n.pack = p /\ n.gen = st.gen + 1
    BY <1>4, <1>5, <2>1, SubscribedFields
  <2>3. st.gen \in Nat
    BY <2>1, SMT DEF StrategyRecords
  <2> QED
    BY <2>1, <2>2, <2>3, Zenon DEF SameMaking
<1>7. \/ x \in Strategies /\ st = strategy[x] /\ strategy[x].ses = s /\ st.live = TRUE
      \/ x \notin Strategies /\ st.ses = s /\ st.gen = 0 /\ st.live = TRUE
  <2>1. CASE x \in found /\ st = strategy[x]
    <3>1. strategy[x].live \in BOOLEAN
      BY <1>6, <2>1, SMT DEF StrategyRecords
    <3> QED
      BY <1>2, <2>1, <3>1, Zenon DEF Find
  <2>2. ASSUME x = Len(strategy) + 1, NEW BLQ, st = NewStrategy(s, p.PORTFOLIONAME, "sub", BLQ)
        PROVE  x \notin Strategies /\ st.ses = s /\ st.gen = 0 /\ st.live = TRUE
    <3>1. x \notin Strategies
      BY <1>0, <2>2, Lengths, SMT DEF Strategies
    <3> QED
      BY <2>2, <3>1, SMT DEF NewStrategy
  <2> QED
    BY <1>4, <2>1, <2>2, Zenon
<1>8. \A y \in Strategies' : y \in Strategies \/ y = x
  BY <1>0, <1>4, Lengths, SMT DEF Strategies
<1>9. Sessions' = Sessions
  BY <1>1, Zenon DEF PhasesKept
<1>10. \A y \in Strategies : y \in Strategies' /\ strategy'[y].ses = strategy[y].ses
  BY <1>1, Zenon DEF Kept, StrategyKept, SameMaking
<1>11. SUFFICES ASSUME NEW j \in Sessions, session'[j].phase = "open"
                PROVE  /\ \A d \in session'[j].DataPack : strategy'[d.obj].ses = j
                       /\ \A y \in Strategies' : strategy'[y].ses = j =>
                            Connected(session'[j].DataPack, strategy'[y], y)
  BY <1>9, Zenon DEF CallInv
<1>12. session[j].phase = "open"
  BY <1>1, <1>11, Zenon DEF PhasesKept
<1>13. PICK D : D = session[j].DataPack
  OBVIOUS
<1>14. /\ \A d \in D : d.obj \in Strategies /\ strategy[d.obj].ses = j
       /\ \A y \in Strategies : strategy[y].ses = j => Connected(D, strategy[y], y)
  BY <1>0, <1>11, <1>12, <1>13, Referred, Zenon DEF CallInv
<1>15. CASE j # s
  <2>1. session'[j].DataPack = D
    BY <1>4, <1>11, <1>13, <1>15, Zenon
  <2>2. ASSUME NEW y \in Strategies', strategy'[y].ses = j PROVE y \in Strategies /\ strategy'[y] = strategy[y]
    BY <1>4, <1>5, <1>6, <1>7, <1>8, <1>15, <2>2, Zenon
  <2> QED
    BY <1>10, <1>14, <2>1, <2>2, Zenon
<1>16. CASE j = s
  <2>1. PICK N : N = Connections(x, n.gen, p)
    OBVIOUS
  <2>2. session'[j].DataPack = D \cup N
    <3>1. session'[j] = Connect(session[j], x, n.gen, p)
      BY <1>4, <1>5, <1>11, <1>16, Zenon
    <3> QED
      BY <1>0, <1>11, <1>13, <2>1, <3>1, Records, ConnectFields
  <2>3. \A d \in N : d.obj = x
    BY <2>1, SMT DEF Connections
  <2>4. ASSUME NEW y \in Strategies', strategy'[y].ses = j
        PROVE  Connected(D \cup N, strategy'[y], y)
    <3>1. CASE y # x
      <4>1. {d \in D \cup N : d.obj = y} = {d \in D : d.obj = y}
        BY <2>3, <3>1, Zenon
      <4>2. y \in Strategies /\ strategy'[y] = strategy[y] /\ Connected(D, strategy[y], y)
        BY <1>4, <1>8, <1>14, <2>4, <3>1, Zenon
      <4> QED
        BY <4>1, <4>2, Zenon DEF Connected
    <3>2. CASE y = x
      <4>1. n.gen # 0 /\ (n.gen = 1 => st.gen = 0)
        BY <1>6, SMT
      <4>2. ASSUME n.gen = 1 PROVE {d \in D : d.obj = x} = {}
        <5>1. CASE x \in Strategies /\ st = strategy[x] /\ strategy[x].ses = s
          BY <1>14, <1>16, <4>1, <4>2, <5>1, Zenon DEF Connected
        <5>2. CASE x \notin Strategies
          BY <1>14, <5>2, Zenon
        <5> QED
          BY <1>7, <5>1, <5>2, Zenon
      <4>3. ASSUME n.gen = 1 PROVE {d \in D \cup N : d.obj = x} = Connections(x, 1, n.pack)
        <5>1. {d \in D \cup N : d.obj = x} = N
          BY <2>3, <4>2, <4>3, Zenon
        <5> QED
          BY <1>6, <2>1, <4>3, <5>1, Zenon
      <4>4. n.live = TRUE
        BY <1>6, <1>7, Zenon
      <4>5. Connected(D \cup N, n, x)
        BY <4>1, <4>3, <4>4, Zenon DEF Connected
      <4> QED
        BY <1>5, <3>2, <4>5, Zenon
    <3> QED
      BY <3>1, <3>2, Zenon
  <2>5. \A d \in D \cup N : strategy'[d.obj].ses = j
    BY <1>5, <1>6, <1>7, <1>10, <1>14, <1>16, <2>3, Zenon
  <2> QED
    BY <2>2, <2>4, <2>5, Zenon
<1> QED
  BY <1>15, <1>16, Zenon

\* An unsubscription cuts the connections of the strategy's last subscription.
LEMMA UnSubscriptionCalls ==
    ASSUME Safe, CallInv, NEW c \in Clients, NEW PF, HandleOnFOPairUnSubscription(c, PF)
    PROVE  CallInv'
<1>0. TypeOK
  BY Zenon DEF Safe
<1>1. Kept /\ PhasesKept /\ LegsKept
  BY UnSubscriptionSafe, Zenon
<1>2. PICK s : s = StgMap[c]
  OBVIOUS
<1>3. s \in Sessions /\ Len(strategy') = Len(strategy)
  BY <1>0, <1>2, UnSubscriptionStep
<1>4. PICK x \in Find(s, PF) : UnSubscriptionEffect(s, x)
  BY <1>0, <1>2, UnSubscriptionStep, Zenon
<1>5. /\ \A y \in Strategies : strategy'[y] =
           IF y = x THEN [OnUnSubscription(strategy[y]) EXCEPT !.live = FALSE] ELSE strategy[y]
      /\ \A j \in Sessions : session'[j] =
           IF j = s THEN Disconnect(session[j], x, strategy[x].gen) ELSE session[j]
  BY <1>4, Zenon DEF UnSubscriptionEffect
<1>6. x \in Strategies /\ strategy[x].ses = s
  BY <1>4, Zenon DEF Find
<1>7. Sessions' = Sessions /\ Strategies' = Strategies
  BY <1>1, <1>3, Zenon DEF PhasesKept, Strategies
<1>8. \A y \in Strategies : strategy'[y].ses = strategy[y].ses
  BY <1>1, Zenon DEF Kept, StrategyKept, SameMaking
<1>9. PICK n : n = strategy'[x]
  OBVIOUS
<1>10. n.live = FALSE /\ n.gen = strategy[x].gen
  <2>1. n = [OnUnSubscription(strategy[x]) EXCEPT !.live = FALSE]
    BY <1>5, <1>6, <1>9, Zenon
  <2> QED
    BY <1>0, <1>6, <2>1, Records, GoneFields
<1>11. SUFFICES ASSUME NEW j \in Sessions, session'[j].phase = "open"
                PROVE  /\ \A d \in session'[j].DataPack : strategy'[d.obj].ses = j
                       /\ \A y \in Strategies : strategy'[y].ses = j =>
                            Connected(session'[j].DataPack, strategy'[y], y)
  BY <1>7, Zenon DEF CallInv
<1>12. session[j].phase = "open"
  BY <1>1, <1>11, Zenon DEF PhasesKept
<1>13. PICK D, E : D = session[j].DataPack /\ E = session'[j].DataPack
  OBVIOUS
<1>14. /\ \A d \in D : d.obj \in Strategies /\ strategy[d.obj].ses = j
       /\ \A y \in Strategies : strategy[y].ses = j => Connected(D, strategy[y], y)
  BY <1>0, <1>11, <1>12, <1>13, Referred, Zenon DEF CallInv
<1>15. CASE j # s
  <2>1. E = D
    BY <1>5, <1>11, <1>13, <1>15, Zenon
  <2>2. ASSUME NEW y \in Strategies, strategy'[y].ses = j PROVE strategy'[y] = strategy[y]
    BY <1>5, <1>6, <1>8, <1>15, <2>2, Zenon
  <2> QED
    BY <1>8, <1>13, <1>14, <2>1, <2>2, Zenon
<1>16. CASE j = s
  <2>1. E = {d \in D : d.obj # x \/ d.gen # strategy[x].gen}
    <3>1. session'[j] = Disconnect(session[j], x, strategy[x].gen)
      BY <1>5, <1>11, <1>16, Zenon
    <3> QED
      BY <1>0, <1>11, <1>13, <3>1, Records, DisconnectFields
  <2>2. ASSUME NEW y \in Strategies, strategy'[y].ses = j
        PROVE  Connected(E, strategy'[y], y)
    <3>0. Connected(D, strategy[y], y)
      BY <1>8, <1>14, <2>2, Zenon
    <3>1. CASE y # x
      <4>1. {d \in E : d.obj = y} = {d \in D : d.obj = y}
        BY <2>1, <3>1, Zenon
      <4>2. strategy'[y] = strategy[y]
        BY <1>5, <3>1, Zenon
      <4> QED
        BY <3>0, <4>1, <4>2, Zenon DEF Connected
    <3>2. CASE y = x
      <4>1. ASSUME n.gen = 0 PROVE {d \in E : d.obj = x} = {}
        <5>1. {d \in D : d.obj = x} = {}
          BY <1>10, <3>0, <3>2, <4>1, Zenon DEF Connected
        <5> QED
          BY <2>1, <5>1, Zenon
      <4>2. ASSUME n.gen = 1 PROVE {d \in E : d.obj = x} = {}
        <5>1. \A d \in D : d.obj = x => \E p : d \in Connections(x, 1, p)
          <6>1. {d \in D : d.obj = x} \in {Connections(x, 1, strategy[x].pack), {}}
            BY <1>10, <3>0, <3>2, <4>2, Zenon DEF Connected
          <6> QED
            BY <6>1, Zenon
        <5>2. \A p : \A d \in Connections(x, 1, p) : d.gen = 1
          BY SMT DEF Connections
        <5>3. strategy[x].gen = 1
          BY <1>10, <4>2, Zenon
        <5> QED
          BY <2>1, <5>1, <5>2, <5>3, Zenon
      <4>3. Connected(E, n, x)
        BY <1>10, <4>1, <4>2, Zenon DEF Connected
      <4> QED
        BY <1>9, <3>2, <4>3, Zenon
    <3> QED
      BY <3>1, <3>2, Zenon
  <2>3. \A d \in E : strategy'[d.obj].ses = j
    BY <1>8, <1>14, <2>1, Zenon
  <2> QED
    BY <1>13, <2>2, <2>3, Zenon
<1> QED
  BY <1>15, <1>16, Zenon

LEMMA CallInvKept == Safe /\ CallInv /\ [Next]_vars => CallInv'
<1> SUFFICES ASSUME Safe, CallInv, [Next]_vars PROVE CallInv'
  OBVIOUS
<1>1. Kept
  BY NextSafe, Zenon
<1>2. CASE LegsKept /\ PacksKept /\ LivesKept
  BY <1>1, <1>2, CallsKept, Zenon
<1> QED
  BY <1>2, SubscriptionCalls, UnSubscriptionCalls, CallSteps, Zenon

LEMMA AlwaysCalls == Spec => []CallInv
<1>1. Init => CallInv
  BY NoStrategies, Zenon DEF CallInv
<1> QED
  BY <1>1, CallInvKept, AlwaysSafe, PTL DEF Spec

\* ClientSession: while a session runs, a strategy subscribed once is called once for a tick
\* of one of its legs, and nothing calls a strategy that was erased, unless it was subscribed
\* again (HandleOnFOPairSubscription, HandleOnFOPairUnSubscription, EraseAll).
THEOREM OneCall == Spec => []CalledOnce
<1>1. Safe /\ CallInv => CalledOnce
  <2> SUFFICES ASSUME Safe, CallInv, NEW s \in Sessions, ~IsExit(s)
               PROVE  /\ \A d \in session[s].DataPack : ~strategy[d.obj].live => strategy[d.obj].gen > 1
                      /\ \A x \in Strategies :
                           strategy[x].live /\ strategy[x].ses = s /\ strategy[x].gen = 1 =>
                             {d \in session[s].DataPack : d.obj = x} = Connections(x, 1, strategy[x].pack)
    BY Zenon DEF CalledOnce
  <2>1. PICK D : D = session[s].DataPack
    OBVIOUS
  <2>2. /\ \A d \in D : d.obj \in Strategies /\ strategy[d.obj].ses = s
        /\ \A y \in Strategies : strategy[y].ses = s => Connected(D, strategy[y], y)
    BY <2>1, Referred, Zenon DEF CallInv, IsExit, Safe
  <2>3. ASSUME NEW d \in D, ~strategy[d.obj].live PROVE strategy[d.obj].gen > 1
    <3>1. Connected(D, strategy[d.obj], d.obj)
      BY <2>2, Zenon
    <3>2. d \in {f \in D : f.obj = d.obj}
      BY Zenon
    <3>3. strategy[d.obj].gen # 0 /\ strategy[d.obj].gen # 1
      BY <2>3, <3>1, <3>2, Zenon DEF Connected
    <3>4. strategy[d.obj].gen \in Nat
      <4>1. strategy[d.obj] \in StrategyRecords
        BY <2>2, Records, Zenon DEF Safe
      <4> QED
        BY <4>1, SMT DEF StrategyRecords
    <3> QED
      BY <3>3, <3>4, SMT
  <2>4. ASSUME NEW x \in Strategies, strategy[x].live, strategy[x].ses = s, strategy[x].gen = 1
        PROVE  {d \in D : d.obj = x} = Connections(x, 1, strategy[x].pack)
    BY <2>2, <2>4, Zenon DEF Connected
  <2> QED
    BY <2>1, <2>3, <2>4, Zenon
<1> QED
  BY <1>1, AlwaysCalls, AlwaysSafe, PTL

-----------------------------------------------------------------------------
(* No order is forgotten: what steps make of the state of a strategy.        *)

NumberOf(st) == st.NMPack.FARMONTHMOD.OrderNumber

\* What decides which cancels are sent for a strategy.
SameState(q, st) == q.live = st.live /\ q.status = st.status /\ NumberOf(q) = NumberOf(st)
StatesKept == \A x \in Strategies : SameState(strategy'[x], strategy[x])

LEMMA FlagState ==
    ASSUME NEW st \in StrategyRecords, NEW b, NEW q, q = [st EXCEPT !.quotes = b]
    PROVE  SameState(q, st)
  BY SMT DEF StrategyRecords, SameState, NumberOf

LEMMA StatusState ==
    ASSUME NEW st \in StrategyRecords, NEW v, NEW q, q = [st EXCEPT !.status = v]
    PROVE  q.live = st.live /\ q.status = v /\ NumberOf(q) = NumberOf(st)
  BY SMT DEF StrategyRecords, NumberOf

LEMMA LiveState ==
    ASSUME NEW st \in StrategyRecords, NEW b, NEW q, q = [st EXCEPT !.live = b]
    PROVE  q.live = b /\ q.status = st.status /\ NumberOf(q) = NumberOf(st)
  BY SMT DEF StrategyRecords, NumberOf

LEMMA UnSubscribedState ==
    ASSUME NEW st \in StrategyRecords, NEW q, q = OnUnSubscription(st)
    PROVE  q.live = st.live /\ NumberOf(q) = NumberOf(st)
  BY SMT DEF StrategyRecords, OnUnSubscription, NumberOf

LEMMA GoneState ==
    ASSUME NEW st \in StrategyRecords, NEW q, q = [OnUnSubscription(st) EXCEPT !.live = FALSE]
    PROVE  q.live = FALSE /\ NumberOf(q) = NumberOf(st)
  BY SMT DEF StrategyRecords, OnUnSubscription, NumberOf

\* The templates have no order number.
LEMMA SubscribedState ==
    ASSUME NEW st \in StrategyRecords, NEW p, NEW q, q = OnSubscription(st, p)
    PROVE  SameState(q, st)
<1>1. q.live = st.live /\ q.status = st.status
  BY SMT DEF StrategyRecords, OnSubscription
<1>2. q.NMPack = IF st.NMPack = Templates(0) THEN Templates(p.TokenFar) ELSE st.NMPack
  BY SMT DEF StrategyRecords, OnSubscription
<1>3. \A t : Templates(t).FARMONTHMOD.OrderNumber = 0
  BY SMT DEF Templates, ReturnModificationPack
<1>4. NumberOf(q) = NumberOf(st)
  BY <1>2, <1>3, Zenon DEF NumberOf
<1> QED
  BY <1>1, <1>4, Zenon DEF SameState

LEMMA NewState ==
    ASSUME NEW s, NEW PF, NEW by, NEW BLQ
    PROVE  /\ NumberOf(NewStrategy(s, PF, by, BLQ)) = 0
           /\ NumberOf([NewStrategy(s, PF, by, BLQ) EXCEPT !.quotes = TRUE]) = 0
  BY SMT DEF NewStrategy, Templates, ReturnModificationPack, NumberOf

\* An event is ignored, or gives the order's number, or tells that the order is over.
LEMMA AfterState ==
    ASSUME NEW st \in StrategyRecords, NEW o, NEW kind, NEW q, q = After(st, o, kind)
    PROVE  \/ st.pack.TokenFar # orders[o].far /\ SameState(q, st)
           \/ /\ st.pack.TokenFar = orders[o].far /\ kind = "confirmed"
              /\ q.live = st.live /\ q.status = "OPEN" /\ NumberOf(q) = o
           \/ /\ st.pack.TokenFar = orders[o].far /\ kind # "confirmed"
              /\ q.live = st.live /\ q.status \in {"TRADE", "CANCEL"} /\ NumberOf(q) = NumberOf(st)
<1>1. CASE st.pack.TokenFar # orders[o].far
  BY <1>1, Zenon DEF After, SameState
<1>2. CASE st.pack.TokenFar = orders[o].far /\ kind = "confirmed"
  <2> DEFINE s1 == [st EXCEPT !.status = "OPEN"]
  <2>1. q = [s1 EXCEPT !.NMPack.FARMONTHMOD.OrderNumber = o]
    BY <1>2, SMT DEF After, StrategyRecords
  <2>2. s1 \in StrategyRecords /\ s1.live = st.live /\ s1.status = "OPEN"
    BY SMT DEF StrategyRecords
  <2> HIDE DEF s1
  <2> DEFINE N == [s1.NMPack EXCEPT !.FARMONTHMOD.OrderNumber = o]
  <2>3. q = [s1 EXCEPT !.NMPack = N] /\ N.FARMONTHMOD.OrderNumber = o
    BY <2>1, <2>2, SMT DEF StrategyRecords, Numbers
  <2> HIDE DEF N
  <2>4. q.live = s1.live /\ q.status = s1.status /\ q.NMPack = N
    BY <2>2, <2>3, SMT DEF StrategyRecords
  <2> QED
    BY <1>2, <2>2, <2>3, <2>4, Zenon DEF NumberOf
<1>3. CASE st.pack.TokenFar = orders[o].far /\ kind # "confirmed"
  <2>1. PICK v \in {"TRADE", "CANCEL"} : q = [st EXCEPT !.status = v]
    BY <1>3, SMT DEF After
  <2>2. q.live = st.live /\ q.status = v /\ NumberOf(q) = NumberOf(st)
    BY <2>1, StatusState
  <2> QED
    BY <1>3, <2>2, Zenon
<1> QED
  BY <1>1, <1>2, <1>3, Zenon
LEMMA StateSteps ==
    ASSUME Safe, [Next]_vars
    PROVE  \/ StatesKept
           \/ \E s \in Sessions : Send(s) \/ Eventsubscriber(s) \/ Disposal(s)
           \/ \E c \in Clients, p \in Packets : HandleOnFOPairUnSubscription(c, p.PORTFOLIONAME)
<1>0. TypeOK
  BY Zenon DEF Safe
<1>1. strategy' = strategy => StatesKept
  BY Zenon DEF StatesKept, SameState
<1>2. ASSUME LoadSettings \/ LoadContract \/ UNCHANGED vars PROVE strategy' = strategy
  BY <1>2, Zenon DEF LoadSettings, LoadContract, vars
<1>3. ASSUME NEW c \in Clients, NEW p \in Packets, HandleOnFOPairSubscription(c, p) PROVE StatesKept
  <2>1. PICK found : found = Find(StgMap[c], p.PORTFOLIONAME)
    OBVIOUS
  <2>2. SubscriptionEffect(StgMap[c], p, found)
    BY <1>0, <1>3, <2>1, SubscriptionStep
  <2>3. PICK x, st :
          /\ (x \in found /\ st = strategy[x]) \/ x = Len(strategy) + 1
          /\ GoodStrategy(st, Len(session), Len(orders))
          /\ strategy'[x] = OnSubscription(st, p)
          /\ \A y \in Strategies : y # x => strategy'[y] = strategy[y]
    BY <2>2, Zenon DEF SubscriptionEffect
  <2>4. SameState(strategy'[x], st)
    <3>1. st \in StrategyRecords
      BY <2>3, Zenon DEF GoodStrategy
    <3> QED
      BY <2>3, <3>1, SubscribedState
  <2>5. Len(strategy) + 1 \notin Strategies
    BY <1>0, Lengths, SMT DEF Strategies
  <2> QED
    BY <2>3, <2>4, <2>5, Zenon DEF StatesKept, SameState
<1>4. ASSUME NEW c \in Clients, NEW p \in Packets, HandleOnFOPairDiff(c, p) PROVE StatesKept
  <2>1. PICK found : found = Find(StgMap[c], p.PORTFOLIONAME)
    OBVIOUS
  <2>2. \/ \A y \in Strategies : strategy'[y] = strategy[y]
        \/ \A y \in Strategies : strategy'[y] =
             [strategy[y] EXCEPT !.quotes = strategy[y].quotes \/ y \in found]
    BY <1>0, <1>4, <2>1, DiffStep, SMTT(40)
  <2>3. ASSUME NEW y \in Strategies, NEW b, strategy'[y] = [strategy[y] EXCEPT !.quotes = b]
        PROVE  SameState(strategy'[y], strategy[y])
    BY <1>0, <2>3, Records, FlagState
  <2> QED
    BY <2>2, <2>3, Zenon DEF StatesKept, SameState
<1>5. ASSUME NEW c \in Clients, Requests(c)
      PROVE  \/ StatesKept
             \/ \E p \in Packets : HandleOnFOPairUnSubscription(c, p.PORTFOLIONAME)
  <2>1. ASSUME Login(c) \/ Dispose(c) PROVE strategy' = strategy
    BY <2>1, Zenon DEF Login, Dispose
  <2>2. ASSUME NEW p \in Packets, ManualOrderEntry(c, p.TokenFar) PROVE strategy' = strategy
    BY <2>2, Zenon DEF ManualOrderEntry
  <2>3. ASSUME NEW o \in DOMAIN orders, ManualOrder_Mod_CNclEntry(c, o) PROVE strategy' = strategy
    BY <2>3, Zenon DEF ManualOrder_Mod_CNclEntry
  <2> QED
    BY <1>1, <1>3, <1>4, <1>5, <2>1, <2>2, <2>3, Zenon DEF Requests
<1>6. ASSUME NEW s \in Sessions, Datasubscriber(s) \/ Look(s) \/ CallErased(s) PROVE strategy' = strategy
  BY <1>6, Zenon DEF Datasubscriber, Look, CallErased
<1>7. ASSUME NEW o \in DOMAIN orders, Exchange(o) PROVE strategy' = strategy
  BY <1>7, Zenon DEF Exchange, Accept, Fill, Withdraw, Refuse, Moves
<1> QED
  BY <1>1, <1>2, <1>5, <1>6, <1>7, Zenon DEF Next, Step, DataThread

\* An unsubscription asks for the cancels of the strategy that goes.
LEMMA UnSubscriptionStates ==
    ASSUME Safe, OneStrategy, NEW c \in Clients, NEW PF, HandleOnFOPairUnSubscription(c, PF)
    PROVE  \E x \in Find(StgMap[c], PF) :
             /\ asked' = asked \cup CancelsOf(x) /\ ~strategy'[x].live
             /\ NumberOf(strategy'[x]) = NumberOf(strategy[x])
             /\ \A y \in Strategies : y # x => strategy'[y] = strategy[y]
<1>0. TypeOK
  BY Zenon DEF Safe
<1>1. PICK s : s = StgMap[c]
  OBVIOUS
<1>2. PICK x \in Find(s, PF) : UnSubscriptionEffect(s, x)
  BY <1>0, <1>1, UnSubscriptionStep
<1>3. PICK z \in Find(s, PF) : asked' = asked \cup CancelsOf(z)
  BY <1>1, Zenon DEF HandleOnFOPairUnSubscription
<1>4. x = z
  BY <1>2, <1>3, Zenon DEF Find, OneStrategy
<1>5. x \in Strategies
  BY <1>2, FoundStrategies, Zenon
<1>6. strategy'[x] = [OnUnSubscription(strategy[x]) EXCEPT !.live = FALSE]
  BY <1>2, <1>5, Zenon DEF UnSubscriptionEffect
<1>7. strategy'[x].live = FALSE /\ NumberOf(strategy'[x]) = NumberOf(strategy[x])
  BY <1>0, <1>5, <1>6, Records, GoneState
<1>8. \A y \in Strategies : y # x => strategy'[y] = strategy[y]
  BY <1>2, Zenon DEF UnSubscriptionEffect
<1> QED
  BY <1>1, <1>2, <1>3, <1>4, <1>7, <1>8, Zenon

\* StopAllOrder asks for the cancels of the strategies it reaches, and counts the others.
LEMMA StopStates ==
    ASSUME Safe, NEW s \in Sessions, StopAllOrder(s)
    PROVE  \E reached \in SUBSET Strategies :
             /\ \A x \in reached : strategy[x].live /\ strategy[x].ses = s
             /\ asked' = asked \cup UNION {CancelsOf(x) : x \in reached}
             /\ shadowed' = shadowed \cup {x \in Strategies \ reached : strategy[x].ses = s}
             /\ \A x \in Strategies : /\ strategy'[x].live = strategy[x].live
                                      /\ NumberOf(strategy'[x]) = NumberOf(strategy[x])
                                      /\ x \notin reached => strategy'[x] = strategy[x]
<1>0. TypeOK
  BY Zenon DEF Safe
<1>1. PICK reached : reached = Held(s, StoppedPFs(s))
  OBVIOUS
<1>2. /\ asked' = asked \cup UNION {CancelsOf(x) : x \in reached}
      /\ strategy' = [x \in Strategies |->
                        IF x \in reached THEN OnUnSubscription(strategy[x]) ELSE strategy[x]]
      /\ shadowed' = shadowed \cup {x \in Strategies \ reached : strategy[x].ses = s}
  BY <1>1, Zenon DEF StopAllOrder
<1>3. \A x \in reached : x \in Strategies /\ strategy[x].live /\ strategy[x].ses = s
  BY <1>1, Zenon DEF Held, Find
<1>4. ASSUME NEW x \in Strategies
      PROVE  /\ strategy'[x].live = strategy[x].live /\ NumberOf(strategy'[x]) = NumberOf(strategy[x])
             /\ x \notin reached => strategy'[x] = strategy[x]
  <2>1. strategy'[x] = IF x \in reached THEN OnUnSubscription(strategy[x]) ELSE strategy[x]
    BY <1>2, <1>4, Zenon
  <2>2. CASE x \in reached
    <3>1. strategy'[x] = OnUnSubscription(strategy[x])
      BY <2>1, <2>2, Zenon
    <3> QED
      BY <1>0, <2>2, <3>1, Records, UnSubscribedState
  <2>3. CASE x \notin reached
    BY <2>1, <2>3, Zenon
  <2> QED
    BY <2>2, <2>3, Zenon
<1> QED
  BY <1>2, <1>3, <1>4, Zenon

\* EraseAll changes nothing but which strategies are held.
LEMMA EraseStates ==
    ASSUME Safe, NEW s \in Sessions, EraseAll(s)
    PROVE  \A x \in Strategies :
             /\ strategy'[x].status = strategy[x].status /\ NumberOf(strategy'[x]) = NumberOf(strategy[x])
             /\ strategy[x].ses # s => strategy'[x].live = strategy[x].live
<1>0. TypeOK
  BY Zenon DEF Safe
<1>1. PICK gone \in SUBSET Strategies :
        /\ \A x \in Strategies : strategy'[x] =
             [strategy[x] EXCEPT !.live = strategy[x].live /\ x \notin gone]
        /\ \A x \in gone : strategy[x].ses = s
  BY <1>0, EraseAllStep
<1>2. SUFFICES ASSUME NEW x \in Strategies
               PROVE  /\ strategy'[x].status = strategy[x].status
                      /\ NumberOf(strategy'[x]) = NumberOf(strategy[x])
                      /\ strategy[x].ses # s => strategy'[x].live = strategy[x].live
  BY Zenon
<1>3. PICK b : b = (strategy[x].live /\ x \notin gone)
  OBVIOUS
<1>4. strategy'[x] = [strategy[x] EXCEPT !.live = b]
  BY <1>1, <1>3, Zenon
<1>5. /\ strategy'[x].live = b /\ strategy'[x].status = strategy[x].status
      /\ NumberOf(strategy'[x]) = NumberOf(strategy[x])
  BY <1>0, <1>4, Records, LiveState
<1>6. strategy[x].live \in BOOLEAN
  <2>1. strategy[x] \in StrategyRecords
    BY <1>0, Records, Zenon
  <2> QED
    BY <2>1, SMT DEF StrategyRecords
<1> QED
  BY <1>1, <1>3, <1>5, <1>6, Zenon

\* A strategy that the data thread sends an order for has one PENDING.
LEMMA SendStates ==
    ASSUME Safe, NEW s \in Sessions, Send(s)
    PROVE  \E x \in Strategies :
             /\ x = session[s].hand /\ strategy'[x].live = strategy[x].live
             /\ strategy[x].live => strategy'[x].status = "PENDING"
             /\ NumberOf(strategy'[x]) = NumberOf(strategy[x])
             /\ \A y \in Strategies : y # x => strategy'[y] = strategy[y]
             /\ orders'[Len(orders) + 1].obj = x
             /\ \A j \in Sessions : session'[j].hand = IF j = s THEN 0 ELSE session[j].hand
<1>0. TypeOK
  BY Zenon DEF Safe
<1>1. PICK x, n : x = session[s].hand /\ n = Len(orders) + 1
  OBVIOUS
<1>2. /\ x \in Strategies
      /\ \A y \in Strategies : strategy'[y] =
           IF y = x
           THEN [strategy[x] EXCEPT !.status = IF strategy[x].live THEN "PENDING" ELSE strategy[x].status]
           ELSE strategy[y]
      /\ orders'[n] = Sent(AddressOf(strategy[x]), strategy[x].NMPack.FARMONTH.TokenNo, x)
      /\ \A j \in Sessions : session'[j] =
           IF j = s THEN [session[s] EXCEPT !.hand = 0] ELSE session[j]
  BY <1>0, <1>1, SendStep
<1>3. PICK v : v = IF strategy[x].live THEN "PENDING" ELSE strategy[x].status
  OBVIOUS
<1>4. strategy'[x] = [strategy[x] EXCEPT !.status = v]
  BY <1>2, <1>3, Zenon
<1>5. /\ strategy'[x].live = strategy[x].live /\ strategy'[x].status = v
      /\ NumberOf(strategy'[x]) = NumberOf(strategy[x])
  BY <1>0, <1>2, <1>4, Records, StatusState
<1>6. orders'[n].obj = x
  BY <1>2, SentFields
<1>7. \A j \in Sessions : session'[j].hand = IF j = s THEN 0 ELSE session[j].hand
  <2>1. session'[s].hand = 0
    <3>1. session'[s] = [session[s] EXCEPT !.hand = 0] /\ session[s] \in SessionRecords
      BY <1>0, <1>2, Records, Zenon
    <3> QED
      BY <3>1, HandFields
  <2> QED
    BY <1>2, <2>1, Zenon
<1>8. \A y \in Strategies : y # x => strategy'[y] = strategy[y]
  BY <1>2, Zenon
<1> QED
  BY <1>1, <1>2, <1>3, <1>5, <1>6, <1>7, <1>8, Zenon

\* An event of order e.order is handled by strategy x ...
EventOf(s, e, x) ==
    /\ heard' = heard \cup {<<e.order, x>>}
    /\ known' = known \/ (known' = known \cup {e.order} /\ orders[e.order].obj = x /\ ~IsExit(s))
    /\ \A y \in Strategies : y # x => strategy'[y] = strategy[y]

\* ... that is new, or that ignores it, or takes the number, or hears that the order is over.
EventMade(e, x) ==
    x = Len(strategy) + 1 /\ x \notin Strategies /\ x # 0 /\ NumberOf(strategy'[x]) \in {0, e.order}
EventIgnored(x) == SameState(strategy'[x], strategy[x]) /\ known' = known
EventConfirmed(e, x) ==
    /\ e.kind = "confirmed" /\ strategy'[x].live = strategy[x].live
    /\ strategy'[x].status = "OPEN" /\ NumberOf(strategy'[x]) = e.order
EventEnds(e, x) ==
    /\ e.kind # "confirmed" /\ known' = known
    /\ strategy'[x].live = strategy[x].live /\ strategy'[x].status \in {"TRADE", "CANCEL"}
    /\ NumberOf(strategy'[x]) = NumberOf(strategy[x])
EventFound(s, e, x) ==
    /\ x \in Strategies /\ Strategies' = Strategies /\ strategy[x].live /\ strategy[x].ses = s
    /\ EventIgnored(x) \/ EventConfirmed(e, x) \/ EventEnds(e, x)

\* An event changes the strategy that handles it: the one found, or a new one.
LEMMA EventStates ==
    ASSUME Safe, OneStrategy, NEW s \in Sessions, Eventsubscriber(s), NEW e, e = Head(session[s].inbox)
    PROVE  \/ UNCHANGED <<strategy, heard, known>>
           \/ \E x : EventOf(s, e, x) /\ (EventMade(e, x) \/ EventFound(s, e, x))
<1>0. TypeOK /\ InboxTags
  BY Zenon DEF Safe
<1>1. PICK d, found : d = Decode(orders[e.order].tag) /\ found = Find(s, d.PFNum)
  OBVIOUS
<1>2. EventEffect(s, e, d, found)
  BY <1>0, <1>1, EventStep, Zenon
<1>3. PICK z, all :
        /\ z = IF found = {} THEN Len(strategy) + 1 ELSE CHOOSE y \in found : TRUE
        /\ all = IF found = {} THEN Append(strategy, NewStrategy(s, d.PFNum, "event", "zero")) ELSE strategy
  OBVIOUS
<1>4. \/ UNCHANGED <<strategy, heard, known>>
      \/ /\ d.MsgType = eORDER
         /\ known' = IF /\ e.kind = "confirmed" /\ orders[e.order].obj = z /\ ~IsExit(s)
                        /\ all[z].pack.TokenFar = orders[e.order].far
                     THEN known \cup {e.order} ELSE known
  BY <1>1, <1>3, Zenon DEF Eventsubscriber
<1>5. CASE d.MsgType # eORDER \/ UNCHANGED <<strategy, heard, known>>
  BY <1>4, <1>5, Zenon
<1>6. CASE /\ d.MsgType = eORDER
           /\ known' = IF /\ e.kind = "confirmed" /\ orders[e.order].obj = z /\ ~IsExit(s)
                          /\ all[z].pack.TokenFar = orders[e.order].far
                       THEN known \cup {e.order} ELSE known
  <2>1. PICK x, st :
          /\ \/ x \in found /\ st = strategy[x] /\ Strategies' = Strategies
             \/ /\ found = {} /\ x = Len(strategy) + 1
                /\ st = NewStrategy(s, d.PFNum, "event", "zero")
          /\ strategy'[x] = After(st, e.order, e.kind)
          /\ GoodStrategy(st, Len(session), Len(orders))
          /\ \A y \in Strategies : y # x => strategy'[y] = strategy[y]
          /\ heard' = heard \cup {<<e.order, x>>}
    BY <1>2, <1>6, Zenon DEF EventEffect
  <2>2. st \in StrategyRecords
    BY <2>1, Zenon DEF GoodStrategy
  <2>3. PICK q : q = strategy'[x]
    OBVIOUS
  <2>4. \/ st.pack.TokenFar # orders[e.order].far /\ SameState(q, st)
        \/ /\ st.pack.TokenFar = orders[e.order].far /\ e.kind = "confirmed"
           /\ q.live = st.live /\ q.status = "OPEN" /\ NumberOf(q) = e.order
        \/ /\ st.pack.TokenFar = orders[e.order].far /\ e.kind # "confirmed"
           /\ q.live = st.live /\ q.status \in {"TRADE", "CANCEL"} /\ NumberOf(q) = NumberOf(st)
    <3>1. q = After(st, e.order, e.kind)
      BY <2>1, <2>3, Zenon
    <3> QED
      BY <2>2, <3>1, AfterState
  <2>5. known' = known \/ (known' = known \cup {e.order} /\ orders[e.order].obj = z /\ ~IsExit(s))
    BY <1>6, Zenon
  <2>6. CASE found = {} /\ x = Len(strategy) + 1 /\ st = NewStrategy(s, d.PFNum, "event", "zero")
    <3>1. x \notin Strategies /\ x # 0
      BY <1>0, <2>6, Lengths, SMT DEF Strategies
    <3>2. NumberOf(st) = 0
      BY <2>6, NewState, Zenon
    <3>3. NumberOf(q) \in {0, e.order}
      BY <2>4, <3>2, Zenon DEF SameState
    <3>4. EventMade(e, x)
      BY <2>3, <2>6, <3>1, <3>3, Zenon DEF EventMade
    <3>5. EventOf(s, e, x)
      BY <1>3, <2>1, <2>5, <2>6, Zenon DEF EventOf
    <3> QED
      BY <3>4, <3>5, Zenon
  <2>7. CASE x \in found /\ st = strategy[x] /\ Strategies' = Strategies
    <3>1. x \in Strategies /\ strategy[x].live /\ strategy[x].ses = s
      BY <1>1, <2>7, Zenon DEF Find
    <3>2. z \in found /\ all = strategy
      BY <1>3, <2>7, Zenon
    <3>3. z = x
      BY <1>1, <2>7, <3>2, Zenon DEF Find, OneStrategy
    <3>4. known' = IF /\ e.kind = "confirmed" /\ orders[e.order].obj = x /\ ~IsExit(s)
                      /\ st.pack.TokenFar = orders[e.order].far
                   THEN known \cup {e.order} ELSE known
      BY <1>6, <2>7, <3>2, <3>3, Zenon
    <3>5. EventIgnored(x) \/ EventConfirmed(e, x) \/ EventEnds(e, x)
      <4>1. CASE st.pack.TokenFar # orders[e.order].far /\ SameState(q, st)
        BY <2>3, <2>7, <3>4, <4>1, Zenon DEF EventIgnored
      <4>2. CASE /\ st.pack.TokenFar = orders[e.order].far /\ e.kind = "confirmed"
                 /\ q.live = st.live /\ q.status = "OPEN" /\ NumberOf(q) = e.order
        BY <2>3, <2>7, <4>2, Zenon DEF EventConfirmed
      <4>3. CASE /\ st.pack.TokenFar = orders[e.order].far /\ e.kind # "confirmed"
                 /\ q.live = st.live /\ q.status \in {"TRADE", "CANCEL"} /\ NumberOf(q) = NumberOf(st)
        BY <2>3, <2>7, <3>4, <4>3, Zenon DEF EventEnds
      <4> QED
        BY <2>4, <4>1, <4>2, <4>3, Zenon
    <3>6. EventFound(s, e, x)
      BY <2>7, <3>1, <3>5, Zenon DEF EventFound
    <3>7. EventOf(s, e, x)
      BY <2>1, <2>5, <3>3, Zenon DEF EventOf
    <3> QED
      BY <3>6, <3>7, Zenon
  <2> QED
    BY <2>1, <2>6, <2>7, Zenon
<1> QED
  BY <1>4, <1>5, <1>6, Zenon

\* Order w goes from one state to another, and some sessions get an event of this kind.
Moved(w, from, to, kind) ==
    /\ orders[w].state = from /\ orders'[w].state = to
    /\ Sessions' = Sessions /\ DOMAIN orders' = DOMAIN orders
    /\ \A o \in DOMAIN orders : orders'[o].obj = orders[o].obj /\ (o # w => orders'[o] = orders[o])
    /\ \A j \in Sessions :
         /\ session'[j].manual = session[j].manual /\ session'[j].hand = session[j].hand
         /\ \/ session'[j].inbox = session[j].inbox
            \/ session'[j].inbox = Append(session[j].inbox, [order |-> w, kind |-> kind])
    /\ UNCHANGED <<strategy, history>>

\* What a step of the exchange does.
ExchangeEffect(w, from, to, kind) ==
    /\ Moved(w, from, to, kind) /\ asked' \subseteq asked /\ asked \subseteq asked' \cup {w}
    /\ \/ from = "sent" /\ to = "working" /\ kind = "confirmed" /\ asked' = asked
       \/ from = "working" /\ to = "done" /\ kind \in {"traded", "cancelled"}
       \/ from = "done" /\ to = "done" /\ kind = "refused" /\ w \in asked

LEMMA MovesKept ==
    ASSUME Safe, NEW w \in DOMAIN orders, NEW from, NEW to \in {"working", "done"},
           NEW kind \in {"confirmed", "traded", "cancelled", "refused"}, Moves(w, from, to, kind),
           asked' \subseteq asked
    PROVE  Moved(w, from, to, kind)
<1>0. TypeOK
  BY Zenon DEF Safe
<1>1. orders[w].state = from /\ UNCHANGED <<strategy, history>>
  BY Zenon DEF Moves
<1>2. /\ TypeOK' /\ Len(session') = Len(session) /\ Len(orders') = Len(orders)
      /\ \A i \in DOMAIN orders : orders'[i] =
           IF i = w THEN [orders[w] EXCEPT !.state = to] ELSE orders[i]
      /\ \A j \in Sessions : session'[j] =
           IF session[j].listens /\ orders[w].tag \in SubscribedTags(session[j].client)
           THEN [session[j] EXCEPT !.inbox = Append(session[j].inbox, [order |-> w, kind |-> kind])]
           ELSE session[j]
  <2>1. MovesEffect(w, to, kind)
    BY <1>0, MovesStep
  <2> QED
    BY <2>1, Zenon DEF MovesEffect
<1>3. Sessions' = Sessions /\ DOMAIN orders' = DOMAIN orders
  <2>1. DOMAIN orders' = DOMAIN orders
    BY <1>0, <1>2, NextLengths, Lengths, Zenon
  <2> QED
    BY <1>2, <2>1, Zenon DEF Sessions
<1>4. orders'[w].state = to /\ orders'[w].obj = orders[w].obj
  <2>1. orders[w] \in OrderRecords
    BY <1>0, Records, Zenon
  <2>2. [orders[w] EXCEPT !.state = to].state = to /\ [orders[w] EXCEPT !.state = to].obj = orders[w].obj
    BY <2>1, SMT DEF OrderRecords
  <2> QED
    BY <1>2, <2>2, Zenon
<1>5. \A o \in DOMAIN orders : orders'[o].obj = orders[o].obj /\ (o # w => orders'[o] = orders[o])
  BY <1>2, <1>4, Zenon
<1>6. ASSUME NEW j \in Sessions
      PROVE  /\ session'[j].manual = session[j].manual /\ session'[j].hand = session[j].hand
             /\ \/ session'[j].inbox = session[j].inbox
                \/ session'[j].inbox = Append(session[j].inbox, [order |-> w, kind |-> kind])
  <2>1. PICK q : q = Append(session[j].inbox, [order |-> w, kind |-> kind])
    OBVIOUS
  <2>2. CASE session'[j] = [session[j] EXCEPT !.inbox = q]
    <3>1. session[j] \in SessionRecords
      BY <1>0, Records, Zenon
    <3>2. session'[j].inbox = q /\ session'[j].manual = session[j].manual /\ session'[j].hand = session[j].hand
      BY <2>2, <3>1, InboxFields
    <3> QED
      BY <2>1, <3>2, Zenon
  <2>3. CASE session'[j] = session[j]
    BY <2>3, Zenon
  <2> QED
    BY <1>2, <2>1, <2>2, <2>3, Zenon
<1> QED
  BY <1>1, <1>3, <1>4, <1>5, <1>6, Zenon DEF Moved

LEMMA ExchangeSteps ==
    ASSUME Safe, NEW w \in DOMAIN orders, Exchange(w)
    PROVE  \E from, to, kind : ExchangeEffect(w, from, to, kind)
<1>1. ASSUME NEW from, NEW to \in {"working", "done"},
             NEW kind \in {"confirmed", "traded", "cancelled", "refused"}, Moves(w, from, to, kind),
             asked' \subseteq asked, asked \subseteq asked' \cup {w},
             \/ from = "sent" /\ to = "working" /\ kind = "confirmed" /\ asked' = asked
             \/ from = "working" /\ to = "done" /\ kind \in {"traded", "cancelled"}
             \/ from = "done" /\ to = "done" /\ kind = "refused" /\ w \in asked
      PROVE  ExchangeEffect(w, from, to, kind)
  <2>1. Moved(w, from, to, kind)
    BY <1>1, MovesKept
  <2> QED
    BY <1>1, <2>1, Zenon DEF ExchangeEffect
<1>2. CASE Accept(w)
  BY <1>1, <1>2, Zenon DEF Accept
<1>3. CASE Fill(w)
  BY <1>1, <1>3, Zenon DEF Fill
<1>4. CASE Withdraw(w)
  <2>1. asked' = asked \ {w} /\ Moves(w, "working", "done", "cancelled")
    BY <1>4, Zenon DEF Withdraw
  <2>2. asked' \subseteq asked /\ asked \subseteq asked' \cup {w}
    BY <2>1, Zenon
  <2> QED
    BY <1>1, <2>1, <2>2, Zenon
<1>5. CASE Refuse(w)
  <2>1. asked' = asked \ {w} /\ Moves(w, "done", "done", "refused") /\ w \in asked
    BY <1>5, Zenon DEF Refuse
  <2>2. asked' \subseteq asked /\ asked \subseteq asked' \cup {w}
    BY <2>1, Zenon
  <2> QED
    BY <1>1, <2>1, <2>2, Zenon
<1> QED
  BY <1>2, <1>3, <1>4, <1>5, Zenon DEF Exchange

\* The order of an order's states.
LEMMA StatesForward ==
    ASSUME Safe, [Next]_vars, NEW o \in DOMAIN orders
    PROVE  /\ orders[o].state # "sent" => orders'[o].state # "sent"
           /\ orders[o].state = "done" => orders'[o].state = "done"
<1>1. CASE orders' = orders
  BY <1>1, Zenon
<1>2. ASSUME NEW w \in DOMAIN orders, Exchange(w)
      PROVE  /\ orders[o].state # "sent" => orders'[o].state # "sent"
             /\ orders[o].state = "done" => orders'[o].state = "done"
  <2>1. PICK from, to, kind : ExchangeEffect(w, from, to, kind)
    BY <1>2, ExchangeSteps
  <2>2. "working" # "sent" /\ "done" # "sent" /\ "working" # "done"
    OBVIOUS
  <2> QED
    BY <2>1, <2>2, Zenon DEF ExchangeEffect, Moved
<1>3. CASE \A v \in DOMAIN orders' : \/ v \in DOMAIN orders /\ orders'[v] = orders[v]
                                     \/ v \notin DOMAIN orders /\ OrderFrom(v)
  <2>1. o \in DOMAIN orders'
    BY NextSafe, Zenon DEF Kept, OrderKept
  <2> QED
    BY <1>3, <2>1, Zenon
<1> QED
  BY <1>1, <1>2, <1>3, NewOrders, Zenon

-----------------------------------------------------------------------------
(* ManualOrderStore stays empty.                                             *)

\* What a client sends for an order of its own is decoded to no order: none is ever stored.
NoManuals == \A s \in Sessions : session[s].manual = {}

LEMMA ManualsSame ==
    ASSUME NoManuals, Sessions' = Sessions, \A j \in Sessions : session'[j].manual = session[j].manual
    PROVE  NoManuals'
  BY Zenon DEF NoManuals

LEMMA ManualRequests ==
    ASSUME Safe, NoManuals, NEW c \in Clients, Requests(c)
    PROVE  NoManuals'
<1>0. TypeOK
  BY Zenon DEF Safe
<1>1. ASSUME Login(c) PROVE NoManuals'
  <2>1. CASE ~IniMap
    <3>1. session' = session
      BY <1>1, <2>1, Zenon DEF Login
    <3> QED
      BY <3>1, ManualsSame, Zenon DEF Sessions
  <2>2. CASE IniMap
    <3>1. PICK n : n = Len(session) + 1
      OBVIOUS
    <3>2. /\ session'[n] = NewSession(c, cimlist') /\ Len(session') = n
          /\ \A j \in Sessions : session'[j] = session[j]
      BY <1>0, <1>1, <2>2, <3>1, LoginStep, Zenon
    <3>3. session'[n].manual = {}
      <4>1. NewSession(c, cimlist').manual = {}
        BY SMT DEF NewSession
      <4> QED
        BY <3>2, <4>1, Zenon
    <3>4. \A j \in Sessions' : j \in Sessions \/ j = n
      BY <1>0, <3>1, <3>2, Lengths, SMT DEF Sessions
    <3> QED
      BY <3>2, <3>3, <3>4, Zenon DEF NoManuals
  <2> QED
    BY <2>1, <2>2, Zenon
<1>2. ASSUME Dispose(c) PROVE NoManuals'
  <2>1. /\ Len(session') = Len(session)
        /\ \A j \in Sessions : session'[j] = IF j = StgMap[c] THEN [session[j] EXCEPT !.phase = "exiting"]
                                             ELSE session[j]
    BY <1>0, <1>2, DisposeStep
  <2>2. ASSUME NEW j \in Sessions, session'[j] = [session[j] EXCEPT !.phase = "exiting"]
        PROVE  session'[j].manual = session[j].manual
    BY <1>0, <2>2, Records, PhaseFields
  <2> QED
    BY <2>1, <2>2, ManualsSame, Zenon DEF Sessions
<1>3. ASSUME NEW p \in Packets, HandleOnFOPairSubscription(c, p) PROVE NoManuals'
  <2>1. PICK s, found : s = StgMap[c] /\ found = Find(s, p.PORTFOLIONAME)
    OBVIOUS
  <2>2. Len(session') = Len(session) /\ SubscriptionEffect(s, p, found)
    BY <1>0, <1>3, <2>1, SubscriptionStep
  <2>3. PICK x, g : \A j \in Sessions : session'[j] = IF j = s THEN Connect(session[j], x, g, p) ELSE session[j]
    BY <2>2, Zenon DEF SubscriptionEffect
  <2>4. ASSUME NEW j \in Sessions, session'[j] = Connect(session[j], x, g, p)
        PROVE  session'[j].manual = session[j].manual
    BY <1>0, <2>4, Records, ConnectFields
  <2> QED
    BY <2>2, <2>3, <2>4, ManualsSame, Zenon DEF Sessions
<1>4. ASSUME NEW PF, HandleOnFOPairUnSubscription(c, PF) PROVE NoManuals'
  <2>1. PICK s : s = StgMap[c]
    OBVIOUS
  <2>2. PICK x : Len(session') = Len(session) /\ UnSubscriptionEffect(s, x)
    BY <1>0, <1>4, <2>1, UnSubscriptionStep
  <2>3. ASSUME NEW j \in Sessions, session'[j] = Disconnect(session[j], x, strategy[x].gen)
        PROVE  session'[j].manual = session[j].manual
    BY <1>0, <2>3, Records, DisconnectFields
  <2> QED
    BY <2>2, <2>3, ManualsSame, Zenon DEF Sessions, UnSubscriptionEffect
<1>5. ASSUME NEW p \in Packets, ManualOrderEntry(c, p.TokenFar) PROVE NoManuals'
  <2>1. PICK s, t : s = StgMap[c] /\ t = p.TokenFar
    OBVIOUS
  <2>2. t \in AllTokens
    BY <2>1, PacketTypes, Zenon
  <2>3. /\ Len(session') = Len(session)
        /\ \E D \in Dictionaries : OnlySession(s, [session[s] EXCEPT !.SymbolDictionary = D])
    BY <1>0, <1>5, <2>1, <2>2, ManualOrderStep
  <2>4. PICK D : OnlySession(s, [session[s] EXCEPT !.SymbolDictionary = D])
    BY <2>3, Zenon
  <2>5. ASSUME NEW j \in Sessions, session'[j] = [session[j] EXCEPT !.SymbolDictionary = D]
        PROVE  session'[j].manual = session[j].manual
    BY <1>0, <2>5, Records, DictionaryFields
  <2> QED
    BY <2>3, <2>4, <2>5, ManualsSame, Zenon DEF Sessions, OnlySession
<1>6. ASSUME session' = session PROVE NoManuals'
  BY <1>6, ManualsSame, Zenon DEF Sessions
<1> QED
  BY <1>1, <1>2, <1>3, <1>4, <1>5, <1>6, Zenon DEF Requests, HandleOnFOPairDiff, ManualOrder_Mod_CNclEntry

LEMMA ManualEvent ==
    ASSUME Safe, NoManuals, NEW s \in Sessions, Eventsubscriber(s)
    PROVE  NoManuals'
<1>0. TypeOK /\ InboxTags
  BY Zenon DEF Safe
<1>1. PICK e, d : e = Head(session[s].inbox) /\ d = Decode(orders[e.order].tag)
  OBVIOUS
<1>2. /\ Len(session') = Len(session) /\ session[s].inbox # <<>>
      /\ \A j \in Sessions : session'[j] = IF j = s THEN Heard(session[s], d) ELSE session[j]
  <2>1. EventEffect(s, e, d, Find(s, d.PFNum))
    BY <1>0, <1>1, EventStep, Zenon
  <2> QED
    BY <2>1, Zenon DEF EventEffect
<1>3. session'[s].manual = ManualOrderStore({}, d, e)
  <2>1. session[s] \in SessionRecords /\ session'[s] = Heard(session[s], d)
    BY <1>0, <1>2, Records, Zenon
  <2>2. session'[s].manual = ManualOrderStore(session[s].manual, d, Head(session[s].inbox))
    BY <2>1, HeardFields
  <2> QED
    BY <1>1, <2>2, Zenon DEF NoManuals
<1>4. ~(d.MsgType = eORDER /\ d.PFNum >= Manual)
  <2>1. SUFFICES ASSUME d.MsgType = eORDER PROVE ~(d.PFNum >= Manual)
    BY Zenon
  <2>2. e.order \in DOMAIN orders /\ orders[e.order].tag \in SubscribedTags(session[s].client)
    BY <1>0, <1>1, <1>2, FirstEvent, Zenon
  <2>3. session[s].client \in Client
    BY <1>0, ClientTypes, Zenon
  <2>4. d.PFNum \in Portfolio
    BY <1>1, <2>1, <2>2, <2>3, DecodeSubscribed, Zenon
  <2> QED
    BY <2>4, SMT DEF Portfolio, Manual
<1>5. session'[s].manual = {}
  BY <1>3, <1>4, Zenon DEF ManualOrderStore
<1> QED
  BY <1>2, <1>5, Zenon DEF NoManuals, Sessions

LEMMA NoManualsKept == ASSUME Safe, NoManuals, [Next]_vars PROVE NoManuals'
<1>0. TypeOK
  BY Zenon DEF Safe
<1>1. ASSUME NEW s \in Sessions, Disposal(s) PROVE NoManuals'
  <2>1. ASSUME NEW T, NEW j \in Sessions, session'[j] = Halted(session[j], T)
        PROVE  session'[j].manual = session[j].manual
    BY <1>0, <2>1, Records, StoppedFields
  <2>2. ASSUME NEW T, NEW j \in Sessions, session'[j] = Cleared(session[j], T)
        PROVE  session'[j].manual = session[j].manual
    BY <1>0, <2>2, Records, ErasedFields
  <2>3. CASE StopAllOrder(s)
    <3>1. Len(session') = Len(session) /\ \E T : OnlySession(s, Halted(session[s], T))
      BY <1>0, <2>3, StopAllOrderStep
    <3> QED
      BY <2>1, <3>1, ManualsSame, Zenon DEF Sessions, OnlySession
  <2>4. CASE EraseAll(s)
    <3>1. Len(session') = Len(session) /\ \E T : OnlySession(s, Cleared(session[s], T))
      BY <1>0, <2>4, EraseAllStep
    <3> QED
      BY <2>2, <3>1, ManualsSame, Zenon DEF Sessions, OnlySession
  <2> QED
    BY <1>1, <2>3, <2>4, Zenon DEF Disposal
<1>2. ASSUME NEW s \in Sessions, DataThread(s) PROVE NoManuals'
  <2>1. ASSUME NEW h, NEW j \in Sessions, session'[j] = [session[j] EXCEPT !.hand = h]
        PROVE  session'[j].manual = session[j].manual
    BY <1>0, <2>1, Records, HandFields
  <2>2. CASE Look(s)
    <3>1. PICK h : /\ Len(session') = Len(session)
                   /\ \A j \in Sessions : session'[j] =
                        IF j = s THEN [session[s] EXCEPT !.hand = h] ELSE session[j]
      BY <1>0, <2>2, LookStep
    <3> QED
      BY <2>1, <3>1, ManualsSame, Zenon DEF Sessions
  <2>3. CASE Send(s)
    <3>1. /\ Len(session') = Len(session)
          /\ \A j \in Sessions : session'[j] =
               IF j = s THEN [session[s] EXCEPT !.hand = 0] ELSE session[j]
      BY <1>0, <2>3, SendStep, Zenon
    <3> QED
      BY <2>1, <3>1, ManualsSame, Zenon DEF Sessions
  <2>4. CASE CallErased(s)
    BY <2>4, ManualsSame, Zenon DEF Sessions, CallErased
  <2>5. CASE Datasubscriber(s)
    <3>1. /\ Len(session') = Len(session)
          /\ OnlySession(s, [session[s] EXCEPT !.Datasock = TRUE])
      BY <1>0, <2>5, DatasubscriberStep
    <3>2. ASSUME NEW j \in Sessions, session'[j] = [session[j] EXCEPT !.Datasock = TRUE]
          PROVE  session'[j].manual = session[j].manual
      BY <1>0, <3>2, Records, SocketFields
    <3> QED
      BY <3>1, <3>2, ManualsSame, Zenon DEF Sessions, OnlySession
  <2> QED
    BY <1>2, <2>2, <2>3, <2>4, <2>5, Zenon DEF DataThread
<1>3. ASSUME NEW o \in DOMAIN orders, Exchange(o) PROVE NoManuals'
  <2>1. PICK from, to, kind : ExchangeEffect(o, from, to, kind)
    BY <1>3, ExchangeSteps
  <2> QED
    BY <2>1, ManualsSame, Zenon DEF ExchangeEffect, Moved
<1>4. ASSUME LoadSettings \/ LoadContract \/ UNCHANGED vars PROVE NoManuals'
  <2>1. session' = session
    BY <1>4, Zenon DEF LoadSettings, LoadContract, vars
  <2> QED
    BY <2>1, ManualsSame, Zenon DEF Sessions
<1> QED
  BY <1>1, <1>2, <1>3, <1>4, ManualRequests, ManualEvent, Zenon DEF Next, Step

-----------------------------------------------------------------------------
(* What is in the inboxes, and in hand.                                      *)

\* Events are of orders that the exchange took; a traded, cancelled or refused order is done,
\* and an event after it is a refusal.
Orderly(q, D) ==
    \A i \in DOMAIN q :
        /\ D[q[i].order].state # "sent"
        /\ q[i].kind # "confirmed" => D[q[i].order].state = "done"
        /\ \A j \in DOMAIN q :
             j > i /\ q[j].order = q[i].order /\ q[i].kind # "confirmed" => q[j].kind = "refused"

EventsOrderly == \A s \in Sessions : Orderly(session[s].inbox, orders)

\* An inbox with fewer events, or of orders that only went forward.
LEMMA OrderlyKept ==
    ASSUME NEW q, NEW D, NEW E, Orderly(q, D),
           \A i \in DOMAIN q : /\ D[q[i].order].state # "sent" => E[q[i].order].state # "sent"
                               /\ D[q[i].order].state = "done" => E[q[i].order].state = "done"
    PROVE  Orderly(q, E)
  BY Zenon DEF Orderly

LEMMA OrderlyTail ==
    ASSUME NEW q \in Seq(Events), q # <<>>, NEW D, Orderly(q, D)
    PROVE  Orderly(Tail(q), D)
<1>1. \A i \in DOMAIN Tail(q) : i \in Nat /\ i + 1 \in DOMAIN q /\ Tail(q)[i] = q[i + 1]
  <2>1. \A i \in DOMAIN Tail(q) : i \in Nat
    BY HeadTailProperties, SMT
  <2> QED
    BY <2>1, TailElements, Zenon
<1>2. SUFFICES ASSUME NEW i \in DOMAIN Tail(q)
               PROVE  /\ D[Tail(q)[i].order].state # "sent"
                      /\ Tail(q)[i].kind # "confirmed" => D[Tail(q)[i].order].state = "done"
                      /\ \A j \in DOMAIN Tail(q) :
                           j > i /\ Tail(q)[j].order = Tail(q)[i].order /\ Tail(q)[i].kind # "confirmed"
                             => Tail(q)[j].kind = "refused"
  BY Zenon DEF Orderly
<1>3. /\ D[Tail(q)[i].order].state # "sent"
      /\ Tail(q)[i].kind # "confirmed" => D[Tail(q)[i].order].state = "done"
  <2>1. PICK k \in DOMAIN q : Tail(q)[i] = q[k]
    BY <1>1, <1>2, Zenon
  <2>2. D[q[k].order].state # "sent" /\ (q[k].kind # "confirmed" => D[q[k].order].state = "done")
    BY <2>1, Zenon DEF Orderly
  <2> QED
    BY <2>1, <2>2, Zenon
<1>4. ASSUME NEW j \in DOMAIN Tail(q), j > i, Tail(q)[j].order = Tail(q)[i].order,
             Tail(q)[i].kind # "confirmed"
      PROVE  Tail(q)[j].kind = "refused"
  <2>1. j + 1 > i + 1
    BY <1>1, <1>2, <1>4, SMT
  <2> QED
    BY <1>1, <1>2, <1>4, <2>1, Zenon DEF Orderly
<1> QED
  BY <1>3, <1>4, Zenon

LEMMA OrderlyAppend ==
    ASSUME NEW q \in Seq(Events), NEW D, Orderly(q, D), NEW e \in Events,
           D[e.order].state # "sent", e.kind # "confirmed" => D[e.order].state = "done",
           \A i \in DOMAIN q : q[i].order = e.order /\ q[i].kind # "confirmed" => e.kind = "refused"
    PROVE  Orderly(Append(q, e), D)
<1>1. PICK n : n = Append(q, e)
  OBVIOUS
<1>2. \A i \in DOMAIN n : (i \in DOMAIN q /\ n[i] = q[i]) \/ (i = Len(q) + 1 /\ n[i] = e)
  BY <1>1, SMT
<1>3. \A i, j \in DOMAIN n : j > i => i \in DOMAIN q
  BY <1>1, SMT
<1>4. SUFFICES ASSUME NEW i \in DOMAIN n
               PROVE  /\ D[n[i].order].state # "sent"
                      /\ n[i].kind # "confirmed" => D[n[i].order].state = "done"
                      /\ \A j \in DOMAIN n : j > i /\ n[j].order = n[i].order /\ n[i].kind # "confirmed"
                           => n[j].kind = "refused"
  BY <1>1, Zenon DEF Orderly
<1>5. /\ D[n[i].order].state # "sent"
      /\ n[i].kind # "confirmed" => D[n[i].order].state = "done"
  BY <1>2, <1>4, Zenon DEF Orderly
<1>6. ASSUME NEW j \in DOMAIN n, j > i, n[j].order = n[i].order, n[i].kind # "confirmed"
      PROVE  n[j].kind = "refused"
  <2>1. i \in DOMAIN q /\ n[i] = q[i]
    <3>1. i \in DOMAIN q
      BY <1>3, <1>4, <1>6, Zenon
    <3>2. i # Len(q) + 1
      BY <3>1, SMT
    <3> QED
      BY <1>2, <1>4, <3>2, Zenon
  <2>2. CASE j \in DOMAIN q /\ n[j] = q[j]
    BY <1>6, <2>1, <2>2, Zenon DEF Orderly
  <2>3. CASE n[j] = e
    BY <1>6, <2>1, <2>3, Zenon
  <2> QED
    BY <1>2, <1>6, <2>2, <2>3, Zenon
<1> QED
  BY <1>5, <1>6, Zenon

LEMMA InboxTypes ==
    ASSUME TypeOK, NEW s \in Sessions
    PROVE  /\ session[s].inbox \in Seq(Events)
           /\ \A i \in DOMAIN session[s].inbox : session[s].inbox[i].order \in DOMAIN orders
  BY Referred, TypeSplit, SessionFields, Zenon DEF SessionsGood

\* A new session has nothing in its inbox or in hand.
LEMMA NewSessions ==
    ASSUME Safe, [Next]_vars, NEW s \in Sessions', s \notin Sessions
    PROVE  session'[s].inbox = <<>> /\ session'[s].hand = 0 /\ \E c \in Clients : Login(c)
<1>0. TypeOK
  BY Zenon DEF Safe
<1>1. PICK c \in Clients : Login(c)
  <2>1. ASSUME NEW c \in Clients, Dispose(c) PROVE Sessions' = Sessions
    <3>1. Len(session') = Len(session)
      BY <1>0, <2>1, DisposeStep
    <3> QED
      BY <3>1, Zenon DEF Sessions
  <2>2. ASSUME NEW r \in Sessions, Disposal(r) PROVE Sessions' = Sessions
    <3>1. Len(session') = Len(session)
      BY <1>0, <2>2, StopAllOrderStep, EraseAllStep DEF Disposal
    <3> QED
      BY <3>1, Zenon DEF Sessions
  <2> QED
    BY <2>1, <2>2, PhaseSteps, Zenon DEF PhasesKept
<1>2. CASE ~IniMap
  <2>1. session' = session
    BY <1>1, <1>2, Zenon DEF Login
  <2> QED
    BY <2>1, Zenon DEF Sessions
<1>3. CASE IniMap
  <2>1. PICK n : n = Len(session) + 1
    OBVIOUS
  <2>2. session'[n] = NewSession(c, cimlist') /\ Len(session') = n
    BY <1>0, <1>1, <1>3, <2>1, LoginStep, Zenon
  <2>3. s = n
    BY <1>0, <2>1, <2>2, Lengths, SMT DEF Sessions
  <2>4. NewSession(c, cimlist').inbox = <<>> /\ NewSession(c, cimlist').hand = 0
    BY SMT DEF NewSession
  <2> QED
    BY <1>1, <2>2, <2>3, <2>4, Zenon
<1> QED
  BY <1>2, <1>3, Zenon

\* Old orders after a step that is not the exchange's.
LEMMA OldOrders ==
    ASSUME Safe, [Next]_vars, ~ \E o \in DOMAIN orders : Exchange(o)
    PROVE  \A o \in DOMAIN orders : o \in DOMAIN orders' /\ orders'[o] = orders[o]
<1>1. \A o \in DOMAIN orders : o \in DOMAIN orders'
  BY NextSafe, Zenon DEF Kept, OrderKept
<1> QED
  BY <1>1, NewOrders, Zenon

\* What the event thread leaves in the inboxes.
LEMMA EventInboxes ==
    ASSUME Safe, NEW s \in Sessions, Eventsubscriber(s)
    PROVE  /\ session[s].inbox # <<>> /\ orders' = orders /\ asked' = asked /\ shadowed' = shadowed
           /\ session'[s].inbox = Tail(session[s].inbox) \/ session'[s].inbox = <<>>
           /\ \A j \in Sessions : j # s => session'[j] = session[j]
<1>0. TypeOK /\ InboxTags
  BY Zenon DEF Safe
<1>1. PICK e, d : e = Head(session[s].inbox) /\ d = Decode(orders[e.order].tag)
  OBVIOUS
<1>2. /\ Len(session') = Len(session) /\ session[s].inbox # <<>> /\ orders' = orders
      /\ \A j \in Sessions : session'[j] = IF j = s THEN Heard(session[s], d) ELSE session[j]
  <2>1. EventEffect(s, e, d, Find(s, d.PFNum))
    BY <1>0, <1>1, EventStep, Zenon
  <2> QED
    BY <2>1, Zenon DEF EventEffect
<1>3. session'[s].inbox = Tail(session[s].inbox) \/ session'[s].inbox = <<>>
  <2>1. session[s] \in SessionRecords /\ session'[s] = Heard(session[s], d)
    BY <1>0, <1>2, Records, Zenon
  <2>2. session'[s].inbox = IF session[s].phase = "open" THEN Tail(session[s].inbox) ELSE <<>>
    BY <2>1, HeardFields
  <2> QED
    BY <2>2, Zenon
<1>4. asked' = asked /\ shadowed' = shadowed
  BY Zenon DEF Eventsubscriber
<1> QED
  BY <1>2, <1>3, <1>4, Zenon

LEMMA NothingOrderly == ASSUME NEW D PROVE Orderly(<<>>, D)
<1>1. DOMAIN <<>> = {}
  BY SMT
<1> QED
  BY <1>1, Zenon DEF Orderly

LEMMA OrderlyEvent ==
    ASSUME Safe, EventsOrderly, NEW s \in Sessions, Eventsubscriber(s)
    PROVE  EventsOrderly'
<1>0. TypeOK
  BY Zenon DEF Safe
<1>1. /\ session[s].inbox # <<>> /\ orders' = orders
      /\ session'[s].inbox = Tail(session[s].inbox) \/ session'[s].inbox = <<>>
      /\ \A j \in Sessions : j # s => session'[j] = session[j]
  BY EventInboxes
<1>2. Sessions' = Sessions
  BY EventSafe, Zenon DEF PhasesKept
<1>3. Orderly(session[s].inbox, orders) /\ session[s].inbox \in Seq(Events)
  BY <1>0, InboxTypes, Zenon DEF EventsOrderly
<1>4. Orderly(Tail(session[s].inbox), orders)
  BY <1>1, <1>3, OrderlyTail
<1>5. Orderly(session'[s].inbox, orders)
  BY <1>1, <1>4, NothingOrderly, Zenon
<1> QED
  BY <1>1, <1>2, <1>5, Zenon DEF EventsOrderly

LEMMA OrderlyExchange ==
    ASSUME Safe, EventsOrderly, NEW w \in DOMAIN orders, Exchange(w)
    PROVE  EventsOrderly'
<1>0. TypeOK
  BY Zenon DEF Safe
<1>1. PICK from, to, kind : ExchangeEffect(w, from, to, kind)
  BY ExchangeSteps
<1>2. PICK e : e = [order |-> w, kind |-> kind]
  OBVIOUS
<1>3. e \in Events /\ e.order = w /\ e.kind = kind
  <2>1. w \in Nat
    BY <1>0, Lengths, SMT
  <2>2. kind \in {"confirmed", "traded", "cancelled", "refused"}
    BY <1>1, Zenon DEF ExchangeEffect
  <2> QED
    BY <1>2, <2>1, <2>2, SMT DEF Events
<1>4. SUFFICES ASSUME NEW s \in Sessions PROVE Orderly(session'[s].inbox, orders')
  BY <1>1, Zenon DEF EventsOrderly, ExchangeEffect, Moved
<1>5. PICK q, D, E : q = session[s].inbox /\ D = orders /\ E = orders'
  OBVIOUS
<1>6. q \in Seq(Events) /\ Orderly(q, D) /\ \A i \in DOMAIN q : q[i].order \in DOMAIN D
  BY <1>0, <1>5, InboxTypes, Zenon DEF EventsOrderly
<1>7. /\ D[w].state = from /\ E[w].state = to /\ \A o \in DOMAIN D : o # w => E[o] = D[o]
      /\ \/ from = "sent" /\ to = "working" /\ kind = "confirmed"
         \/ from = "working" /\ to = "done" /\ kind \in {"traded", "cancelled"}
         \/ from = "done" /\ to = "done" /\ kind = "refused"
      /\ session'[s].inbox = q \/ session'[s].inbox = Append(q, e)
  BY <1>1, <1>2, <1>5, Zenon DEF ExchangeEffect, Moved
<1>8. "working" # "sent" /\ "done" # "sent" /\ "working" # "done"
  OBVIOUS
<1>9. Orderly(q, E)
  <2>1. \A i \in DOMAIN q : /\ D[q[i].order].state # "sent" => E[q[i].order].state # "sent"
                            /\ D[q[i].order].state = "done" => E[q[i].order].state = "done"
    BY <1>6, <1>7, <1>8, Zenon
  <2> QED
    BY <1>6, <2>1, OrderlyKept
<1>10. Orderly(Append(q, e), E)
  <2>1. E[e.order].state # "sent"
    BY <1>3, <1>7, <1>8, Zenon
  <2>2. e.kind # "confirmed" => E[e.order].state = "done"
    BY <1>3, <1>7, Zenon
  <2>3. \A i \in DOMAIN q : q[i].order = e.order /\ q[i].kind # "confirmed" => e.kind = "refused"
    <3>1. \A i \in DOMAIN q : q[i].order = w /\ q[i].kind # "confirmed" => D[w].state = "done"
      BY <1>6, Zenon DEF Orderly
    <3> QED
      BY <1>3, <1>7, <1>8, <3>1, Zenon
  <2> QED
    BY <1>3, <1>6, <1>9, <2>1, <2>2, <2>3, OrderlyAppend
<1> QED
  BY <1>5, <1>7, <1>9, <1>10, Zenon

LEMMA EventsOrderlyKept == ASSUME Safe, EventsOrderly, [Next]_vars PROVE EventsOrderly'
<1>0. TypeOK
  BY Zenon DEF Safe
<1>1. ASSUME InboxesKept, ~ \E o \in DOMAIN orders : Exchange(o)
      PROVE  EventsOrderly'
  <2>1. SUFFICES ASSUME NEW s \in Sessions' PROVE Orderly(session'[s].inbox, orders')
    BY Zenon DEF EventsOrderly
  <2>2. CASE s \notin Sessions
    BY <2>2, NewSessions, NothingOrderly, Zenon
  <2>3. CASE s \in Sessions
    <3>1. PICK q, D, E : q = session[s].inbox /\ D = orders /\ E = orders'
      OBVIOUS
    <3>2. Orderly(q, D) /\ session'[s].inbox = q
      BY <1>1, <2>3, <3>1, Zenon DEF EventsOrderly, InboxesKept
    <3>3. \A i \in DOMAIN q : E[q[i].order] = D[q[i].order]
      BY <1>0, <1>1, <2>3, <3>1, InboxTypes, OldOrders, Zenon
    <3>4. Orderly(q, E)
      BY <3>2, <3>3, OrderlyKept
    <3> QED
      BY <3>1, <3>2, <3>4, Zenon
  <2> QED
    BY <2>2, <2>3, Zenon
<1> QED
  BY <1>1, InboxSteps, OrderlyEvent, OrderlyExchange, Zenon

\* Only the data thread of a session takes a strategy of that session in hand.
HandInv == \A s \in Sessions : session[s].hand # 0 => strategy[session[s].hand].ses = s

LEMMA HandSteps ==
    ASSUME Safe, [Next]_vars
    PROVE  HandsKept \/ \E s \in Sessions : Look(s)
<1>1. ASSUME NEW c \in Clients, Requests(c) PROVE HandsKept
  BY <1>1, LoginSafe, DisposeSafe, SubscriptionSafe, UnSubscriptionSafe, DiffSafe, PacketTypes,
     ManualOrderSafe, ManualChangeSafe, Zenon DEF Requests
<1>2. ASSUME NEW s \in Sessions, Disposal(s) \/ DataThread(s) \/ Eventsubscriber(s)
      PROVE  HandsKept \/ Look(s)
  BY <1>2, StopAllOrderSafe, EraseAllSafe, DatasubscriberSafe, SendSafe, CallErasedSafe, EventSafe, Zenon
     DEF Disposal, DataThread
<1> QED
  BY <1>1, <1>2, MainSafe, ExchangeSafe, Zenon DEF Next, Step

LEMMA LookHands ==
    ASSUME Safe, NEW s \in Sessions, Look(s)
    PROVE  /\ session[s].phase = "open" /\ strategy' = strategy /\ Sessions' = Sessions
           /\ UNCHANGED <<orders, asked, history>>
           /\ \E d \in session[s].DataPack :
                /\ d.obj \in Strategies /\ strategy[d.obj].live /\ MayQuote(strategy[d.obj])
                /\ session'[s].hand = d.obj
                /\ \A j \in Sessions : j # s => session'[j] = session[j]
<1>0. TypeOK
  BY Zenon DEF Safe
<1>1. Len(session') = Len(session) /\ strategy' = strategy
  BY <1>0, LookStep
<1>2. PICK d \in session[s].DataPack :
               /\ d.obj \in Strategies /\ strategy[d.obj].live /\ MayQuote(strategy[d.obj])
               /\ \A j \in Sessions : session'[j] =
                    IF j = s THEN [session[s] EXCEPT !.hand = d.obj] ELSE session[j]
  BY <1>0, LookStep
<1>3. session'[s].hand = d.obj
  <2>1. session'[s] = [session[s] EXCEPT !.hand = d.obj] /\ session[s] \in SessionRecords
    BY <1>0, <1>2, Records, Zenon
  <2> QED
    BY <2>1, HandFields
<1>4. session[s].phase = "open" /\ UNCHANGED <<orders, asked, history>>
  BY Zenon DEF Look, IsExit
<1>5. Sessions' = Sessions
  BY <1>1, Zenon DEF Sessions
<1> QED
  BY <1>1, <1>2, <1>3, <1>4, <1>5, Zenon

LEMMA HandInvKept == ASSUME Safe, HandInv, CallInv, [Next]_vars PROVE HandInv'
<1>0. TypeOK /\ Kept
  BY NextSafe, Zenon DEF Safe
<1>1. CASE HandsKept
  <2>1. \A s \in Sessions : session[s].hand # 0 => session[s].hand \in Strategies
    BY <1>0, Referred, Zenon
  <2>2. SUFFICES ASSUME NEW s \in Sessions', session'[s].hand # 0
                 PROVE  strategy'[session'[s].hand].ses = s
    BY Zenon DEF HandInv
  <2>3. PICK x : x = session'[s].hand
    OBVIOUS
  <2>4. s \in Sessions /\ session[s].hand = x /\ x # 0
    BY <1>1, <2>2, <2>3, Zenon DEF HandsKept
  <2>5. x \in Strategies /\ strategy[x].ses = s
    BY <2>1, <2>4, Zenon DEF HandInv
  <2> QED
    BY <1>0, <2>3, <2>5, Zenon DEF Kept, StrategyKept, SameMaking
<1>2. ASSUME NEW s \in Sessions, Look(s) PROVE HandInv'
  <2>1. /\ session[s].phase = "open" /\ strategy' = strategy /\ Sessions' = Sessions
        /\ \E d \in session[s].DataPack :
             session'[s].hand = d.obj /\ \A j \in Sessions : j # s => session'[j] = session[j]
    BY <1>2, LookHands, Zenon
  <2>2. PICK d \in session[s].DataPack :
             session'[s].hand = d.obj /\ \A j \in Sessions : j # s => session'[j] = session[j]
    BY <2>1, Zenon
  <2>3. strategy[d.obj].ses = s
    BY <2>1, <2>2, Zenon DEF CallInv
  <2>4. SUFFICES ASSUME NEW j \in Sessions, session'[j].hand # 0
                 PROVE  strategy[session'[j].hand].ses = j
    BY <2>1, Zenon DEF HandInv
  <2>5. CASE j = s
    BY <2>2, <2>3, <2>5, Zenon
  <2>6. CASE j # s
    BY <2>2, <2>4, <2>6, Zenon DEF HandInv
  <2> QED
    BY <2>5, <2>6, Zenon
<1> QED
  BY <1>1, <1>2, HandSteps, Zenon

-----------------------------------------------------------------------------
(* The numbers a strategy took, and the strategies that matter.              *)

LEMMA HeardKept ==
    ASSUME Safe, [Next]_vars
    PROVE  heard \subseteq heard' /\ (known' = known \/ \E s \in Sessions : Eventsubscriber(s))
<1>1. ASSUME NEW w \in DOMAIN orders, Exchange(w) PROVE heard' = heard /\ known' = known
  <2>1. PICK from, to, kind : ExchangeEffect(w, from, to, kind)
    BY <1>1, ExchangeSteps
  <2> QED
    BY <2>1, Zenon DEF ExchangeEffect, Moved, history
<1> QED
  BY <1>1, InboxSteps, HeardGrows, Zenon

\* An order known to its strategy has a number and a strategy.
KnownInv == \A o \in known : orders[o].state # "sent" /\ orders[o].obj # 0

LEMMA HeadEvent ==
    ASSUME TypeOK, NEW s \in Sessions, session[s].inbox # <<>>, NEW e, e = Head(session[s].inbox)
    PROVE  1 \in DOMAIN session[s].inbox /\ session[s].inbox[1] = e
<1>1. session[s].inbox \in Seq(Events)
  BY InboxTypes, Zenon
<1> QED
  BY <1>1, SMT

LEMMA KnownInvKept ==
    ASSUME Safe, SenderInv, EventsOrderly, KnownInv, [Next]_vars
    PROVE  KnownInv'
<1>0. TypeOK /\ Kept /\ OneStrategy
  BY NextSafe, Zenon DEF Safe, SenderInv
<1>1. ASSUME NEW o \in known PROVE orders'[o].state # "sent" /\ orders'[o].obj # 0
  <2>1. o \in DOMAIN orders
    BY <1>0, TypeSplit, Zenon DEF HistoryTypes
  <2>2. orders'[o].obj = orders[o].obj
    BY <1>0, <2>1, Zenon DEF Kept, OrderKept
  <2> QED
    BY <2>1, <2>2, StatesForward, Zenon DEF KnownInv
<1>2. ASSUME NEW s \in Sessions, Eventsubscriber(s), NEW o \in known', o \notin known
      PROVE  orders'[o].state # "sent" /\ orders'[o].obj # 0
  <2>1. PICK e : e = Head(session[s].inbox)
    OBVIOUS
  <2>2. PICK x : /\ known' = known \/ (known' = known \cup {e.order} /\ orders[e.order].obj = x)
                 /\ x # 0 \/ x \in Strategies
    <3>1. known' # known
      BY <1>2, Zenon
    <3>2. PICK x : EventOf(s, e, x) /\ (EventMade(e, x) \/ EventFound(s, e, x))
      BY <1>0, <1>2, <2>1, <3>1, EventStates, Zenon
    <3> QED
      BY <3>2, Zenon DEF EventOf, EventMade, EventFound
  <2>3. o = e.order /\ orders[o].obj = x
    BY <1>2, <2>2, Zenon
  <2>4. x # 0
    BY <2>2, SMT DEF Strategies
  <2>5. session[s].inbox # <<>> /\ orders' = orders
    BY <1>2, EventInboxes, Zenon
  <2>6. orders[e.order].state # "sent"
    BY <1>0, <2>1, <2>5, HeadEvent, Zenon DEF EventsOrderly, Orderly
  <2> QED
    BY <2>3, <2>4, <2>5, <2>6, Zenon
<1> QED
  BY <1>1, <1>2, HeardKept, Zenon DEF KnownInv

\* The order whose number a strategy took is one it heard of.
NumberInv == \A x \in Strategies : NumberOf(strategy[x]) # 0 => <<NumberOf(strategy[x]), x>> \in heard

\* Only subscriptions, settings of quantities and events make strategies.
LEMMA MakingSteps ==
    ASSUME Safe, [Next]_vars
    PROVE  \/ Strategies' = Strategies
           \/ \E c \in Clients, p \in Packets :
                HandleOnFOPairSubscription(c, p) \/ HandleOnFOPairDiff(c, p)
           \/ \E s \in Sessions : Eventsubscriber(s)
<1>0. TypeOK
  BY Zenon DEF Safe
<1>1. strategy' = strategy => Strategies' = Strategies
  BY Zenon DEF Strategies
<1>2. Len(strategy') = Len(strategy) => Strategies' = Strategies
  BY Zenon DEF Strategies
<1>3. ASSUME LoadSettings \/ LoadContract \/ UNCHANGED vars PROVE strategy' = strategy
  BY <1>3, Zenon DEF LoadSettings, LoadContract, vars
<1>4. ASSUME NEW c \in Clients, NEW PF, HandleOnFOPairUnSubscription(c, PF)
      PROVE  Len(strategy') = Len(strategy)
  <2>1. PICK s : s = StgMap[c]
    OBVIOUS
  <2> QED
    BY <1>0, <1>4, <2>1, UnSubscriptionStep
<1>5. ASSUME NEW c \in Clients, Login(c) \/ Dispose(c) PROVE strategy' = strategy
  BY <1>5, Zenon DEF Login, Dispose
<1>6. ASSUME NEW c \in Clients, NEW t, ManualOrderEntry(c, t) PROVE strategy' = strategy
  BY <1>6, Zenon DEF ManualOrderEntry
<1>7. ASSUME NEW c \in Clients, NEW o, ManualOrder_Mod_CNclEntry(c, o) PROVE strategy' = strategy
  BY <1>7, Zenon DEF ManualOrder_Mod_CNclEntry
<1>8. ASSUME NEW s \in Sessions, Disposal(s) PROVE Len(strategy') = Len(strategy)
  BY <1>0, <1>8, StopAllOrderStep, EraseAllStep DEF Disposal
<1>9. ASSUME NEW s \in Sessions, DataThread(s) PROVE Strategies' = Strategies
  <2>1. ASSUME Send(s) PROVE Len(strategy') = Len(strategy)
    <3>1. PICK x : x = session[s].hand
      OBVIOUS
    <3> QED
      BY <1>0, <2>1, <3>1, SendStep
  <2>2. ASSUME Datasubscriber(s) \/ Look(s) \/ CallErased(s) PROVE strategy' = strategy
    BY <2>2, Zenon DEF Datasubscriber, Look, CallErased
  <2> QED
    BY <1>1, <1>2, <1>9, <2>1, <2>2, Zenon DEF DataThread
<1>10. ASSUME NEW o \in DOMAIN orders, Exchange(o) PROVE strategy' = strategy
  BY <1>10, Zenon DEF Exchange, Accept, Fill, Withdraw, Refuse, Moves
<1> QED
  BY <1>1, <1>2, <1>3, <1>4, <1>5, <1>6, <1>7, <1>8, <1>9, <1>10, ZenonT(40) DEF Next, Step, Requests

LEMMA NewNumbers ==
    ASSUME Safe, OneStrategy, [Next]_vars, NEW x \in Strategies', x \notin Strategies
    PROVE  NumberOf(strategy'[x]) = 0 \/ <<NumberOf(strategy'[x]), x>> \in heard'
<1>0. TypeOK
  BY Zenon DEF Safe
<1>1. x = Len(strategy) + 1
  BY NextSafe, Zenon DEF Kept, Fresh
<1>2. ASSUME NEW c \in Clients, NEW p \in Packets, HandleOnFOPairSubscription(c, p)
      PROVE  NumberOf(strategy'[x]) = 0
  <2>1. PICK s, found : s = StgMap[c] /\ found = Find(s, p.PORTFOLIONAME)
    OBVIOUS
  <2>2. SubscriptionEffect(s, p, found)
    BY <1>0, <1>2, <2>1, SubscriptionStep
  <2>3. PICK y, st :
          /\ \/ Strategies' = Strategies
             \/ /\ y = Len(strategy) + 1
                /\ \E BLQ \in LotSizes(s, p.TokenFar) : st = NewStrategy(s, p.PORTFOLIONAME, "sub", BLQ)
          /\ GoodStrategy(st, Len(session), Len(orders))
          /\ strategy'[y] = OnSubscription(st, p)
    BY <2>2, Zenon DEF SubscriptionEffect
  <2>4. PICK BLQ : y = x /\ st = NewStrategy(s, p.PORTFOLIONAME, "sub", BLQ)
    BY <1>1, <2>3, Zenon
  <2>5. NumberOf(st) = 0
    BY <2>4, NewState, Zenon
  <2>6. SameState(strategy'[y], st)
    <3>1. st \in StrategyRecords
      BY <2>3, Zenon DEF GoodStrategy
    <3> QED
      BY <2>3, <3>1, SubscribedState
  <2> QED
    BY <2>4, <2>5, <2>6, Zenon DEF SameState
<1>3. ASSUME NEW c \in Clients, NEW p \in Packets, HandleOnFOPairDiff(c, p)
      PROVE  NumberOf(strategy'[x]) = 0
  <2>1. PICK s, found, n : s = StgMap[c] /\ found = Find(s, p.PORTFOLIONAME) /\ n = Len(strategy) + 1
    OBVIOUS
  <2>2. \/ \E BLQ \in LotSizes(s, p.TokenFar) : strategy'[n] =
             [NewStrategy(s, p.PORTFOLIONAME, "diff", BLQ) EXCEPT !.quotes = TRUE]
        \/ Len(strategy') = Len(strategy)
    BY <1>0, <1>3, <2>1, DiffStep, SMTT(40)
  <2>3. Len(strategy') # Len(strategy)
    BY Zenon DEF Strategies
  <2>4. PICK BLQ : strategy'[n] = [NewStrategy(s, p.PORTFOLIONAME, "diff", BLQ) EXCEPT !.quotes = TRUE]
    BY <2>2, <2>3, Zenon
  <2>5. NumberOf([NewStrategy(s, p.PORTFOLIONAME, "diff", BLQ) EXCEPT !.quotes = TRUE]) = 0
    BY NewState
  <2> QED
    BY <1>1, <2>1, <2>4, <2>5, Zenon
<1>4. ASSUME NEW s \in Sessions, Eventsubscriber(s)
      PROVE  NumberOf(strategy'[x]) = 0 \/ <<NumberOf(strategy'[x]), x>> \in heard'
  <2>1. PICK e : e = Head(session[s].inbox)
    OBVIOUS
  <2>2. strategy' # strategy /\ Strategies' # Strategies
    BY Zenon DEF Strategies
  <2>3. PICK y : /\ heard' = heard \cup {<<e.order, y>>} /\ y = Len(strategy) + 1
                 /\ NumberOf(strategy'[y]) \in {0, e.order}
    <3>1. PICK y : EventOf(s, e, y) /\ (EventMade(e, y) \/ EventFound(s, e, y))
      BY <1>4, <2>1, <2>2, EventStates, Zenon
    <3> QED
      BY <2>2, <3>1, Zenon DEF EventOf, EventMade, EventFound
  <2> QED
    BY <1>1, <2>3, Zenon
<1> QED
  BY <1>2, <1>3, <1>4, MakingSteps, Zenon

LEMMA NumberSteps ==
    ASSUME Safe, OneStrategy, [Next]_vars, NEW x \in Strategies
    PROVE  NumberOf(strategy'[x]) = NumberOf(strategy[x]) \/ <<NumberOf(strategy'[x]), x>> \in heard'
<1>1. CASE StatesKept
  BY <1>1, Zenon DEF StatesKept, SameState
<1>2. ASSUME NEW s \in Sessions, Send(s) PROVE NumberOf(strategy'[x]) = NumberOf(strategy[x])
  <2>1. PICK y \in Strategies : /\ NumberOf(strategy'[y]) = NumberOf(strategy[y])
                                /\ \A z \in Strategies : z # y => strategy'[z] = strategy[z]
    BY <1>2, SendStates, Zenon
  <2> QED
    BY <2>1, Zenon
<1>3. ASSUME NEW s \in Sessions, Disposal(s) PROVE NumberOf(strategy'[x]) = NumberOf(strategy[x])
  <2>1. ASSUME StopAllOrder(s) PROVE NumberOf(strategy'[x]) = NumberOf(strategy[x])
    BY <2>1, StopStates, Zenon
  <2>2. ASSUME EraseAll(s) PROVE NumberOf(strategy'[x]) = NumberOf(strategy[x])
    BY <2>2, EraseStates, Zenon
  <2> QED
    BY <1>3, <2>1, <2>2, Zenon DEF Disposal
<1>4. ASSUME NEW c \in Clients, NEW PF, HandleOnFOPairUnSubscription(c, PF)
      PROVE  NumberOf(strategy'[x]) = NumberOf(strategy[x])
  <2>1. PICK y : /\ NumberOf(strategy'[y]) = NumberOf(strategy[y])
                 /\ \A z \in Strategies : z # y => strategy'[z] = strategy[z]
    BY <1>4, UnSubscriptionStates, Zenon
  <2> QED
    BY <2>1, Zenon
<1>5. ASSUME NEW s \in Sessions, Eventsubscriber(s)
      PROVE  NumberOf(strategy'[x]) = NumberOf(strategy[x]) \/ <<NumberOf(strategy'[x]), x>> \in heard'
  <2>1. PICK e : e = Head(session[s].inbox)
    OBVIOUS
  <2>2. CASE strategy' = strategy
    BY <2>2, Zenon
  <2>3. CASE strategy' # strategy
    <3>1. PICK y : EventOf(s, e, y) /\ (EventMade(e, y) \/ EventFound(s, e, y))
      BY <1>5, <2>1, <2>3, EventStates, Zenon
    <3>2. y \notin Strategies \/ NumberOf(strategy'[y]) \in {e.order, NumberOf(strategy[y])}
      BY <3>1, Zenon DEF EventMade, EventFound, EventIgnored, EventConfirmed, EventEnds, SameState
    <3> QED
      BY <3>1, <3>2, Zenon DEF EventOf
  <2> QED
    BY <2>2, <2>3, Zenon
<1> QED
  BY <1>1, <1>2, <1>3, <1>4, <1>5, StateSteps, Zenon

LEMMA NumberInvKept == ASSUME Safe, SenderInv, NumberInv, [Next]_vars PROVE NumberInv'
<1>0. OneStrategy /\ heard \subseteq heard'
  BY HeardKept, Zenon DEF SenderInv
<1>1. SUFFICES ASSUME NEW x \in Strategies', NumberOf(strategy'[x]) # 0
               PROVE  <<NumberOf(strategy'[x]), x>> \in heard'
  BY Zenon DEF NumberInv, NumberOf
<1>2. CASE x \in Strategies
  BY <1>0, <1>1, <1>2, NumberSteps, Zenon DEF NumberInv
<1>3. CASE x \notin Strategies
  BY <1>0, <1>1, <1>3, NewNumbers, Zenon
<1> QED
  BY <1>2, <1>3, Zenon

\* Dispose ends with no session that runs.
LEMMA DisposalEnds ==
    ASSUME Safe, NEW s \in Sessions, Disposal(s)
    PROVE  /\ session'[s].phase \notin {"open", "exiting"}
           /\ \A j \in Sessions : j # s => session'[j] = session[j]
<1>0. TypeOK
  BY Zenon DEF Safe
<1>1. ASSUME NEW T, session'[s] = Halted(session[s], T) \/ session'[s] = Cleared(session[s], T)
      PROVE  session'[s].phase \notin {"open", "exiting"}
  <2>1. session[s] \in SessionRecords
    BY <1>0, Records, Zenon
  <2>2. session'[s].phase = "stopped" \/ session'[s].phase = "erased"
    BY <1>1, <2>1, StoppedFields, ErasedFields
  <2> QED
    BY <2>2
<1>2. CASE StopAllOrder(s)
  <2>1. \E T : OnlySession(s, Halted(session[s], T))
    BY <1>0, <1>2, StopAllOrderStep
  <2> QED
    BY <1>1, <2>1, Zenon DEF OnlySession
<1>3. CASE EraseAll(s)
  <2>1. \E T : OnlySession(s, Cleared(session[s], T))
    BY <1>0, <1>3, EraseAllStep
  <2> QED
    BY <1>1, <2>1, Zenon DEF OnlySession
<1> QED
  BY <1>2, <1>3, Zenon DEF Disposal

\* A session that runs or was just told to exit.
Running(s) == session[s].phase \in {"open", "exiting"}

LEMMA RunningBefore ==
    ASSUME Safe, Handled, [Next]_vars, NEW s \in Sessions, session'[s].phase \in {"open", "exiting"}
    PROVE  Running(s)
<1>0. TypeOK
  BY Zenon DEF Safe
<1>1. CASE session'[s].phase = session[s].phase
  BY <1>1, Zenon DEF Running
<1>2. ASSUME NEW c \in Clients, Login(c) PROVE session'[s] = session[s]
  <2>1. CASE IniMap
    BY <1>0, <1>2, <2>1, LoginStep, Zenon
  <2>2. CASE ~IniMap
    BY <1>2, <2>2, Zenon DEF Login
  <2> QED
    BY <2>1, <2>2
<1>3. ASSUME NEW c \in Clients, Dispose(c), s = StgMap[c] PROVE Running(s)
  <2>1. session[s].phase \in {"open", "erased"}
    BY <1>3, Zenon DEF Dispose, Request, HandlerReady
  <2>2. session[s].phase # "erased"
    BY <1>3, Zenon DEF Dispose, Handled
  <2> QED
    BY <2>1, <2>2, Zenon DEF Running
<1>4. ASSUME NEW c \in Clients, Dispose(c), s # StgMap[c] PROVE session'[s] = session[s]
  <2>1. \A j \in Sessions : session'[j] = IF j = StgMap[c] THEN [session[j] EXCEPT !.phase = "exiting"]
                                          ELSE session[j]
    BY <1>0, <1>4, DisposeStep
  <2> QED
    BY <1>4, <2>1, Zenon
<1>5. ASSUME NEW j \in Sessions, Disposal(j) PROVE session'[s] = session[s]
  BY <1>5, DisposalEnds, Zenon
<1> QED
  BY <1>1, <1>2, <1>3, <1>4, <1>5, PhaseSteps, Zenon DEF PhasesKept

\* Strategy x can answer for its orders: it is held by a session that did not stop it and was
\* given no stranger's event.
Minded(x) == strategy[x].live /\ Running(strategy[x].ses) /\ HeardItsOwn(x)

LEMMA OwnHeardBefore ==
    ASSUME Safe, [Next]_vars, NEW x \in Strategies, HeardItsOwn(x)'
    PROVE  HeardItsOwn(x)
<1>0. TypeOK /\ Kept /\ heard \subseteq heard'
  BY NextSafe, HeardKept, Zenon DEF Safe
<1>1. SUFFICES ASSUME NEW h \in heard, h[2] = x PROVE orders[h[1]].obj = x
  BY Zenon DEF HeardItsOwn
<1>2. orders'[h[1]].obj = x
  BY <1>0, <1>1, Zenon DEF HeardItsOwn
<1>3. h[1] \in DOMAIN orders
  <2>1. heard \subseteq (DOMAIN orders) \X Strategies
    BY <1>0, TypeSplit, Zenon DEF HistoryTypes
  <2> QED
    BY <2>1, SMT
<1> QED
  BY <1>0, <1>2, <1>3, Zenon DEF Kept, OrderKept

LEMMA MindedBefore ==
    ASSUME Safe, Handled, [Next]_vars, NEW x \in Strategies, Minded(x)'
    PROVE  Minded(x) /\ strategy'[x].ses = strategy[x].ses /\ strategy[x].ses \in Sessions
<1>0. TypeOK /\ Kept
  BY NextSafe, Zenon DEF Safe
<1>1. strategy'[x].live /\ session'[strategy'[x].ses].phase \in {"open", "exiting"} /\ HeardItsOwn(x)'
  BY Zenon DEF Minded, Running
<1>2. strategy[x].live /\ strategy'[x].ses = strategy[x].ses
  BY <1>0, <1>1, Zenon DEF Kept, StrategyKept, SameMaking
<1>3. strategy[x].ses \in Sessions
  BY <1>0, Referred, Zenon
<1> QED
  BY <1>1, <1>2, <1>3, OwnHeardBefore, RunningBefore, Zenon DEF Minded

-----------------------------------------------------------------------------
(* Who owns a number, and where cancels and events come from.                *)

\* The number a strategy took is of an order of its own, as long as the sender runs too.
LEMMA NumberOwner ==
    ASSUME Safe, SenderInv, NumberInv, NEW x \in Strategies, NEW y \in Strategies,
           strategy[x].live, strategy[y].live, Running(strategy[x].ses),
           session[strategy[y].ses].phase # "erased",
           NEW o, o = NumberOf(strategy[y]), o # 0, orders[o].obj = x
    PROVE  x = y
<1>0. TypeOK /\ Handled /\ OneStrategy /\ AllHandled
  BY Zenon DEF Safe, SenderInv
<1>1. <<o, y>> \in heard
  BY Zenon DEF NumberInv
<1>2. HandledBy(<<o, y>>)
  BY <1>0, <1>1, Zenon DEF AllHandled
<1>3. <<o, y>>[1] = o /\ <<o, y>>[2] = y
  OBVIOUS
<1>4. strategy[y].pf = strategy[x].pf /\ session[strategy[y].ses].client = session[strategy[x].ses].client
  BY <1>2, <1>3, Zenon DEF HandledBy
<1>5. strategy[x].ses \in Sessions /\ strategy[y].ses \in Sessions
  BY <1>0, Referred, Zenon
<1>6. session[strategy[x].ses].phase # "erased"
  BY Zenon DEF Running
<1>7. strategy[x].ses = strategy[y].ses
  <2>1. StgMap[session[strategy[x].ses].client] = strategy[x].ses
    BY <1>0, <1>5, <1>6, Zenon DEF Handled
  <2>2. StgMap[session[strategy[y].ses].client] = strategy[y].ses
    BY <1>0, <1>5, Zenon DEF Handled
  <2> QED
    BY <1>4, <2>1, <2>2
<1> QED
  BY <1>0, <1>4, <1>7, Zenon DEF OneStrategy

LEMMA CancelsNumber ==
    ASSUME NEW y, NEW o \in CancelsOf(y)
    PROVE  o = NumberOf(strategy[y]) /\ o # 0
  BY Zenon DEF CancelsOf, OrderNumber, NumberOf

\* Cancels are sent for strategies only: no client's order is ever stored.
LEMMA AskedSteps ==
    ASSUME Safe, NoManuals, [Next]_vars
    PROVE  \/ asked' = asked
           \/ \E o \in DOMAIN orders : Exchange(o)
           \/ \E c \in Clients, p \in Packets : HandleOnFOPairUnSubscription(c, p.PORTFOLIONAME)
           \/ \E s \in Sessions : StopAllOrder(s)
<1>0. TypeOK
  BY Zenon DEF Safe
<1>1. ASSUME NEW c \in Clients, NEW o, ManualOrder_Mod_CNclEntry(c, o) PROVE asked' = asked
  <2>1. StgMap \in [Clients -> {0} \cup Sessions]
    BY <1>0, Zenon DEF TypeOK, HandlerTypes
  <2>2. StgMap[c] \in Sessions
    BY <1>1, <2>1, Zenon DEF ManualOrder_Mod_CNclEntry
  <2>3. o \notin session[StgMap[c]].manual
    BY <2>2, Zenon DEF NoManuals
  <2> QED
    BY <1>1, <2>3, Zenon DEF ManualOrder_Mod_CNclEntry
<1>2. ASSUME NEW c \in Clients, Requests(c)
      PROVE  asked' = asked \/ \E p \in Packets : HandleOnFOPairUnSubscription(c, p.PORTFOLIONAME)
  <2>1. CASE Login(c) \/ Dispose(c)
    BY <2>1, Zenon DEF Login, Dispose
  <2> QED
    BY <1>1, <1>2, <2>1, Zenon DEF Requests, HandleOnFOPairSubscription, HandleOnFOPairDiff, ManualOrderEntry
<1>3. ASSUME NEW s \in Sessions, Disposal(s) \/ DataThread(s) \/ Eventsubscriber(s)
      PROVE  asked' = asked \/ StopAllOrder(s)
  <2>1. CASE Disposal(s)
    BY <2>1, Zenon DEF Disposal, EraseAll
  <2>2. CASE DataThread(s)
    BY <2>2, Zenon DEF DataThread, Datasubscriber, Look, Send, CallErased
  <2>3. CASE Eventsubscriber(s)
    BY <2>3, EventInboxes, Zenon
  <2> QED
    BY <1>3, <2>1, <2>2, <2>3, Zenon
<1>4. ASSUME LoadSettings \/ LoadContract \/ UNCHANGED vars PROVE asked' = asked
  BY <1>4, Zenon DEF LoadSettings, LoadContract, vars
<1> QED
  BY <1>1, <1>2, <1>3, <1>4, Zenon DEF Next, Step

\* An event in an inbox was there before, or the exchange just sent it.
LEMMA EventSources ==
    ASSUME Safe, [Next]_vars, NEW s \in Sessions, NEW i \in DOMAIN session'[s].inbox
    PROVE  \/ \E k \in DOMAIN session[s].inbox : session'[s].inbox[i] = session[s].inbox[k]
           \/ \E w \in DOMAIN orders : \E from, to, kind :
                ExchangeEffect(w, from, to, kind) /\ session'[s].inbox[i] = [order |-> w, kind |-> kind]
<1>0. TypeOK
  BY Zenon DEF Safe
<1>1. PICK q : q = session[s].inbox
  OBVIOUS
<1>2. q \in Seq(Events)
  BY <1>0, <1>1, InboxTypes, Zenon
<1>3. CASE session'[s].inbox = q
  BY <1>1, <1>3, Zenon
<1>4. ASSUME NEW r \in Sessions, Eventsubscriber(r)
      PROVE  \E k \in DOMAIN q : session'[s].inbox[i] = q[k]
  <2>1. CASE r # s
    <3>1. session'[s] = session[s]
      BY <1>4, <2>1, EventInboxes, Zenon
    <3> QED
      BY <1>1, <3>1, Zenon
  <2>2. CASE r = s
    <3>1. q # <<>> /\ (session'[s].inbox = Tail(q) \/ session'[s].inbox = <<>>)
      BY <1>1, <1>4, <2>2, EventInboxes, Zenon
    <3>2. DOMAIN <<>> = {}
      BY SMT
    <3>3. session'[s].inbox = Tail(q)
      BY <3>1, <3>2, Zenon
    <3>4. i + 1 \in DOMAIN q /\ Tail(q)[i] = q[i + 1]
      BY <1>2, <3>1, <3>3, TailElements, Zenon
    <3> QED
      BY <3>3, <3>4, Zenon
  <2> QED
    BY <2>1, <2>2, Zenon
<1>5. ASSUME NEW w \in DOMAIN orders, Exchange(w)
      PROVE  \/ \E k \in DOMAIN q : session'[s].inbox[i] = q[k]
             \/ \E from, to, kind :
                  ExchangeEffect(w, from, to, kind) /\ session'[s].inbox[i] = [order |-> w, kind |-> kind]
  <2>1. PICK from, to, kind : ExchangeEffect(w, from, to, kind)
    BY <1>5, ExchangeSteps
  <2>2. PICK e : e = [order |-> w, kind |-> kind]
    OBVIOUS
  <2>3. session'[s].inbox = q \/ session'[s].inbox = Append(q, e)
    BY <1>1, <2>1, <2>2, Zenon DEF ExchangeEffect, Moved
  <2>4. CASE session'[s].inbox = q
    BY <2>4, Zenon
  <2>5. CASE session'[s].inbox = Append(q, e)
    <3>1. PICK n : n = Append(q, e)
      OBVIOUS
    <3>2. \A k \in DOMAIN n : (k \in DOMAIN q /\ n[k] = q[k]) \/ n[k] = e
      BY <1>2, <3>1, SMT
    <3>3. (i \in DOMAIN q /\ session'[s].inbox[i] = q[i]) \/ session'[s].inbox[i] = e
      BY <2>5, <3>1, <3>2, Zenon
    <3> QED
      BY <2>1, <2>2, <3>3, Zenon
  <2> QED
    BY <2>3, <2>4, <2>5, Zenon
<1> QED
  BY <1>1, <1>3, <1>4, <1>5, InboxSteps, Zenon DEF InboxesKept

\* A new order of a strategy is one that the data thread had in hand.
LEMMA SendersOrder ==
    ASSUME Safe, [Next]_vars, NEW o \in DOMAIN orders', o \notin DOMAIN orders, orders'[o].obj # 0
    PROVE  o = Len(orders) + 1 /\ \E s \in Sessions : Send(s) /\ session[s].hand = orders'[o].obj
<1>0. TypeOK
  BY Zenon DEF Safe
<1>1. ASSUME Len(orders') = Len(orders) + 1 PROVE o = Len(orders) + 1
  <2>1. TypeOK'
    BY NextSafe, Zenon DEF Safe
  <2>2. DOMAIN orders' = 1..Len(orders') /\ Len(orders) \in Nat /\ DOMAIN orders = 1..Len(orders)
    BY <1>0, <2>1, NextLengths, Lengths, Zenon
  <2> QED
    BY <1>1, <2>2, SMT
<1>2. ASSUME NEW s \in Sessions, Send(s)
      PROVE  o = Len(orders) + 1 /\ session[s].hand = orders'[o].obj
  <2>1. PICK x, n : x = session[s].hand /\ n = Len(orders) + 1
    OBVIOUS
  <2>2. /\ Len(orders') = n
        /\ orders'[n] = Sent(AddressOf(strategy[x]), strategy[x].NMPack.FARMONTH.TokenNo, x)
    BY <1>0, <1>2, <2>1, SendStep
  <2>3. orders'[n].obj = x
    BY <2>2, SentFields
  <2> QED
    BY <1>1, <2>1, <2>2, <2>3, Zenon
<1>3. ASSUME NEW c \in Clients, NEW p \in Packets, ManualOrderEntry(c, p.TokenFar) PROVE FALSE
  <2>1. p.TokenFar \in AllTokens
    BY PacketTypes, Zenon
  <2>2. PICK s, n : s = StgMap[c] /\ n = Len(orders) + 1
    OBVIOUS
  <2>3. Len(orders') = n /\ orders'[n] = Sent(Tag(c, Manual), p.TokenFar, 0)
    BY <1>0, <1>3, <2>1, <2>2, ManualOrderStep
  <2>4. orders'[n].obj = 0
    BY <2>3, SentFields
  <2> QED
    BY <1>1, <2>2, <2>3, <2>4, Zenon
<1>4. ASSUME NEW w \in DOMAIN orders, Exchange(w) PROVE FALSE
  BY <1>4, ExchangeOrders, Zenon
<1> QED
  BY <1>2, <1>3, <1>4, OrderSteps, Zenon

\* A new strategy has sent nothing.
LEMMA NewOwnNothing ==
    ASSUME Safe, [Next]_vars, NEW x \in Strategies', x \notin Strategies, NEW o \in DOMAIN orders'
    PROVE  orders'[o].obj # x
<1>0. TypeOK /\ Kept /\ TypeOK'
  BY NextSafe, Zenon DEF Safe
<1>1. x # 0
  <2>1. Len(strategy') \in Nat
    BY <1>0, NextLengths, Zenon
  <2> QED
    BY <2>1, SMT DEF Strategies
<1>2. CASE o \in DOMAIN orders
  BY <1>0, <1>1, <1>2, Referred, Zenon DEF Kept, OrderKept
<1>3. CASE o \notin DOMAIN orders
  <2>1. SUFFICES ASSUME orders'[o].obj = x PROVE FALSE
    OBVIOUS
  <2>2. PICK s \in Sessions : session[s].hand = x
    BY <1>1, <1>3, <2>1, SendersOrder, Zenon
  <2> QED
    BY <1>0, <1>1, <2>2, Referred, Zenon
<1> QED
  BY <1>2, <1>3, Zenon

-----------------------------------------------------------------------------
(* No cancel is asked for while the strategy can answer for its order.       *)

\* An order of a strategy that can answer for its orders is neither asked to be cancelled nor
\* was its cancel refused.
Unasked(x) ==
    Minded(x) => \A o \in DOMAIN orders : orders[o].obj = x =>
        /\ o \notin asked
        /\ \A i \in DOMAIN session[strategy[x].ses].inbox :
             session[strategy[x].ses].inbox[i].order = o =>
               session[strategy[x].ses].inbox[i].kind # "refused"

UnaskedInv == \A x \in Strategies : Unasked(x)

\* A cancel is sent for the order of a strategy that then is no more, or stops.
LEMMA StaysUnasked ==
    ASSUME Safe, NoManuals, SenderInv, NumberInv, [Next]_vars, NEW x \in Strategies, Minded(x)',
           NEW o \in DOMAIN orders, orders[o].obj = x, o \notin asked
    PROVE  o \notin asked'
<1>0. TypeOK /\ Handled /\ OneStrategy
  BY Zenon DEF Safe, SenderInv
<1>1. Minded(x) /\ strategy'[x].ses = strategy[x].ses /\ strategy[x].ses \in Sessions
  BY <1>0, MindedBefore, Zenon
<1>2. /\ strategy'[x].live /\ session'[strategy[x].ses].phase \in {"open", "exiting"}
      /\ strategy[x].live /\ Running(strategy[x].ses)
  BY <1>1, Zenon DEF Minded, Running
<1>3. ASSUME NEW w \in DOMAIN orders, Exchange(w) PROVE o \notin asked'
  <2>1. PICK from, to, kind : ExchangeEffect(w, from, to, kind)
    BY <1>3, ExchangeSteps
  <2> QED
    BY <2>1, Zenon DEF ExchangeEffect
<1>4. ASSUME NEW c \in Clients, NEW PF, HandleOnFOPairUnSubscription(c, PF) PROVE o \notin asked'
  <2>1. PICK y \in Find(StgMap[c], PF) : asked' = asked \cup CancelsOf(y) /\ ~strategy'[y].live
    BY <1>0, <1>4, UnSubscriptionStates, Zenon
  <2>2. y \in Strategies /\ strategy[y].live /\ strategy[y].ses = StgMap[c]
    BY <2>1, Zenon DEF Find
  <2>3. session[strategy[y].ses].phase # "erased"
    <3>1. StgMap[c] # 0
      BY <1>4, Zenon DEF HandleOnFOPairUnSubscription
    <3> QED
      BY <1>0, <2>2, <3>1, Zenon DEF Handled
  <2>4. SUFFICES ASSUME o \in CancelsOf(y) PROVE FALSE
    BY <2>1, Zenon
  <2>5. o = NumberOf(strategy[y]) /\ o # 0
    BY <2>4, CancelsNumber
  <2>6. x = y
    BY <1>2, <2>2, <2>3, <2>5, NumberOwner
  <2> QED
    BY <1>2, <2>1, <2>6, Zenon
<1>5. ASSUME NEW s \in Sessions, StopAllOrder(s) PROVE o \notin asked'
  <2>1. PICK reached \in SUBSET Strategies :
          /\ \A y \in reached : strategy[y].live /\ strategy[y].ses = s
          /\ asked' = asked \cup UNION {CancelsOf(y) : y \in reached}
    BY <1>5, StopStates, Zenon
  <2>2. SUFFICES ASSUME NEW y \in reached, o \in CancelsOf(y) PROVE FALSE
    BY <2>1, Zenon
  <2>3. session[s].phase = "exiting" /\ session'[s].phase = "stopped"
    <3>1. session[s].phase = "exiting" /\ \E T : OnlySession(s, Halted(session[s], T))
      BY <1>0, <1>5, StopAllOrderStep
    <3>2. PICK T : session'[s] = Halted(session[s], T)
      BY <3>1, Zenon DEF OnlySession
    <3>3. session[s] \in SessionRecords
      BY <1>0, Records, Zenon
    <3>4. session'[s].phase = "stopped"
      BY <3>2, <3>3, StoppedFields
    <3> QED
      BY <3>1, <3>4, Zenon
  <2>4. y \in Strategies /\ strategy[y].live /\ strategy[y].ses = s
    BY <2>1, <2>2, Zenon
  <2>5. o = NumberOf(strategy[y]) /\ o # 0
    BY <2>2, CancelsNumber
  <2>6. session[strategy[y].ses].phase # "erased"
    BY <2>3, <2>4
  <2>7. x = y
    BY <1>2, <2>4, <2>5, <2>6, NumberOwner
  <2> QED
    BY <1>2, <2>3, <2>4, <2>7
<1>6. asked' = asked => o \notin asked'
  BY Zenon
<1> QED
  BY <1>3, <1>4, <1>5, <1>6, AskedSteps, Zenon

LEMMA UnaskedKept ==
    ASSUME Safe, NoManuals, SenderInv, NumberInv, UnaskedInv, [Next]_vars
    PROVE  UnaskedInv'
<1>0. TypeOK /\ Kept /\ Handled
  BY NextSafe, Zenon DEF Safe, SenderInv
<1>1. SUFFICES ASSUME NEW x \in Strategies', Minded(x)', NEW o \in DOMAIN orders', orders'[o].obj = x,
                      NEW s, s = strategy'[x].ses
               PROVE  /\ o \notin asked'
                      /\ \A i \in DOMAIN session'[s].inbox :
                           session'[s].inbox[i].order = o => session'[s].inbox[i].kind # "refused"
  BY Zenon DEF UnaskedInv, Unasked
<1>2. x \in Strategies
  BY <1>1, NewOwnNothing, Zenon
<1>3. Minded(x) /\ s = strategy[x].ses /\ s \in Sessions
  BY <1>0, <1>1, <1>2, MindedBefore, Zenon
<1>4. ASSUME o \in DOMAIN orders
      PROVE  /\ o \notin asked' /\ o \notin asked
             /\ \A k \in DOMAIN session[s].inbox :
                  session[s].inbox[k].order = o => session[s].inbox[k].kind # "refused"
  <2>1. orders[o].obj = x
    BY <1>0, <1>1, <1>4, Zenon DEF Kept, OrderKept
  <2>2. /\ o \notin asked
        /\ \A k \in DOMAIN session[s].inbox :
             session[s].inbox[k].order = o => session[s].inbox[k].kind # "refused"
    BY <1>2, <1>3, <1>4, <2>1, Zenon DEF UnaskedInv, Unasked
  <2>3. o \notin asked'
    BY <1>1, <1>2, <1>4, <2>1, <2>2, StaysUnasked
  <2> QED
    BY <2>2, <2>3, Zenon
<1>5. ASSUME o \notin DOMAIN orders PROVE o \notin asked'
  <2>1. x # 0
    BY <1>2, SMT DEF Strategies
  <2>2. PICK r \in Sessions : Send(r)
    BY <1>1, <1>5, <2>1, SendersOrder, Zenon
  <2>3. asked' = asked /\ asked \subseteq DOMAIN orders
    BY <1>0, <2>2, Zenon DEF Send, TypeOK
  <2> QED
    BY <1>5, <2>3, Zenon
<1>6. ASSUME NEW i \in DOMAIN session'[s].inbox, session'[s].inbox[i].order = o
      PROVE  session'[s].inbox[i].kind # "refused"
  <2>1. ASSUME NEW k \in DOMAIN session[s].inbox, session'[s].inbox[i] = session[s].inbox[k]
        PROVE  session'[s].inbox[i].kind # "refused"
    <3>1. o \in DOMAIN orders
      BY <1>0, <1>3, <1>6, <2>1, Referred, Zenon
    <3> QED
      BY <1>4, <1>6, <2>1, <3>1, Zenon
  <2>2. ASSUME NEW w \in DOMAIN orders, NEW from, NEW to, NEW kind, ExchangeEffect(w, from, to, kind),
               session'[s].inbox[i] = [order |-> w, kind |-> kind]
        PROVE  session'[s].inbox[i].kind # "refused"
    <3>1. [order |-> w, kind |-> kind].order = w /\ [order |-> w, kind |-> kind].kind = kind
      OBVIOUS
    <3>2. w = o /\ session'[s].inbox[i].kind = kind
      BY <1>6, <2>2, <3>1, Zenon
    <3>3. o \notin asked
      BY <1>4, <3>2, Zenon
    <3> QED
      BY <2>2, <3>2, <3>3, Zenon DEF ExchangeEffect
  <2> QED
    BY <1>3, <2>1, <2>2, EventSources, Zenon
<1> QED
  BY <1>4, <1>5, <1>6, Zenon

-----------------------------------------------------------------------------
(* One unsettled order.                                                      *)

\* The states in which a strategy may send an order.
Free == {"NONE", "TRADE", "CANCEL"}

\* Order o, in state v, is not done or an event of it is in inbox q.
Loose(o, v, q) == v # "done" \/ \E i \in DOMAIN q : q[i].order = o
Unsettled(x) ==
    {o \in DOMAIN orders : orders[o].obj = x /\ Loose(o, orders[o].state, session[strategy[x].ses].inbox)}

\* Of strategy x, U are the unsettled orders, K those it knows, v its status, n the number
\* it took, and y is what its data thread has in hand: it has at most one unsettled order, none
\* when it may send the next, and the number of the order it knows.
Sound(x, U, K, v, n, y) ==
    /\ v \in Free => U = {}
    /\ y = x => v \in Free
    /\ \A o1, o2 \in U : o1 = o2
    /\ \A o \in U : o \in K => v = "OPEN" /\ n = o

Clear(x) ==
    Minded(x) => Sound(x, Unsettled(x), known, strategy[x].status, NumberOf(strategy[x]),
                       session[strategy[x].ses].hand)

ClearInv == \A x \in Strategies : Clear(x)

LEMMA SoundKept ==
    ASSUME NEW x, NEW U, NEW K, NEW v, NEW n, NEW y, Sound(x, U, K, v, n, y),
           NEW V \in SUBSET U, NEW L, \A o \in V : o \in L => o \in K,
           NEW z, z = x => y = x \/ v \in Free
    PROVE  Sound(x, V, L, v, n, z)
  BY Zenon DEF Sound

LEMMA SoundSent ==
    ASSUME NEW x, NEW U, NEW K, NEW v, NEW n, Sound(x, U, K, v, n, x),
           NEW V, NEW L, NEW w, w \notin L, \A o \in V : o \in U \/ o = w,
           NEW z, z # x, NEW m
    PROVE  Sound(x, V, L, "PENDING", m, z)
<1>1. U = {}
  BY Zenon DEF Sound
<1>2. "PENDING" \notin Free
  BY DEF Free
<1> QED
  BY <1>1, <1>2, Zenon DEF Sound

LEMMA SoundConfirmed ==
    ASSUME NEW x, NEW U, NEW K, NEW v, NEW n, NEW y, Sound(x, U, K, v, n, y),
           NEW w \in U, NEW V \in SUBSET U, NEW L, NEW z, z = x => y = x
    PROVE  Sound(x, V, L, "OPEN", w, z)
<1>1. "OPEN" \notin Free
  BY DEF Free
<1>2. v \notin Free /\ z # x
  BY Zenon DEF Sound
<1> QED
  BY <1>1, <1>2, Zenon DEF Sound

LEMMA SoundEnded ==
    ASSUME NEW x, NEW U, NEW K, NEW v, NEW n, NEW y, Sound(x, U, K, v, n, y),
           NEW w \in U, NEW V \in SUBSET U, w \notin V, NEW L, NEW z, z = x => y = x, NEW m, NEW u
    PROVE  Sound(x, V, L, u, m, z)
<1>1. V = {} /\ v \notin Free /\ z # x
  BY Zenon DEF Sound
<1> QED
  BY <1>1, Zenon DEF Sound

\* An order that is unsettled was so before, or the data thread just sent it.
LEMMA UnsettledBefore ==
    ASSUME Safe, UnaskedInv, [Next]_vars, NEW x \in Strategies, Minded(x),
           strategy'[x].ses = strategy[x].ses, strategy[x].ses \in Sessions, NEW o \in Unsettled(x)'
    PROVE  \/ o \in Unsettled(x)
           \/ /\ o = Len(orders) + 1 /\ o \notin DOMAIN orders
              /\ \E s \in Sessions : Send(s) /\ session[s].hand = x
<1>0. TypeOK /\ Kept
  BY NextSafe, Zenon DEF Safe
<1>1. PICK s : s = strategy[x].ses
  OBVIOUS
<1>2. /\ o \in DOMAIN orders' /\ orders'[o].obj = x
      /\ orders'[o].state # "done" \/ \E i \in DOMAIN session'[s].inbox : session'[s].inbox[i].order = o
  BY <1>1, Zenon DEF Unsettled, Loose
<1>3. CASE o \notin DOMAIN orders
  <2>1. x # 0
    BY SMT DEF Strategies
  <2> QED
    BY <1>2, <1>3, <2>1, SendersOrder, Zenon
<1>4. CASE o \in DOMAIN orders
  <2>1. orders[o].obj = x
    BY <1>0, <1>2, <1>4, Zenon DEF Kept, OrderKept
  <2>2. o \notin asked
    BY <1>4, <2>1, Zenon DEF UnaskedInv, Unasked
  <2>3. CASE orders'[o].state # "done"
    <3>1. orders[o].state # "done"
      BY <1>4, <2>3, StatesForward
    <3> QED
      BY <1>4, <2>1, <3>1, Zenon DEF Unsettled, Loose
  <2>4. ASSUME NEW i \in DOMAIN session'[s].inbox, session'[s].inbox[i].order = o
        PROVE  o \in Unsettled(x)
    <3>1. ASSUME NEW k \in DOMAIN session[s].inbox, session'[s].inbox[i] = session[s].inbox[k]
          PROVE  o \in Unsettled(x)
      BY <1>1, <1>4, <2>1, <2>4, <3>1, Zenon DEF Unsettled, Loose
    <3>2. ASSUME NEW w \in DOMAIN orders, NEW from, NEW to, NEW kind, ExchangeEffect(w, from, to, kind),
                 session'[s].inbox[i] = [order |-> w, kind |-> kind]
          PROVE  o \in Unsettled(x)
      <4>1. [order |-> w, kind |-> kind].order = w
        OBVIOUS
      <4>2. w = o
        BY <2>4, <3>2, <4>1, Zenon
      <4>3. "sent" # "done" /\ "working" # "done"
        OBVIOUS
      <4>4. orders[o].state # "done"
        BY <2>2, <3>2, <4>2, <4>3, Zenon DEF ExchangeEffect, Moved
      <4> QED
        BY <1>4, <2>1, <4>4, Zenon DEF Unsettled, Loose
    <3> QED
      BY <1>1, <3>1, <3>2, EventSources, Zenon
  <2> QED
    BY <1>2, <2>3, <2>4, Zenon
<1> QED
  BY <1>3, <1>4, Zenon

LEMMA HandsNow ==
    ASSUME Safe, [Next]_vars, NEW s \in Sessions, NEW x \in Strategies, session'[s].hand = x
    PROVE  session[s].hand = x \/ strategy[x].status \in Free
<1>0. TypeOK /\ Kept
  BY NextSafe, Zenon DEF Safe
<1>1. x # 0 /\ s \in Sessions'
  <2>1. x # 0
    BY SMT DEF Strategies
  <2> QED
    BY <1>0, <2>1, Zenon DEF Kept, SessionKept
<1>2. ASSUME NEW r \in Sessions, Look(r) PROVE session[s].hand = x \/ strategy[x].status \in Free
  <2>1. PICK d \in session[r].DataPack :
          /\ MayQuote(strategy[d.obj]) /\ session'[r].hand = d.obj
          /\ \A j \in Sessions : j # r => session'[j] = session[j]
    BY <1>2, LookHands, Zenon
  <2>2. CASE r = s
    BY <2>1, <2>2, Zenon DEF MayQuote, Free
  <2>3. CASE r # s
    BY <2>1, <2>3, Zenon
  <2> QED
    BY <2>2, <2>3, Zenon
<1> QED
  BY <1>1, <1>2, HandSteps, Zenon DEF HandsKept

\* No step but an event or its own order changes the state of a strategy that can still answer
\* for its orders.
LEMMA QuietState ==
    ASSUME Safe, SenderInv, [Next]_vars, NEW x \in Strategies, Minded(x)',
           ~ \E s \in Sessions : Eventsubscriber(s),
           ~ \E s \in Sessions : Send(s) /\ session[s].hand = x
    PROVE  SameState(strategy'[x], strategy[x])
<1>0. TypeOK /\ Handled /\ OneStrategy
  BY Zenon DEF Safe, SenderInv
<1>1. Minded(x) /\ strategy'[x].ses = strategy[x].ses /\ strategy[x].ses \in Sessions
  BY <1>0, MindedBefore, Zenon
<1>2. strategy'[x].live /\ session'[strategy[x].ses].phase \in {"open", "exiting"} /\ strategy[x].live
  BY <1>1, Zenon DEF Minded, Running
<1>3. strategy'[x] = strategy[x] => SameState(strategy'[x], strategy[x])
  BY Zenon DEF SameState
<1>4. ASSUME NEW s \in Sessions, Send(s) PROVE SameState(strategy'[x], strategy[x])
  <2>1. PICK y \in Strategies : /\ y = session[s].hand
                                /\ \A z \in Strategies : z # y => strategy'[z] = strategy[z]
    BY <1>4, SendStates, Zenon
  <2> QED
    BY <1>3, <1>4, <2>1, Zenon
<1>5. ASSUME NEW c \in Clients, NEW PF, HandleOnFOPairUnSubscription(c, PF)
      PROVE  SameState(strategy'[x], strategy[x])
  <2>1. PICK y : ~strategy'[y].live /\ \A z \in Strategies : z # y => strategy'[z] = strategy[z]
    BY <1>0, <1>5, UnSubscriptionStates, Zenon
  <2> QED
    BY <1>2, <1>3, <2>1, Zenon
<1>6. ASSUME NEW s \in Sessions, Disposal(s)
      PROVE  SameState(strategy'[x], strategy[x]) /\ strategy[x].ses # s
  <2>1. strategy[x].ses # s
    <3>1. session'[s].phase \notin {"open", "exiting"}
      BY <1>6, DisposalEnds
    <3> QED
      BY <1>2, <3>1, Zenon
  <2>2. ASSUME StopAllOrder(s) PROVE SameState(strategy'[x], strategy[x])
    BY <1>3, <2>1, <2>2, StopStates, Zenon
  <2>3. ASSUME EraseAll(s) PROVE SameState(strategy'[x], strategy[x])
    BY <2>1, <2>3, EraseStates, Zenon DEF SameState
  <2> QED
    BY <1>6, <2>1, <2>2, <2>3, Zenon DEF Disposal
<1> QED
  BY <1>4, <1>5, <1>6, StateSteps, Zenon DEF StatesKept

\* What an event makes of a strategy that can answer for its orders.
LEMMA ClearEvent ==
    ASSUME Safe, SenderInv, EventsOrderly, UnaskedInv, ClearInv, [Next]_vars,
           NEW s \in Sessions, Eventsubscriber(s), NEW x \in Strategies, Minded(x)',
           NEW r, r = strategy[x].ses
    PROVE  Sound(x, Unsettled(x)', known', strategy'[x].status, NumberOf(strategy'[x]), session'[r].hand)
<1>0. TypeOK /\ Kept /\ Handled /\ OneStrategy
  BY NextSafe, Zenon DEF Safe, SenderInv
<1>1. Minded(x) /\ strategy'[x].ses = r /\ r \in Sessions
  BY <1>0, MindedBefore, Zenon
<1>2. PICK U, V : U = Unsettled(x) /\ V = Unsettled(x)'
  OBVIOUS
<1>3. PICK e : e = Head(session[s].inbox)
  OBVIOUS
<1>4. /\ session[s].inbox # <<>> /\ orders' = orders
      /\ session'[s].inbox = Tail(session[s].inbox) \/ session'[s].inbox = <<>>
  BY EventInboxes, Zenon
<1>5. V \subseteq U
  <2>1. SUFFICES ASSUME NEW o \in Unsettled(x)' PROVE o \in Unsettled(x)
    BY <1>2, Zenon
  <2>2. o \in DOMAIN orders
    BY <1>4, Zenon DEF Unsettled
  <2> QED
    BY <1>1, <2>2, UnsettledBefore, Zenon
<1>6. session'[r].hand = x => session[r].hand = x
  <2>1. x # 0
    BY SMT DEF Strategies
  <2>2. HandsKept /\ r \in Sessions'
    BY <1>0, <1>1, EventSafe, Zenon DEF Kept, SessionKept
  <2> QED
    BY <2>1, <2>2, Zenon DEF HandsKept
<1>7. Sound(x, U, known, strategy[x].status, NumberOf(strategy[x]), session[r].hand)
  BY <1>1, <1>2, Zenon DEF ClearInv, Clear
<1>8. \A o \in U : orders[o].obj = x
  BY <1>2, Zenon DEF Unsettled
<1>9. ASSUME strategy'[x].status = strategy[x].status, NumberOf(strategy'[x]) = NumberOf(strategy[x]),
             \A o \in V : o \in known' => o \in known
      PROVE  Sound(x, V, known', strategy'[x].status, NumberOf(strategy'[x]), session'[r].hand)
  <2>1. Sound(x, V, known', strategy[x].status, NumberOf(strategy[x]), session'[r].hand)
    BY <1>5, <1>6, <1>7, <1>9, SoundKept
  <2> QED
    BY <1>9, <2>1, Zenon
<1>10. CASE UNCHANGED <<strategy, heard, known>>
  BY <1>2, <1>9, <1>10, Zenon
<1>11. ASSUME NEW y, EventOf(s, e, y), EventMade(e, y) \/ EventFound(s, e, y), y # x
       PROVE  Sound(x, V, known', strategy'[x].status, NumberOf(strategy'[x]), session'[r].hand)
  <2>1. strategy'[x] = strategy[x]
    BY <1>11, Zenon DEF EventOf
  <2>2. \A o \in V : o \in known' => o \in known
    BY <1>5, <1>8, <1>11, Zenon DEF EventOf
  <2> QED
    BY <1>9, <2>1, <2>2, Zenon
<1>12. ASSUME EventOf(s, e, x), EventMade(e, x) \/ EventFound(s, e, x)
       PROVE  Sound(x, V, known', strategy'[x].status, NumberOf(strategy'[x]), session'[r].hand)
  <2>1. s = r /\ (EventIgnored(x) \/ EventConfirmed(e, x) \/ EventEnds(e, x))
    BY <1>12, Zenon DEF EventMade, EventFound
  <2>2. 1 \in DOMAIN session[s].inbox /\ session[s].inbox[1] = e
    BY <1>0, <1>3, <1>4, HeadEvent
  <2>3. e.order \in DOMAIN orders
    BY <1>0, <2>2, Referred, Zenon
  <2>4. orders[e.order].obj = x
    <3>1. <<e.order, x>> \in heard'
      BY <1>12, Zenon DEF EventOf
    <3>2. <<e.order, x>>[1] = e.order /\ <<e.order, x>>[2] = x
      OBVIOUS
    <3> QED
      BY <1>4, <3>1, <3>2, Zenon DEF Minded, HeardItsOwn
  <2>5. e.order \in U
    BY <1>2, <2>1, <2>2, <2>3, <2>4, Zenon DEF Unsettled, Loose
  <2>6. CASE EventIgnored(x)
    BY <1>9, <2>6, Zenon DEF EventIgnored, SameState
  <2>7. CASE EventConfirmed(e, x)
    <3>1. Sound(x, V, known', "OPEN", e.order, session'[r].hand)
      BY <1>5, <1>6, <1>7, <2>5, SoundConfirmed
    <3> QED
      BY <2>7, <3>1, Zenon DEF EventConfirmed
  <2>8. CASE EventEnds(e, x)
    <3>1. e.kind # "confirmed"
      BY <2>8, Zenon DEF EventEnds
    <3>2. /\ orders[e.order].state = "done"
          /\ \A j \in DOMAIN session[s].inbox :
               j > 1 /\ session[s].inbox[j].order = e.order => session[s].inbox[j].kind = "refused"
      BY <2>2, <3>1, Zenon DEF EventsOrderly, Orderly
    <3>3. \A j \in DOMAIN session[s].inbox :
            session[s].inbox[j].order = e.order => session[s].inbox[j].kind # "refused"
      BY <1>1, <2>1, <2>3, <2>4, Zenon DEF UnaskedInv, Unasked
    <3>4. \A j \in DOMAIN session[s].inbox : j > 1 => session[s].inbox[j].order # e.order
      BY <3>2, <3>3, Zenon
    <3>5. \A i \in DOMAIN session'[s].inbox : session'[s].inbox[i].order # e.order
      <4>1. CASE session'[s].inbox = <<>>
        <5>1. DOMAIN <<>> = {}
          BY SMT
        <5> QED
          BY <4>1, <5>1, Zenon
      <4>2. CASE session'[s].inbox = Tail(session[s].inbox)
        <5>1. PICK q : q = session[s].inbox
          OBVIOUS
        <5>2. q \in Seq(Events) /\ q # <<>>
          BY <1>0, <1>4, <5>1, InboxTypes, Zenon
        <5>3. ASSUME NEW i \in DOMAIN Tail(q) PROVE \E k \in DOMAIN q : k > 1 /\ Tail(q)[i] = q[k]
          <6>1. i \in Nat /\ i > 0
            BY <5>2, HeadTailProperties, SMT
          <6>2. i + 1 \in DOMAIN q /\ Tail(q)[i] = q[i + 1]
            BY <5>2, <5>3, TailElements, Zenon
          <6>3. i + 1 > 1
            BY <6>1, SMT
          <6> QED
            BY <6>2, <6>3, Zenon
        <5>4. \A i \in DOMAIN Tail(q) : Tail(q)[i].order # e.order
          <6>1. \A k \in DOMAIN q : k > 1 => q[k].order # e.order
            BY <3>4, <5>1
          <6>2. SUFFICES ASSUME NEW i \in DOMAIN Tail(q) PROVE Tail(q)[i].order # e.order
            OBVIOUS
          <6>3. PICK k \in DOMAIN q : k > 1 /\ Tail(q)[i] = q[k]
            BY <5>3, <6>2
          <6> QED
            BY <6>1, <6>3, Zenon
        <5> QED
          BY <4>2, <5>1, <5>4
      <4> QED
        BY <1>4, <4>1, <4>2, Zenon
    <3>6. e.order \notin V
      <4>1. SUFFICES ASSUME e.order \in Unsettled(x)' PROVE FALSE
        BY <1>2, Zenon
      <4>2. \/ orders'[e.order].state # "done"
            \/ \E i \in DOMAIN session'[r].inbox : session'[r].inbox[i].order = e.order
        BY <1>1, <4>1, Zenon DEF Unsettled, Loose
      <4> QED
        BY <1>4, <2>1, <3>2, <3>5, <4>2, Zenon
    <3> QED
      BY <1>5, <1>6, <1>7, <2>5, <3>6, SoundEnded
  <2> QED
    BY <2>1, <2>6, <2>7, <2>8, Zenon
<1> QED
  <2>1. \/ UNCHANGED <<strategy, heard, known>>
        \/ \E y : EventOf(s, e, y) /\ (EventMade(e, y) \/ EventFound(s, e, y))
    BY <1>0, <1>3, EventStates
  <2> QED
    BY <1>2, <1>10, <1>11, <1>12, <2>1, Zenon

\* ... or an order it sends.
LEMMA ClearSend ==
    ASSUME Safe, SenderInv, HandInv, UnaskedInv, ClearInv, [Next]_vars,
           NEW s \in Sessions, Send(s), NEW x \in Strategies, session[s].hand = x, Minded(x)',
           NEW r, r = strategy[x].ses
    PROVE  Sound(x, Unsettled(x)', known', strategy'[x].status, NumberOf(strategy'[x]), session'[r].hand)
<1>0. TypeOK /\ Handled
  BY Zenon DEF Safe, SenderInv
<1>1. Minded(x) /\ strategy'[x].ses = r /\ r \in Sessions
  BY <1>0, MindedBefore, Zenon
<1>2. x # 0
  BY SMT DEF Strategies
<1>3. s = r
  BY <1>2, Zenon DEF HandInv
<1>4. PICK U, V, w : U = Unsettled(x) /\ V = Unsettled(x)' /\ w = Len(orders) + 1
  OBVIOUS
<1>5. Sound(x, U, known, strategy[x].status, NumberOf(strategy[x]), x)
  BY <1>1, <1>3, <1>4, Zenon DEF ClearInv, Clear
<1>6. \A o \in V : o \in U \/ o = w
  BY <1>1, <1>4, UnsettledBefore, Zenon
<1>7. w \notin known'
  <2>1. known' = known
    BY Zenon DEF Send, history
  <2>2. known \subseteq DOMAIN orders
    BY <1>0, TypeSplit, Zenon DEF HistoryTypes
  <2>3. w \notin DOMAIN orders
    BY <1>0, <1>4, Lengths, SMT
  <2> QED
    BY <2>1, <2>2, <2>3, Zenon
<1>8. strategy'[x].status = "PENDING" /\ session'[r].hand # x
  <2>1. strategy[x].live
    BY <1>1, Zenon DEF Minded
  <2>2. /\ strategy[x].live => strategy'[x].status = "PENDING"
        /\ session'[s].hand = 0
    BY SendStates, Zenon
  <2> QED
    BY <1>2, <1>3, <2>1, <2>2, Zenon
<1>9. Sound(x, V, known', "PENDING", NumberOf(strategy'[x]), session'[r].hand)
  BY <1>5, <1>6, <1>7, <1>8, SoundSent
<1> QED
  BY <1>4, <1>8, <1>9, Zenon

LEMMA ClearKept ==
    ASSUME Safe, SenderInv, HandInv, EventsOrderly, UnaskedInv, ClearInv, [Next]_vars
    PROVE  ClearInv'
<1>0. TypeOK /\ Kept /\ Handled
  BY NextSafe, Zenon DEF Safe, SenderInv
<1>1. SUFFICES ASSUME NEW x \in Strategies', Minded(x)'
               PROVE  Sound(x, Unsettled(x)', known', strategy'[x].status, NumberOf(strategy'[x]),
                            session'[strategy'[x].ses].hand)
  BY Zenon DEF ClearInv, Clear, NumberOf
<1>2. PICK V, r : V = Unsettled(x)' /\ r = strategy'[x].ses
  OBVIOUS
<1>3. CASE x \notin Strategies
  <2>1. V = {}
    BY <1>1, <1>2, <1>3, NewOwnNothing, Zenon DEF Unsettled
  <2>2. r \in Sessions /\ r \in Sessions'
    BY <1>0, <1>1, <1>2, <1>3, Zenon DEF Kept, Fresh, SessionKept
  <2>3. session'[r].hand \in {0} \cup Strategies
    <3>1. CASE HandsKept
      BY <1>0, <2>2, <3>1, Referred, Zenon DEF HandsKept
    <3>2. ASSUME NEW j \in Sessions, Look(j) PROVE session'[r].hand \in {0} \cup Strategies
      <4>1. \E d \in session[j].DataPack :
              /\ d.obj \in Strategies /\ session'[j].hand = d.obj
              /\ \A i \in Sessions : i # j => session'[i] = session[i]
        BY <3>2, LookHands, Zenon
      <4> QED
        BY <1>0, <2>2, <4>1, Referred, Zenon
    <3> QED
      BY <3>1, <3>2, HandSteps, Zenon
  <2>4. x # 0
    <3>1. Len(strategy') \in Nat
      BY NextSafe, NextLengths, Zenon DEF Safe
    <3> QED
      BY <1>1, <3>1, SMT DEF Strategies
  <2>5. session'[r].hand # x
    BY <1>3, <2>3, <2>4, Zenon
  <2> QED
    BY <1>2, <2>1, <2>5, Zenon DEF Sound
<1>4. CASE x \in Strategies
  <2>1. Minded(x) /\ r = strategy[x].ses /\ r \in Sessions
    BY <1>0, <1>1, <1>2, <1>4, MindedBefore, Zenon
  <2>2. CASE \E s \in Sessions : Eventsubscriber(s)
    BY <1>1, <1>2, <1>4, <2>1, <2>2, ClearEvent, Zenon
  <2>3. CASE \E s \in Sessions : Send(s) /\ session[s].hand = x
    BY <1>1, <1>2, <1>4, <2>1, <2>3, ClearSend, Zenon
  <2>4. CASE /\ ~(\E s \in Sessions : Eventsubscriber(s))
             /\ ~(\E s \in Sessions : Send(s) /\ session[s].hand = x)
    <3>1. SameState(strategy'[x], strategy[x])
      BY <1>1, <1>4, <2>4, QuietState
    <3>2. PICK U : U = Unsettled(x)
      OBVIOUS
    <3>3. V \subseteq U
      BY <1>2, <1>4, <2>1, <2>4, <3>2, UnsettledBefore, Zenon
    <3>4. known' = known
      BY <2>4, HeardKept, Zenon
    <3>5. session'[r].hand = x => session[r].hand = x \/ strategy[x].status \in Free
      BY <1>4, <2>1, HandsNow, Zenon
    <3>6. Sound(x, U, known, strategy[x].status, NumberOf(strategy[x]), session[r].hand)
      BY <1>4, <2>1, <3>2, Zenon DEF ClearInv, Clear
    <3>7. Sound(x, V, known', strategy[x].status, NumberOf(strategy[x]), session'[r].hand)
      BY <3>3, <3>4, <3>5, <3>6, SoundKept
    <3> QED
      BY <1>2, <3>1, <3>7, Zenon DEF SameState
  <2> QED
    BY <2>2, <2>3, <2>4, Zenon
<1> QED
  BY <1>3, <1>4, Zenon

-----------------------------------------------------------------------------
(* No order is forgotten.                                                    *)

\* A strategy that is erased while its session runs has its order cancelled.
LEMMA LiveLost ==
    ASSUME Safe, OneStrategy, [Next]_vars, NEW x \in Strategies, strategy[x].live, ~strategy'[x].live,
           Running(strategy[x].ses)
    PROVE  CancelsOf(x) \subseteq asked'
<1>0. TypeOK
  BY Zenon DEF Safe
<1>1. CASE StatesKept
  BY <1>1, Zenon DEF StatesKept, SameState
<1>2. ASSUME NEW s \in Sessions, Send(s) PROVE FALSE
  <2>1. PICK y \in Strategies : /\ strategy'[y].live = strategy[y].live
                                /\ \A z \in Strategies : z # y => strategy'[z] = strategy[z]
    BY <1>2, SendStates, Zenon
  <2> QED
    BY <2>1, Zenon
<1>3. ASSUME NEW s \in Sessions, Eventsubscriber(s) PROVE FALSE
  <2>1. PICK e : e = Head(session[s].inbox)
    OBVIOUS
  <2>2. PICK y : EventOf(s, e, y) /\ (EventMade(e, y) \/ EventFound(s, e, y))
    BY <1>3, <2>1, EventStates, Zenon
  <2>3. \A z \in Strategies : z # y => strategy'[z] = strategy[z]
    BY <2>2, Zenon DEF EventOf
  <2>4. y \in Strategies => strategy'[y].live = strategy[y].live
    BY <2>2, Zenon DEF EventMade, EventFound, EventIgnored, EventConfirmed, EventEnds, SameState
  <2> QED
    BY <2>3, <2>4, Zenon
<1>4. ASSUME NEW s \in Sessions, Disposal(s) PROVE FALSE
  <2>1. ASSUME StopAllOrder(s) PROVE FALSE
    BY <2>1, StopStates, Zenon
  <2>2. ASSUME EraseAll(s) PROVE FALSE
    <3>1. strategy[x].ses = s
      BY <2>2, EraseStates, Zenon
    <3>2. session[s].phase = "stopped"
      BY <1>0, <2>2, EraseAllStep
    <3> QED
      BY <3>1, <3>2 DEF Running
  <2> QED
    BY <1>4, <2>1, <2>2, Zenon DEF Disposal
<1>5. ASSUME NEW c \in Clients, NEW PF, HandleOnFOPairUnSubscription(c, PF)
      PROVE  CancelsOf(x) \subseteq asked'
  <2>1. PICK y : /\ asked' = asked \cup CancelsOf(y)
                 /\ \A z \in Strategies : z # y => strategy'[z] = strategy[z]
    BY <1>5, UnSubscriptionStates, Zenon
  <2>2. x = y
    BY <2>1, Zenon
  <2> QED
    BY <2>1, <2>2, Zenon
<1> QED
  BY <1>1, <1>2, <1>3, <1>4, <1>5, StateSteps, Zenon

\* A session stops by StopAllOrder.
LEMMA PhaseLost ==
    ASSUME Safe, [Next]_vars, NEW s \in Sessions, Running(s), session'[s].phase \notin {"open", "exiting"}
    PROVE  StopAllOrder(s)
<1>0. TypeOK
  BY Zenon DEF Safe
<1>1. ASSUME session'[s].phase = session[s].phase PROVE FALSE
  BY <1>1, Zenon DEF Running
<1>2. ASSUME NEW c \in Clients, Login(c) PROVE session'[s] = session[s]
  <2>1. CASE IniMap
    BY <1>0, <1>2, <2>1, LoginStep, Zenon
  <2>2. CASE ~IniMap
    BY <1>2, <2>2, Zenon DEF Login
  <2> QED
    BY <2>1, <2>2
<1>3. ASSUME NEW c \in Clients, Dispose(c) PROVE FALSE
  <2>1. session'[s] = IF s = StgMap[c] THEN [session[s] EXCEPT !.phase = "exiting"] ELSE session[s]
    BY <1>0, <1>3, DisposeStep
  <2>2. CASE s = StgMap[c]
    <3>1. session[s] \in SessionRecords /\ session'[s] = [session[s] EXCEPT !.phase = "exiting"]
      BY <1>0, <2>1, <2>2, Records, Zenon
    <3>2. session'[s].phase = "exiting"
      BY <3>1, PhaseFields
    <3> QED
      BY <3>2
  <2>3. CASE s # StgMap[c]
    BY <1>1, <2>1, <2>3, Zenon
  <2> QED
    BY <2>2, <2>3, Zenon
<1>4. ASSUME NEW j \in Sessions, Disposal(j) PROVE StopAllOrder(s)
  <2>1. j = s
    BY <1>1, <1>4, DisposalEnds, Zenon
  <2>2. ~EraseAll(s)
    <3>1. SUFFICES ASSUME EraseAll(s) PROVE FALSE
      OBVIOUS
    <3>2. session[s].phase = "stopped"
      BY <1>0, <3>1, EraseAllStep
    <3> QED
      BY <3>2 DEF Running
  <2> QED
    BY <1>4, <2>1, <2>2, Zenon DEF Disposal
<1> QED
  BY <1>1, <1>2, <1>3, <1>4, PhaseSteps, Zenon DEF PhasesKept

LEMMA ShadowedGrows == ASSUME Safe, [Next]_vars PROVE shadowed \subseteq shadowed'
<1>1. ASSUME NEW c \in Clients, Requests(c) PROVE shadowed' = shadowed
  BY <1>1, Zenon DEF Requests, Login, Dispose, HandleOnFOPairSubscription, HandleOnFOPairUnSubscription,
     HandleOnFOPairDiff, ManualOrderEntry, ManualOrder_Mod_CNclEntry, history
<1>2. ASSUME NEW s \in Sessions, Disposal(s) PROVE shadowed \subseteq shadowed'
  <2>1. CASE StopAllOrder(s)
    BY <2>1, StopStates, Zenon
  <2>2. CASE EraseAll(s)
    BY <2>2, Zenon DEF EraseAll, history
  <2> QED
    BY <1>2, <2>1, <2>2, Zenon DEF Disposal
<1>3. ASSUME NEW s \in Sessions, DataThread(s) \/ Eventsubscriber(s) PROVE shadowed' = shadowed
  BY <1>3, EventInboxes, Zenon DEF DataThread, Datasubscriber, Look, Send, CallErased, history
<1>4. ASSUME NEW o \in DOMAIN orders, Exchange(o) PROVE shadowed' = shadowed
  BY <1>4, Zenon DEF Exchange, Accept, Fill, Withdraw, Refuse, Moves, history
<1>5. ASSUME LoadSettings \/ LoadContract \/ UNCHANGED vars PROVE shadowed' = shadowed
  BY <1>5, Zenon DEF LoadSettings, LoadContract, vars, history
<1> QED
  BY <1>1, <1>2, <1>3, <1>4, <1>5, Zenon DEF Next, Step

\* The cancel of an order that still works was not answered.
LEMMA AskedStays ==
    ASSUME Safe, NoManuals, OneStrategy, [Next]_vars, NEW o \in asked, orders'[o].state = "working"
    PROVE  o \in asked'
<1>1. ASSUME NEW w \in DOMAIN orders, Exchange(w) PROVE o \in asked'
  <2>1. PICK from, to, kind : ExchangeEffect(w, from, to, kind)
    BY <1>1, ExchangeSteps
  <2>2. "done" # "working"
    OBVIOUS
  <2> QED
    BY <2>1, <2>2, Zenon DEF ExchangeEffect, Moved
<1>2. ASSUME NEW c \in Clients, NEW PF, HandleOnFOPairUnSubscription(c, PF) PROVE o \in asked'
  BY <1>2, UnSubscriptionStates, Zenon
<1>3. ASSUME NEW s \in Sessions, StopAllOrder(s) PROVE o \in asked'
  BY <1>3, StopStates, Zenon
<1> QED
  BY <1>1, <1>2, <1>3, AskedSteps, Zenon

\* A strategy that answered for its orders and no longer does had its order cancelled, or another
\* portfolio had taken the entry of its first leg.
LEMMA CancelSent ==
    ASSUME Safe, OneStrategy, [Next]_vars, NEW x \in Strategies, strategy[x].live, Running(strategy[x].ses),
           ~strategy'[x].live \/ session'[strategy'[x].ses].phase \notin {"open", "exiting"}
    PROVE  CancelsOf(x) \subseteq asked' \/ x \in shadowed'
<1>0. TypeOK /\ Kept
  BY NextSafe, Zenon DEF Safe
<1>1. PICK s : s = strategy[x].ses
  OBVIOUS
<1>2. s \in Sessions /\ strategy'[x].ses = s
  BY <1>0, <1>1, Referred, Zenon DEF Kept, StrategyKept, SameMaking
<1>3. CASE ~strategy'[x].live
  BY <1>3, LiveLost, Zenon
<1>4. CASE session'[s].phase \notin {"open", "exiting"}
  <2>1. StopAllOrder(s)
    BY <1>1, <1>2, <1>4, PhaseLost
  <2>2. PICK reached \in SUBSET Strategies :
          /\ asked' = asked \cup UNION {CancelsOf(y) : y \in reached}
          /\ shadowed' = shadowed \cup {y \in Strategies \ reached : strategy[y].ses = s}
    BY <1>2, <2>1, StopStates, Zenon
  <2> QED
    BY <1>1, <2>2, Zenon
<1> QED
  BY <1>2, <1>3, <1>4, Zenon

\* What the cancels rest on.
MindInv ==
    /\ NoManuals /\ EventsOrderly /\ HandInv /\ KnownInv /\ NumberInv /\ UnaskedInv /\ ClearInv
    /\ NoKnownOrderForgotten

LEMMA ForgottenNone ==
    ASSUME Safe, SenderInv, MindInv, KnownInv', [Next]_vars
    PROVE  NoKnownOrderForgotten'
<1>0. TypeOK /\ Kept /\ TypeOK' /\ OneStrategy /\ Handled
  BY NextSafe, Zenon DEF Safe, SenderInv
<1>1. /\ NoManuals /\ EventsOrderly /\ HandInv /\ KnownInv /\ NumberInv /\ UnaskedInv /\ ClearInv
      /\ NoKnownOrderForgotten
  BY Zenon DEF MindInv
<1>2. SUFFICES ASSUME NEW o \in known', NEW x, x = orders'[o].obj, orders'[o].state = "working",
                      HeardItsOwn(x)',
                      ~strategy'[x].live \/ session'[strategy'[x].ses].phase \in {"stopped", "erased"}
               PROVE  o \in asked' \/ x \in shadowed'
  BY Zenon DEF NoKnownOrderForgotten
<1>3. CASE o \notin known
  <2>1. PICK s \in Sessions : Eventsubscriber(s)
    BY <1>2, <1>3, HeardKept, Zenon
  <2>2. PICK e : e = Head(session[s].inbox)
    OBVIOUS
  <2>3. PICK y : EventOf(s, e, y) /\ (EventMade(e, y) \/ EventFound(s, e, y))
    BY <1>0, <1>2, <1>3, <2>1, <2>2, EventStates, Zenon
  <2>4. o = e.order /\ orders[o].obj = y /\ ~IsExit(s)
    BY <1>2, <1>3, <2>3, Zenon DEF EventOf
  <2>5. orders' = orders /\ y = x
    BY <1>2, <2>1, <2>4, EventInboxes, Zenon
  <2>6. x # 0
    BY <1>2, Zenon DEF KnownInv
  <2>7. x \in Strategies
    <3>1. known' \subseteq DOMAIN orders'
      BY <1>0, Zenon DEF TypeOK, HistoryTypes
    <3> QED
      BY <1>0, <1>2, <2>5, <2>6, <3>1, Referred, Zenon
  <2>8. strategy'[x].live /\ strategy[x].ses = s
    BY <2>3, <2>5, <2>7, Zenon DEF EventMade, EventFound, EventIgnored, EventConfirmed, EventEnds, SameState
  <2>9. session'[s].phase = "open" /\ strategy'[x].ses = s
    <3>1. session'[s].phase = session[s].phase
      BY <2>1, EventSafe, Zenon DEF PhasesKept
    <3> QED
      BY <1>0, <2>4, <2>7, <2>8, <3>1, Zenon DEF IsExit, Kept, StrategyKept, SameMaking
  <2> QED
    BY <1>2, <2>8, <2>9
<1>4. CASE o \in known
  <2>1. o \in DOMAIN orders /\ orders[o].obj = x /\ x \in Strategies /\ orders[o].state # "sent"
    <3>1. o \in DOMAIN orders
      BY <1>0, <1>4, TypeSplit, Zenon DEF HistoryTypes
    <3>2. orders[o].obj = x
      BY <1>0, <1>2, <3>1, Zenon DEF Kept, OrderKept
    <3> QED
      BY <1>0, <1>1, <1>4, <3>1, <3>2, Referred, Zenon DEF KnownInv
  <2>2. orders[o].state # "done"
    BY <1>2, <2>1, StatesForward
  <2>3. orders[o].state = "working"
    <3>1. orders[o] \in OrderRecords
      BY <1>0, <2>1, Records, Zenon
    <3> QED
      BY <2>1, <2>2, <3>1, SMT DEF OrderRecords
  <2>4. HeardItsOwn(x)
    BY <1>2, <2>1, OwnHeardBefore
  <2>5. CASE ~strategy[x].live \/ session[strategy[x].ses].phase \in {"stopped", "erased"}
    <3>1. o \in asked \/ x \in shadowed
      BY <1>1, <1>4, <2>1, <2>3, <2>4, <2>5, Zenon DEF NoKnownOrderForgotten
    <3> QED
      BY <1>0, <1>1, <1>2, <3>1, AskedStays, ShadowedGrows, Zenon
  <2>6. CASE strategy[x].live /\ session[strategy[x].ses].phase \notin {"stopped", "erased"}
    <3>1. Running(strategy[x].ses)
      <4>1. strategy[x].ses \in Sessions
        BY <1>0, <2>1, Referred, Zenon
      <4>2. session[strategy[x].ses] \in SessionRecords
        BY <1>0, <4>1, Records, Zenon
      <4>3. session[strategy[x].ses].phase \in {"open", "exiting", "stopped", "erased"}
        BY <4>2, SMT DEF SessionRecords
      <4> QED
        BY <2>6, <4>3, Zenon DEF Running
    <3>2. o \in Unsettled(x)
      BY <2>1, <2>2, Zenon DEF Unsettled, Loose
    <3>3. Sound(x, Unsettled(x), known, strategy[x].status, NumberOf(strategy[x]),
                session[strategy[x].ses].hand)
      BY <1>1, <2>1, <2>4, <2>6, <3>1, Zenon DEF ClearInv, Clear, Minded
    <3>4. strategy[x].status = "OPEN" /\ NumberOf(strategy[x]) = o
      BY <1>4, <3>2, <3>3, Zenon DEF Sound
    <3>5. o # 0
      BY <1>0, <2>1, Lengths, SMT
    <3>6. o \in CancelsOf(x)
      BY <3>4, <3>5, Zenon DEF CancelsOf, OrderNumber, NumberOf
    <3>7. CancelsOf(x) \subseteq asked' \/ x \in shadowed'
      <4>1. ~strategy'[x].live \/ session'[strategy'[x].ses].phase \notin {"open", "exiting"}
        BY <1>2
      <4> QED
        BY <1>0, <2>1, <2>6, <3>1, <4>1, CancelSent
    <3> QED
      BY <3>6, <3>7, Zenon
  <2> QED
    BY <2>5, <2>6, Zenon
<1> QED
  BY <1>3, <1>4, Zenon

LEMMA MindInvKept == Safe /\ SenderInv /\ CallInv /\ MindInv /\ [Next]_vars => MindInv'
<1> SUFFICES ASSUME Safe, SenderInv, CallInv, MindInv, [Next]_vars PROVE MindInv'
  OBVIOUS
<1>1. /\ NoManuals /\ EventsOrderly /\ HandInv /\ KnownInv /\ NumberInv /\ UnaskedInv /\ ClearInv
  BY Zenon DEF MindInv
<1>2. NoManuals' /\ EventsOrderly' /\ HandInv' /\ KnownInv' /\ NumberInv'
  BY <1>1, NoManualsKept, EventsOrderlyKept, HandInvKept, KnownInvKept, NumberInvKept, Zenon
<1>3. UnaskedInv' /\ ClearInv'
  BY <1>1, UnaskedKept, ClearKept, Zenon
<1>4. NoKnownOrderForgotten'
  BY <1>2, ForgottenNone, Zenon
<1> QED
  BY <1>2, <1>3, <1>4, Zenon DEF MindInv

\* ClientSession: no order that works and whose number its strategy took is forgotten: when the
\* strategy is erased or its session has stopped, a cancel was sent, unless another portfolio
\* took the entry of its first leg or a stranger's event changed the strategy's status
\* (UnSubscription, StopAllOrder, CancelAllOrder).
THEOREM NoneForgotten == Spec => []NoKnownOrderForgotten
<1>1. Init => MindInv
  <2> SUFFICES ASSUME Init PROVE MindInv
    OBVIOUS
  <2>1. known = {}
    BY Zenon DEF Init
  <2> QED
    BY <2>1, NoStrategies, Zenon DEF MindInv, NoManuals, EventsOrderly, HandInv, KnownInv, NumberInv,
       UnaskedInv, ClearInv, NoKnownOrderForgotten
<1>2. MindInv => NoKnownOrderForgotten
  BY Zenon DEF MindInv
<1> QED
  BY <1>1, <1>2, MindInvKept, SenderInvInit, SenderInvKept, AlwaysCalls, AlwaysSafe, PTL DEF Spec
=============================================================================
