----------------------- MODULE AgentLifecycleProofs ------------------------
(***************************************************************************)
(* Proofs about AgentLifecycle, for any number of attempts at an identity. *)
(***************************************************************************)
EXTENDS AgentLifecycle, TLAPS

Early == {"unborn", "waiting", "loading", "loaded"}
Places == Early \union {"setup", "ready", "live", "failing", "listing", "rejected"}

TypeOK ==
  /\ factory \in {"open", "closing", "closed"}
  /\ sessions \in Attempts \union {None}
  /\ agents \in Attempts \union {None}
  /\ sessionEdge \in [Attempts -> {"none", "created", "disposed"}]
  /\ agentEdge \in [Attempts -> {"none", "created", "disposed"}]
  /\ pc \in [Attempts -> Places]
  /\ aborted \in [Attempts -> BOOLEAN]
  /\ teardown \in [Attempts -> {"none", "drain", "unwind", "done"}]
  /\ preparation \in [Attempts -> {"none", "pending", "held", "consumed", "returned"}]
  /\ driver \in [Attempts -> {"idle", "running"}]

\* What an attempt has made is in somebody's hands: a registered attempt is live
\* or being torn down, and a factory that closes has started the teardown of
\* whatever was prepared.
Kept(a) ==
  /\ teardown[a] # "none" => aborted[a]
  /\ pc[a] \in Early => teardown[a] = "none"
  /\ pc[a] = "listing" => teardown[a] \in {"none", "done"}
  /\ teardown[a] \in {"unwind", "done"} => driver[a] = "idle"
  /\ sessions = a => teardown[a] # "done" /\ (teardown[a] = "none" => pc[a] = "live")
  /\ factory # "open" /\ pc[a] \in {"setup", "ready", "live"} => teardown[a] # "none"
  /\ preparation[a] = "held" => pc[a] \in {"loaded", "setup", "ready", "failing"}

IInv ==
  /\ TypeOK
  /\ EdgesArePaired
  /\ NothingDrivesADetachedSession
  /\ NothingOutlivesTheFactory
  /\ \A a \in Attempts : Kept(a)

(***************************************************************************)
(* The steps.                                                              *)
(***************************************************************************)
LEMMA Initially == Init => IInv
BY AgentLifecycleAssumption
DEF Init, IInv, TypeOK, Early, Places, EdgesArePaired, NothingDrivesADetachedSession,
    NothingOutlivesTheFactory, Kept

\* What dispose does to each attempt.
LEMMA Disposes ==
  ASSUME TypeOK, NEW S, Dispose(S)
  PROVE  /\ aborted' \in [Attempts -> BOOLEAN]
         /\ teardown' \in [Attempts -> {"none", "drain", "unwind", "done"}]
         /\ \A b \in Attempts :
              /\ aborted'[b] <=> aborted[b] \/ b \in S
              /\ teardown'[b] = IF b \in S /\ teardown[b] = "none" THEN "drain" ELSE teardown[b]
<1>1. aborted' \in [Attempts -> BOOLEAN]
  BY Zenon DEF TypeOK, Dispose
<1>2. teardown' \in [Attempts -> {"none", "drain", "unwind", "done"}]
  BY DEF TypeOK, Dispose
<1>3. ASSUME NEW b \in Attempts
      PROVE  aborted'[b] <=> aborted[b] \/ b \in S
  BY Zenon DEF Dispose
<1>4. ASSUME NEW b \in Attempts
      PROVE  teardown'[b] = IF b \in S /\ teardown[b] = "none" THEN "drain" ELSE teardown[b]
  BY DEF Dispose
<1> QED BY <1>1, <1>2, <1>3, <1>4

\* An attempt that fails disposes what it has made.
LEMMA FailedKeeps ==
  ASSUME IInv, NEW a \in Attempts, pc[a] \in {"setup", "ready"}, Fail(a),
         UNCHANGED <<factory, registries, preparation, driver>>
  PROVE  IInv'
<1> USE AgentLifecycleAssumption DEF Goto, registries
<1>0. /\ aborted' \in [Attempts -> BOOLEAN]
      /\ teardown' \in [Attempts -> {"none", "drain", "unwind", "done"}]
      /\ \A b \in Attempts :
           /\ aborted'[b] <=> aborted[b] \/ b \in {a}
           /\ teardown'[b] = IF b \in {a} /\ teardown[b] = "none" THEN "drain" ELSE teardown[b]
  BY Disposes DEF IInv, Fail
<1>5. pc' = [pc EXCEPT ![a] = "failing"]
  BY DEF Fail
<1>1. TypeOK'
  BY <1>0, <1>5 DEF IInv, TypeOK, Early, Places
<1>2. EdgesArePaired' /\ NothingDrivesADetachedSession'
  BY <1>0, <1>5 DEF IInv, TypeOK, EdgesArePaired, NothingDrivesADetachedSession, Kept
<1>3. NothingOutlivesTheFactory'
  BY <1>0, <1>5 DEF IInv, TypeOK, EdgesArePaired, NothingDrivesADetachedSession,
     NothingOutlivesTheFactory, Kept
<1>4. ASSUME NEW b \in Attempts PROVE Kept(b)'
  BY <1>0, <1>5 DEF IInv, TypeOK, Early, Places, EdgesArePaired, NothingDrivesADetachedSession,
     Kept
<1> QED BY <1>1, <1>2, <1>3, <1>4 DEF IInv

\* What a publication has entered when a listener stops it.
LEMMA RolledBackKeeps ==
  ASSUME IInv, NEW a \in Attempts, NEW stage, NEW where,
         \/ pc[a] = "ready" /\ ~aborted[a] /\ where = "failing"
         \/ /\ pc[a] = "listing" /\ teardown[a] = "none"
            /\ where = "rejected" /\ factory = "open",
         Enter(a, stage), Goto(a, where), Dispose({a}),
         UNCHANGED <<factory, preparation, driver>>
  PROVE  IInv'
<1> USE AgentLifecycleAssumption DEF Goto, Enter
<1>0. /\ aborted' \in [Attempts -> BOOLEAN]
      /\ teardown' \in [Attempts -> {"none", "drain", "unwind", "done"}]
      /\ \A b \in Attempts :
           /\ aborted'[b] <=> aborted[b] \/ b \in {a}
           /\ teardown'[b] = IF b \in {a} /\ teardown[b] = "none" THEN "drain" ELSE teardown[b]
  BY Disposes DEF IInv
<1>1. TypeOK'
  BY <1>0 DEF IInv, TypeOK, Early, Places
<1>2. EdgesArePaired' /\ NothingDrivesADetachedSession'
  BY <1>0 DEF IInv, TypeOK, EdgesArePaired, NothingDrivesADetachedSession, Kept
<1>3. NothingOutlivesTheFactory'
  BY <1>0 DEF IInv, TypeOK, EdgesArePaired, NothingDrivesADetachedSession,
     NothingOutlivesTheFactory, Kept
<1>4. ASSUME NEW b \in Attempts PROVE Kept(b)'
  BY <1>0 DEF IInv, TypeOK, Early, Places, EdgesArePaired, NothingDrivesADetachedSession,
     Kept
<1> QED BY <1>1, <1>2, <1>3, <1>4 DEF IInv

\* A publication that no listener stops.
LEMMA PublishedKeeps ==
  ASSUME IInv, NEW a \in Attempts,
         \/ pc[a] = "ready" /\ ~aborted[a]
         \/ pc[a] = "listing" /\ teardown[a] = "none" /\ factory = "open",
         Enter(a, "end"), Goto(a, "live"),
         preparation' \in [Attempts -> {"none", "pending", "held", "consumed", "returned"}],
         \A b \in Attempts : preparation'[b] = "held" => b # a /\ preparation[b] = "held",
         UNCHANGED <<factory, aborted, teardown, driver>>
  PROVE  IInv'
<1> USE AgentLifecycleAssumption DEF Goto, Enter
<1>1. TypeOK'
  BY DEF IInv, TypeOK, Early, Places
<1>2. EdgesArePaired' /\ NothingDrivesADetachedSession'
  BY DEF IInv, TypeOK, EdgesArePaired, NothingDrivesADetachedSession, Kept
<1>3. NothingOutlivesTheFactory'
  BY DEF IInv, TypeOK, EdgesArePaired, NothingDrivesADetachedSession,
     NothingOutlivesTheFactory, Kept
<1>4. ASSUME NEW b \in Attempts PROVE Kept(b)'
  BY DEF IInv, TypeOK, Early, Places, EdgesArePaired, NothingDrivesADetachedSession,
     Kept
<1> QED BY <1>1, <1>2, <1>3, <1>4 DEF IInv

LEMMA BeginKeeps ==
  ASSUME IInv, NEW a \in Attempts, Begin(a)
  PROVE  IInv'
<1>0. PICK where \in {"rejected", "setup", "loading", "waiting"} : Goto(a, where)
  BY DEF Begin
<1> USE AgentLifecycleAssumption DEF Goto, registries
<1>5. /\ pc[a] = "unborn" /\ factory = "open"
      /\ UNCHANGED <<factory, registries, aborted, teardown, driver>>
      /\ preparation' \in {preparation, [preparation EXCEPT ![a] = "pending"]}
  BY DEF Begin
<1>1. TypeOK'
  BY <1>0, <1>5 DEF IInv, TypeOK, Early, Places
<1>2. EdgesArePaired' /\ NothingDrivesADetachedSession'
  BY <1>0, <1>5 DEF IInv, TypeOK, EdgesArePaired, NothingDrivesADetachedSession, Kept
<1>3. NothingOutlivesTheFactory'
  BY <1>0, <1>5 DEF IInv, TypeOK, EdgesArePaired, NothingDrivesADetachedSession,
     NothingOutlivesTheFactory, Kept
<1>4. ASSUME NEW b \in Attempts PROVE Kept(b)'
  BY <1>0, <1>5 DEF IInv, TypeOK, Early, Places, EdgesArePaired, NothingDrivesADetachedSession,
     Kept
<1> QED BY <1>1, <1>2, <1>3, <1>4 DEF IInv

LEMMA WaitedKeeps ==
  ASSUME IInv, NEW a \in Attempts, Waited(a)
  PROVE  IInv'
<1> USE AgentLifecycleAssumption DEF Waited, Goto, registries, attempt
<1>1. TypeOK'
  BY DEF IInv, TypeOK, Early, Places
<1>2. EdgesArePaired' /\ NothingDrivesADetachedSession'
  BY DEF IInv, TypeOK, EdgesArePaired, NothingDrivesADetachedSession, Kept
<1>3. NothingOutlivesTheFactory'
  BY DEF IInv, TypeOK, EdgesArePaired, NothingDrivesADetachedSession,
     NothingOutlivesTheFactory, Kept
<1>4. ASSUME NEW b \in Attempts PROVE Kept(b)'
  BY DEF IInv, TypeOK, Early, Places, EdgesArePaired, NothingDrivesADetachedSession,
     Kept
<1> QED BY <1>1, <1>2, <1>3, <1>4 DEF IInv

LEMMA LoadSettlesKeeps ==
  ASSUME IInv, NEW a \in Attempts, LoadSettles(a)
  PROVE  IInv'
<1> USE AgentLifecycleAssumption DEF LoadSettles, Refused, Goto, registries, attempt
<1>1. TypeOK'
  BY DEF IInv, TypeOK, Early, Places
<1>2. EdgesArePaired' /\ NothingDrivesADetachedSession'
  BY DEF IInv, TypeOK, EdgesArePaired, NothingDrivesADetachedSession, Kept
<1>3. NothingOutlivesTheFactory'
  BY DEF IInv, TypeOK, EdgesArePaired, NothingDrivesADetachedSession,
     NothingOutlivesTheFactory, Kept
<1>4. ASSUME NEW b \in Attempts PROVE Kept(b)'
  BY DEF IInv, TypeOK, Early, Places, EdgesArePaired, NothingDrivesADetachedSession,
     Kept
<1> QED BY <1>1, <1>2, <1>3, <1>4 DEF IInv

LEMMA AbandonLoadKeeps ==
  ASSUME IInv, NEW a \in Attempts, AbandonLoad(a)
  PROVE  IInv'
<1> USE AgentLifecycleAssumption DEF AbandonLoad, Goto, registries, attempt
<1>1. TypeOK'
  BY DEF IInv, TypeOK, Early, Places
<1>2. EdgesArePaired' /\ NothingDrivesADetachedSession'
  BY DEF IInv, TypeOK, EdgesArePaired, NothingDrivesADetachedSession, Kept
<1>3. NothingOutlivesTheFactory'
  BY DEF IInv, TypeOK, EdgesArePaired, NothingDrivesADetachedSession,
     NothingOutlivesTheFactory, Kept
<1>4. ASSUME NEW b \in Attempts PROVE Kept(b)'
  BY DEF IInv, TypeOK, Early, Places, EdgesArePaired, NothingDrivesADetachedSession,
     Kept
<1> QED BY <1>1, <1>2, <1>3, <1>4 DEF IInv

LEMMA LoadedKeeps ==
  ASSUME IInv, NEW a \in Attempts, Loaded(a)
  PROVE  IInv'
<1> USE AgentLifecycleAssumption DEF Loaded, Goto, Returned, registries, attempt
<1>1. TypeOK'
  BY DEF IInv, TypeOK, Early, Places
<1>2. EdgesArePaired' /\ NothingDrivesADetachedSession'
  BY DEF IInv, TypeOK, EdgesArePaired, NothingDrivesADetachedSession, Kept
<1>3. NothingOutlivesTheFactory'
  BY DEF IInv, TypeOK, EdgesArePaired, NothingDrivesADetachedSession,
     NothingOutlivesTheFactory, Kept
<1>4. ASSUME NEW b \in Attempts PROVE Kept(b)'
  BY DEF IInv, TypeOK, Early, Places, EdgesArePaired, NothingDrivesADetachedSession,
     Kept
<1> QED BY <1>1, <1>2, <1>3, <1>4 DEF IInv

LEMMA SetupSettlesKeeps ==
  ASSUME IInv, NEW a \in Attempts, SetupSettles(a)
  PROVE  IInv'
<1>a. CASE Fail(a)
  BY <1>a, FailedKeeps DEF SetupSettles
<1>b. CASE Goto(a, "ready") /\ UNCHANGED <<aborted, teardown>>
  <2> USE AgentLifecycleAssumption DEF SetupSettles, Goto, registries
  <2>1. TypeOK'
    BY <1>b DEF IInv, TypeOK, Early, Places
  <2>2. EdgesArePaired' /\ NothingDrivesADetachedSession'
    BY <1>b DEF IInv, TypeOK, EdgesArePaired, NothingDrivesADetachedSession, Kept
  <2>3. NothingOutlivesTheFactory'
    BY <1>b DEF IInv, TypeOK, EdgesArePaired, NothingDrivesADetachedSession,
       NothingOutlivesTheFactory, Kept
  <2>4. ASSUME NEW b \in Attempts PROVE Kept(b)'
    BY <1>b DEF IInv, TypeOK, Early, Places, EdgesArePaired, NothingDrivesADetachedSession,
       Kept
  <2> QED BY <2>1, <2>2, <2>3, <2>4 DEF IInv
<1> QED BY <1>a, <1>b DEF SetupSettles

LEMMA SetupAbortedKeeps ==
  ASSUME IInv, NEW a \in Attempts, SetupAborted(a)
  PROVE  IInv'
BY FailedKeeps DEF SetupAborted

LEMMA PublishKeeps ==
  ASSUME IInv, NEW a \in Attempts, Publish(a)
  PROVE  IInv'
<1>1. pc[a] = "ready" /\ UNCHANGED <<factory, driver>>
  BY DEF Publish
<1>a. CASE Fail(a) /\ UNCHANGED <<registries, preparation>>
  BY <1>1, <1>a, FailedKeeps
<1>b. ASSUME ~aborted[a], Fail(a), UNCHANGED preparation,
             NEW stage \in {"session", "agent", "start"}, Enter(a, stage)
      PROVE  IInv'
  BY <1>1, <1>b, RolledBackKeeps DEF Fail
<1>c. ASSUME ~aborted[a], Enter(a, "end"), Goto(a, "live"),
             preparation' = [preparation EXCEPT ![a] = IF @ = "held" THEN "consumed" ELSE @],
             UNCHANGED <<aborted, teardown>>
      PROVE  IInv'
  <2>1. UNCHANGED <<factory, aborted, teardown, driver>>
    BY <1>1, <1>c
  <2>2. \/ pc[a] = "ready" /\ ~aborted[a]
        \/ pc[a] = "listing" /\ teardown[a] = "none" /\ factory = "open"
    BY <1>1, <1>c
  <2>3. preparation' \in [Attempts -> {"none", "pending", "held", "consumed", "returned"}]
    BY <1>c DEF IInv, TypeOK
  <2>4. ASSUME NEW b \in Attempts, preparation'[b] = "held"
        PROVE  b # a /\ preparation[b] = "held"
    BY <1>c, <2>4 DEF IInv, TypeOK
  <2>5. Enter(a, "end") /\ Goto(a, "live")
    BY <1>c
  <2> QED BY <2>1, <2>2, <2>3, <2>4, <2>5, PublishedKeeps, Zenon
<1> QED BY <1>a, <1>b, <1>c, Zenon DEF Publish

LEMMA CreateConfiguredKeeps ==
  ASSUME IInv, NEW a \in Attempts, CreateConfigured(a)
  PROVE  IInv'
<1>1. pc[a] = "listing" /\ teardown[a] = "none" /\ UNCHANGED <<factory, preparation, driver>>
  BY DEF CreateConfigured
<1>a. CASE Goto(a, "rejected") /\ UNCHANGED <<registries, aborted, teardown>>
  <2> USE AgentLifecycleAssumption DEF Goto, registries
  <2>1. TypeOK'
    BY <1>1, <1>a DEF IInv, TypeOK, Early, Places
  <2>2. EdgesArePaired' /\ NothingDrivesADetachedSession'
    BY <1>1, <1>a DEF IInv, TypeOK, EdgesArePaired, NothingDrivesADetachedSession, Kept
  <2>3. NothingOutlivesTheFactory'
    BY <1>1, <1>a DEF IInv, TypeOK, EdgesArePaired, NothingDrivesADetachedSession,
       NothingOutlivesTheFactory, Kept
  <2>4. ASSUME NEW b \in Attempts PROVE Kept(b)'
    BY <1>1, <1>a DEF IInv, TypeOK, Early, Places, EdgesArePaired, NothingDrivesADetachedSession,
       Kept
  <2> QED BY <2>1, <2>2, <2>3, <2>4 DEF IInv
<1>b. CASE /\ factory = "open" /\ Enter(a, "end") /\ Goto(a, "live")
           /\ UNCHANGED <<aborted, teardown>>
  <2>1. preparation' \in [Attempts -> {"none", "pending", "held", "consumed", "returned"}]
    BY <1>1 DEF IInv, TypeOK
  <2>2. ASSUME NEW b \in Attempts, preparation'[b] = "held"
        PROVE  b # a /\ preparation[b] = "held"
    BY <1>1, <2>2 DEF IInv, Kept, Early
  <2> QED BY <1>1, <1>b, <2>1, <2>2, PublishedKeeps
<1>c. ASSUME factory = "open", NEW stage \in {"session", "agent", "start"}, Enter(a, stage),
             Goto(a, "rejected"), Dispose({a})
      PROVE  IInv'
  BY <1>1, <1>c, RolledBackKeeps
<1> QED BY <1>a, <1>b, <1>c DEF CreateConfigured

LEMMA LoadFailureStandsKeeps ==
  ASSUME IInv, NEW a \in Attempts, LoadFailureStands(a)
  PROVE  IInv'
<1> USE AgentLifecycleAssumption DEF LoadFailureStands, Goto, registries, attempt
<1>1. TypeOK'
  BY DEF IInv, TypeOK, Early, Places
<1>2. EdgesArePaired' /\ NothingDrivesADetachedSession'
  BY DEF IInv, TypeOK, EdgesArePaired, NothingDrivesADetachedSession, Kept
<1>3. NothingOutlivesTheFactory'
  BY DEF IInv, TypeOK, EdgesArePaired, NothingDrivesADetachedSession,
     NothingOutlivesTheFactory, Kept
<1>4. ASSUME NEW b \in Attempts PROVE Kept(b)'
  BY DEF IInv, TypeOK, Early, Places, EdgesArePaired, NothingDrivesADetachedSession,
     Kept
<1> QED BY <1>1, <1>2, <1>3, <1>4 DEF IInv

LEMMA FailureSettlesKeeps ==
  ASSUME IInv, NEW a \in Attempts, FailureSettles(a)
  PROVE  IInv'
<1> USE AgentLifecycleAssumption DEF FailureSettles, Refused, Goto, Returned, registries, attempt
<1>1. TypeOK'
  BY DEF IInv, TypeOK, Early, Places
<1>2. EdgesArePaired' /\ NothingDrivesADetachedSession'
  BY DEF IInv, TypeOK, EdgesArePaired, NothingDrivesADetachedSession, Kept
<1>3. NothingOutlivesTheFactory'
  BY DEF IInv, TypeOK, EdgesArePaired, NothingDrivesADetachedSession,
     NothingOutlivesTheFactory, Kept
<1>4. ASSUME NEW b \in Attempts PROVE Kept(b)'
  BY DEF IInv, TypeOK, Early, Places, EdgesArePaired, NothingDrivesADetachedSession,
     Kept
<1> QED BY <1>1, <1>2, <1>3, <1>4 DEF IInv

LEMMA SendKeeps ==
  ASSUME IInv, NEW a \in Attempts, Send(a)
  PROVE  IInv'
<1> USE AgentLifecycleAssumption DEF Send, registries, attempt
<1>1. TypeOK'
  BY DEF IInv, TypeOK, Early, Places
<1>2. EdgesArePaired' /\ NothingDrivesADetachedSession'
  BY DEF IInv, TypeOK, EdgesArePaired, NothingDrivesADetachedSession, Kept
<1>3. NothingOutlivesTheFactory'
  BY DEF IInv, TypeOK, EdgesArePaired, NothingDrivesADetachedSession,
     NothingOutlivesTheFactory, Kept
<1>4. ASSUME NEW b \in Attempts PROVE Kept(b)'
  BY DEF IInv, TypeOK, Early, Places, EdgesArePaired, NothingDrivesADetachedSession,
     Kept
<1> QED BY <1>1, <1>2, <1>3, <1>4 DEF IInv

LEMMA DriverEndsKeeps ==
  ASSUME IInv, NEW a \in Attempts, DriverEnds(a)
  PROVE  IInv'
<1> USE AgentLifecycleAssumption DEF DriverEnds, registries, attempt
<1>1. TypeOK'
  BY DEF IInv, TypeOK, Early, Places
<1>2. EdgesArePaired' /\ NothingDrivesADetachedSession'
  BY DEF IInv, TypeOK, EdgesArePaired, NothingDrivesADetachedSession, Kept
<1>3. NothingOutlivesTheFactory'
  BY DEF IInv, TypeOK, EdgesArePaired, NothingDrivesADetachedSession,
     NothingOutlivesTheFactory, Kept
<1>4. ASSUME NEW b \in Attempts PROVE Kept(b)'
  BY DEF IInv, TypeOK, Early, Places, EdgesArePaired, NothingDrivesADetachedSession,
     Kept
<1> QED BY <1>1, <1>2, <1>3, <1>4 DEF IInv

LEMMA CallerCancelsKeeps ==
  ASSUME IInv, NEW a \in Attempts, CallerCancels(a)
  PROVE  IInv'
<1> USE AgentLifecycleAssumption DEF CallerCancels, registries, attempt
<1>1. TypeOK'
  BY DEF IInv, TypeOK, Early, Places
<1>2. EdgesArePaired' /\ NothingDrivesADetachedSession'
  BY DEF IInv, TypeOK, EdgesArePaired, NothingDrivesADetachedSession, Kept
<1>3. NothingOutlivesTheFactory'
  BY DEF IInv, TypeOK, EdgesArePaired, NothingDrivesADetachedSession,
     NothingOutlivesTheFactory, Kept
<1>4. ASSUME NEW b \in Attempts PROVE Kept(b)'
  BY DEF IInv, TypeOK, Early, Places, EdgesArePaired, NothingDrivesADetachedSession,
     Kept
<1> QED BY <1>1, <1>2, <1>3, <1>4 DEF IInv

LEMMA DisposeHandleKeeps ==
  ASSUME IInv, NEW a \in Attempts, DisposeHandle(a)
  PROVE  IInv'
<1> USE AgentLifecycleAssumption DEF DisposeHandle, Dispose, registries, attempt
<1>1. TypeOK'
  BY DEF IInv, TypeOK, Early, Places
<1>2. EdgesArePaired' /\ NothingDrivesADetachedSession'
  BY DEF IInv, TypeOK, EdgesArePaired, NothingDrivesADetachedSession, Kept
<1>3. NothingOutlivesTheFactory'
  BY DEF IInv, TypeOK, EdgesArePaired, NothingDrivesADetachedSession,
     NothingOutlivesTheFactory, Kept
<1>4. ASSUME NEW b \in Attempts PROVE Kept(b)'
  BY DEF IInv, TypeOK, Early, Places, EdgesArePaired, NothingDrivesADetachedSession,
     Kept
<1> QED BY <1>1, <1>2, <1>3, <1>4 DEF IInv

LEMMA UnloadOwnerKeeps ==
  ASSUME IInv, NEW a \in Attempts, UnloadOwner(a)
  PROVE  IInv'
<1>0. CASE ~Prepared(a)
  <2> USE AgentLifecycleAssumption DEF UnloadOwner, registries
  <2>1. TypeOK'
    BY <1>0 DEF IInv, TypeOK, Early, Places
  <2>2. EdgesArePaired' /\ NothingDrivesADetachedSession'
    BY <1>0 DEF IInv, TypeOK, EdgesArePaired, NothingDrivesADetachedSession, Kept
  <2>3. NothingOutlivesTheFactory'
    BY <1>0 DEF IInv, TypeOK, EdgesArePaired, NothingDrivesADetachedSession,
       NothingOutlivesTheFactory, Kept
  <2>4. ASSUME NEW b \in Attempts PROVE Kept(b)'
    BY <1>0 DEF IInv, TypeOK, Early, Places, EdgesArePaired, NothingDrivesADetachedSession,
       Kept
  <2> QED BY <2>1, <2>2, <2>3, <2>4 DEF IInv
<1>a. CASE Prepared(a)
  <2>0. /\ aborted' \in [Attempts -> BOOLEAN]
        /\ teardown' \in [Attempts -> {"none", "drain", "unwind", "done"}]
        /\ \A b \in Attempts :
             /\ aborted'[b] <=> aborted[b] \/ b \in {a}
             /\ teardown'[b] = IF b \in {a} /\ teardown[b] = "none" THEN "drain" ELSE teardown[b]
    BY <1>a, Disposes DEF UnloadOwner, IInv
  <2> USE AgentLifecycleAssumption DEF UnloadOwner, Prepared, registries
  <2>1. TypeOK'
    BY <1>a, <2>0 DEF IInv, TypeOK, Early, Places
  <2>2. EdgesArePaired' /\ NothingDrivesADetachedSession'
    BY <1>a, <2>0 DEF IInv, TypeOK, EdgesArePaired, NothingDrivesADetachedSession, Kept
  <2>3. NothingOutlivesTheFactory'
    BY <1>a, <2>0 DEF IInv, TypeOK, EdgesArePaired, NothingDrivesADetachedSession,
       NothingOutlivesTheFactory, Kept
  <2>4. ASSUME NEW b \in Attempts PROVE Kept(b)'
    BY <1>a, <2>0 DEF IInv, TypeOK, Early, Places, EdgesArePaired, NothingDrivesADetachedSession,
       Kept
  <2> QED BY <2>1, <2>2, <2>3, <2>4 DEF IInv
<1> QED BY <1>0, <1>a

LEMMA OwnerUnloadedKeeps ==
  ASSUME IInv, NEW a \in Attempts, OwnerUnloaded(a)
  PROVE  IInv'
<1> USE AgentLifecycleAssumption DEF OwnerUnloaded, registries, attempt
<1>1. TypeOK'
  BY DEF IInv, TypeOK, Early, Places
<1>2. EdgesArePaired' /\ NothingDrivesADetachedSession'
  BY DEF IInv, TypeOK, EdgesArePaired, NothingDrivesADetachedSession, Kept
<1>3. NothingOutlivesTheFactory'
  BY DEF IInv, TypeOK, EdgesArePaired, NothingDrivesADetachedSession,
     NothingOutlivesTheFactory, Kept
<1>4. ASSUME NEW b \in Attempts PROVE Kept(b)'
  BY DEF IInv, TypeOK, Early, Places, EdgesArePaired, NothingDrivesADetachedSession,
     Kept
<1> QED BY <1>1, <1>2, <1>3, <1>4 DEF IInv

LEMMA CloseFactoryKeeps ==
  ASSUME IInv, CloseFactory
  PROVE  IInv'
<1> USE AgentLifecycleAssumption DEF CloseFactory, Prepared, Dispose, registries, attempt
<1>1. TypeOK'
  BY DEF IInv, TypeOK, Early, Places
<1>2. EdgesArePaired' /\ NothingDrivesADetachedSession'
  BY DEF IInv, TypeOK, EdgesArePaired, NothingDrivesADetachedSession, Kept
<1>3. NothingOutlivesTheFactory'
  BY DEF IInv, TypeOK, EdgesArePaired, NothingDrivesADetachedSession,
     NothingOutlivesTheFactory, Kept
<1>4. ASSUME NEW b \in Attempts PROVE Kept(b)'
  BY DEF IInv, TypeOK, Early, Places, EdgesArePaired, NothingDrivesADetachedSession,
     Kept
<1> QED BY <1>1, <1>2, <1>3, <1>4 DEF IInv

LEMMA FactoryClosedKeeps ==
  ASSUME IInv, FactoryClosed
  PROVE  IInv'
<1> USE AgentLifecycleAssumption DEF FactoryClosed, Settled, registries, attempt
<1>1. TypeOK'
  BY DEF IInv, TypeOK, Early, Places
<1>2. EdgesArePaired' /\ NothingDrivesADetachedSession'
  BY DEF IInv, TypeOK, EdgesArePaired, NothingDrivesADetachedSession, Kept
<1>3. NothingOutlivesTheFactory'
  BY DEF IInv, TypeOK, EdgesArePaired, NothingDrivesADetachedSession,
     NothingOutlivesTheFactory, Kept
<1>4. ASSUME NEW b \in Attempts PROVE Kept(b)'
  BY DEF IInv, TypeOK, Early, Places, EdgesArePaired, NothingDrivesADetachedSession,
     Kept
<1> QED BY <1>1, <1>2, <1>3, <1>4 DEF IInv

LEMMA DrainedKeeps ==
  ASSUME IInv, NEW a \in Attempts, Drained(a)
  PROVE  IInv'
<1> USE AgentLifecycleAssumption DEF Drained, Quiet, registries, attempt
<1>1. TypeOK'
  BY DEF IInv, TypeOK, Early, Places
<1>2. EdgesArePaired' /\ NothingDrivesADetachedSession'
  BY DEF IInv, TypeOK, EdgesArePaired, NothingDrivesADetachedSession, Kept
<1>3. NothingOutlivesTheFactory'
  BY DEF IInv, TypeOK, EdgesArePaired, NothingDrivesADetachedSession,
     NothingOutlivesTheFactory, Kept
<1>4. ASSUME NEW b \in Attempts PROVE Kept(b)'
  BY DEF IInv, TypeOK, Early, Places, EdgesArePaired, NothingDrivesADetachedSession,
     Kept
<1> QED BY <1>1, <1>2, <1>3, <1>4 DEF IInv

LEMMA UnwoundKeeps ==
  ASSUME IInv, NEW a \in Attempts, Unwound(a)
  PROVE  IInv'
<1> USE AgentLifecycleAssumption DEF Unwound, Without, Paired, registries, attempt
<1>1. TypeOK'
  BY DEF IInv, TypeOK, Early, Places
<1>2. EdgesArePaired' /\ NothingDrivesADetachedSession'
  BY DEF IInv, TypeOK, EdgesArePaired, NothingDrivesADetachedSession, Kept
<1>3. NothingOutlivesTheFactory'
  BY DEF IInv, TypeOK, EdgesArePaired, NothingDrivesADetachedSession,
     NothingOutlivesTheFactory, Kept
<1>4. ASSUME NEW b \in Attempts PROVE Kept(b)'
  BY DEF IInv, TypeOK, Early, Places, EdgesArePaired, NothingDrivesADetachedSession,
     Kept
<1> QED BY <1>1, <1>2, <1>3, <1>4 DEF IInv

LEMMA StutterKeeps == ASSUME IInv, UNCHANGED vars PROVE IInv'
BY DEF IInv, TypeOK, EdgesArePaired, NothingDrivesADetachedSession,
   NothingOutlivesTheFactory, Kept, vars, registries, attempt

LEMMA Preserved == IInv /\ [Next]_vars => IInv'
<1> SUFFICES ASSUME IInv, [Next]_vars PROVE IInv'
  OBVIOUS
<1>1. ASSUME NEW a \in Attempts, Continue(a) PROVE IInv'
  BY <1>1, WaitedKeeps, AbandonLoadKeeps, LoadedKeeps, SetupAbortedKeeps, PublishKeeps,
     FailureSettlesKeeps, DriverEndsKeeps, DrainedKeeps, UnwoundKeeps, OwnerUnloadedKeeps
  DEF Continue
<1>2. ASSUME NEW a \in Attempts, Environment(a) PROVE IInv'
  BY <1>2, BeginKeeps, LoadSettlesKeeps, CreateConfiguredKeeps, LoadFailureStandsKeeps,
     SetupSettlesKeeps, SendKeeps, CallerCancelsKeeps, DisposeHandleKeeps, UnloadOwnerKeeps
  DEF Environment, Listed
<1> QED BY <1>1, <1>2, CloseFactoryKeeps, FactoryClosedKeeps, StutterKeeps DEF Next

(***************************************************************************)
(* The theorems.                                                           *)
(***************************************************************************)
\* The strengthening is an invariant.
THEOREM Invariance == Spec => []IInv
<1>1. Init => IInv
  BY Initially
<1>2. IInv /\ [Next]_vars => IInv'
  BY Preserved
<1> QED BY <1>1, <1>2, PTL DEF Spec

\* The states of the attempts stay what the actions take them for.
THEOREM TypeCorrect == Spec => []TypeOK
<1>1. IInv => TypeOK
  BY DEF IInv
<1> QED BY Invariance, <1>1, PTL

\* enterSession, enterAgent and their detach: what listeners were told was
\* created is registered until they are told of its end, under one owner, at
\* whichever listener a publication stops.
THEOREM AnnouncedIsRegistered == Spec => []EdgesArePaired
<1>1. IInv => EdgesArePaired
  BY DEF IInv
<1> QED BY Invariance, <1>1, PTL

\* dispose detaches a session behind machine.whenIdle: nothing drives one that
\* is detached, or that another attempt has entered meanwhile.
THEOREM DetachedIsIdle == Spec => []NothingDrivesADetachedSession
<1>1. IInv => NothingDrivesADetachedSession
  BY DEF IInv
<1> QED BY Invariance, <1>1, PTL

\* FactoryOwnership.dispose: what it joins is all there is.
THEOREM ClosedIsEmpty == Spec => []NothingOutlivesTheFactory
<1>1. IInv => NothingOutlivesTheFactory
  BY DEF IInv
<1> QED BY Invariance, <1>1, PTL
=============================================================================
