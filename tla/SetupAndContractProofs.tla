----------------------- MODULE SetupAndContractProofs -----------------------
(***************************************************************************)
(* Proofs about what comes before an extract, and about the contract it    *)
(* works under.  First CaptureSetup: any number of pipelines, any          *)
(* deployment, and any number of failed setups and restarts.  Then         *)
(* ContractRegistry: any max_retries, any pauses between attempts and any  *)
(* life of a token.  Last ContractValue: any set of property schemas.      *)
(***************************************************************************)
EXTENDS CaptureSetup, ContractValue, TLAPS

(* The setup of p has found or written every setting. *)
SettingsDone(p) == step[p] \in {"publication", "publish", "slot", "return"}

(* The setup of p has committed the publication and the replica identity. *)
PublicationDone(p) == p \in ready \/ step[p] \in {"slot", "return"}

(* wal_level is written before the settings that need it, and what the *)
(* server runs with was written.                                       *)
SettingsInOrder ==
    /\ up
    /\ written.max_wal_senders > 0 => written.wal_level # "minimal"
    /\ effective.wal_level = "logical" => written.wal_level = "logical"
    /\ \A p \in Pipelines :
        /\ step[p] \in {"alter slots", "alter senders"} => written.wal_level = "logical"
        /\ SettingsDone(p) => effective.wal_level = "logical"
        /\ slots[p] # NoSlot => effective.wal_level = "logical"

(* The publication is there before the setup goes on to its slot. *)
PublishedFirst ==
    /\ ~published => publication = {}
    /\ \A p \in Pipelines :
        /\ PublicationDone(p) => published
        /\ slots[p] # NoSlot => published \/ d.foreign[p] # NoSlot

(* Another pipeline's arguments take p's table out of the publication. *)
TakenOut(p) == \E q \in Pipelines : d.replace[q] /\ d.table[q] # d.table[p]

(* Another pipeline's arguments take the whole key away from p's table. *)
KeyTaken(p) == \E q \in Pipelines : d.mode[q] = "default" /\ d.table[q] = d.table[p]

(* What a setup has arranged for its table stays, or was taken away. *)
Arranged ==
    \A p \in Pipelines : PublicationDone(p) =>
        /\ d.table[p] \in publication \/ TakenOut(p)
        /\ d.mode[p] = "full" => identity[d.table[p]] = "full" \/ KeyTaken(p)

IInv ==
    /\ TypeOK
    /\ SettingsInOrder
    /\ PublishedFirst
    /\ Arranged
    /\ StreamNeverBreaks
    /\ ReadyMissesNothing
-----------------------------------------------------------------------------
(* The settings in the order they are written. *)
LEMMA AlterOrderIs ==
    /\ AlterOrder[1] = "alter wal_level"
    /\ AlterOrder[2] = "alter slots"
    /\ AlterOrder[3] = "alter senders"
BY DEF AlterOrder

(* There are three of them. *)
LEMMA ThreeSettings == \A i \in 1..3 : i = 1 \/ i = 2 \/ i = 3
OBVIOUS

(* The next setting written is the first of those lacking, if there is one. *)
LEMMA FirstLackingIs ==
    ASSUME NEW n \in 1..4
    PROVE  \/ FirstLacking(n) = "none" /\ \A i \in n..3 : ~Lacks(AlterOrder[i])
           \/ \E i \in n..3 :
                /\ FirstLacking(n) = AlterOrder[i]
                /\ \A j \in n..3 : j < i => ~Lacks(AlterOrder[j])
<1> DEFINE lacking == {i \in n..3 : Lacks(AlterOrder[i])}
           first == CHOOSE i \in lacking : \A j \in lacking : i <= j
<1>1. FirstLacking(n) = IF lacking = {} THEN "none" ELSE AlterOrder[first]
    BY DEF FirstLacking
<1>2. ASSUME lacking # {}
      PROVE  \E i \in lacking : \A j \in lacking : i <= j
    <2>1. lacking \subseteq {1, 2, 3}
        OBVIOUS
    <2> HIDE DEF lacking
    <2>2. CASE 1 \in lacking
        BY <2>1, <2>2
    <2>3. CASE 1 \notin lacking /\ 2 \in lacking
        BY <2>1, <2>3
    <2>4. CASE 1 \notin lacking /\ 2 \notin lacking
        <3>1. 3 \in lacking
            BY <1>2, <2>1, <2>4
        <3>2. \A j \in lacking : j = 3
            BY <2>1, <2>4
        <3> QED BY <3>1, <3>2
    <2> QED BY <2>2, <2>3, <2>4
<1>3. ASSUME lacking # {}
      PROVE  first \in lacking /\ \A j \in lacking : first <= j
    <2> HIDE DEF lacking
    <2> QED BY <1>2, <1>3, Zenon
<1>4. CASE lacking = {}
    BY <1>1, <1>4
<1>5. CASE lacking # {}
    <2>1. first \in n..3
        BY <1>3, <1>5
    <2>2. FirstLacking(n) = AlterOrder[first]
        BY <1>1, <1>5
    <2>3. \A j \in n..3 : j < first => ~Lacks(AlterOrder[j])
        <3> HIDE DEF first
        <3> QED BY <1>3, <1>5, <2>1
    <2> HIDE DEF first
    <2> QED BY <2>1, <2>2, <2>3
<1> QED BY <1>4, <1>5

(* Unless wal_level is to be written, the server runs with the right one. *)
LEMMA WalLevelIsFirst ==
    /\ FirstLacking(1) \in {"none", "alter wal_level", "alter slots", "alter senders"}
    /\ FirstLacking(1) # "alter wal_level" => effective.wal_level = "logical"
<1>1. CASE FirstLacking(1) = "none" /\ \A i \in 1..3 : ~Lacks(AlterOrder[i])
    <2>1. ~Lacks(AlterOrder[1])
        BY <1>1
    <2> QED BY <1>1, <2>1, AlterOrderIs DEF Lacks
<1>2. ASSUME NEW i \in 1..3, FirstLacking(1) = AlterOrder[i],
             \A j \in 1..3 : j < i => ~Lacks(AlterOrder[j])
      PROVE  /\ FirstLacking(1) \in {"alter wal_level", "alter slots", "alter senders"}
             /\ FirstLacking(1) # "alter wal_level" => effective.wal_level = "logical"
    <2>1. i # 1 => ~Lacks(AlterOrder[1])
        BY <1>2
    <2>2. i = 1 \/ i = 2 \/ i = 3
        BY <1>2
    <2>3. /\ AlterOrder[i] \in {"alter wal_level", "alter slots", "alter senders"}
          /\ i = 1 => AlterOrder[i] = "alter wal_level"
        BY <2>2, AlterOrderIs, Zenon
    <2>4. ~Lacks(AlterOrder[1]) => effective.wal_level = "logical"
        BY AlterOrderIs DEF Lacks
    <2> QED BY <1>2, <2>1, <2>3, <2>4
<1>3. \/ FirstLacking(1) = "none" /\ \A i \in 1..3 : ~Lacks(AlterOrder[i])
      \/ \E i \in 1..3 :
            /\ FirstLacking(1) = AlterOrder[i]
            /\ \A j \in 1..3 : j < i => ~Lacks(AlterOrder[j])
    <2>1. 1 \in 1..4
        OBVIOUS
    <2> QED BY <2>1, FirstLackingIs
<1> QED BY <1>1, <1>2, <1>3

(* After a setting come those that follow it. *)
LEMMA LaterSettings ==
    ASSUME NEW n \in 1..3
    PROVE  FirstLacking(n + 1) \in {"none", "alter slots", "alter senders"}
<1>1. ASSUME NEW i \in (n + 1)..3
      PROVE  AlterOrder[i] \in {"alter slots", "alter senders"}
    <2>1. i = 2 \/ i = 3
        OBVIOUS
    <2> QED BY <2>1, AlterOrderIs, Zenon
<1>2. FirstLacking(n + 1) = "none" \/ \E i \in (n + 1)..3 : FirstLacking(n + 1) = AlterOrder[i]
    <2>1. n + 1 \in 1..4
        OBVIOUS
    <2> QED BY <2>1, FirstLackingIs
<1> QED BY <1>1, <1>2

(* The invariant holds of a server that runs and no setup has touched. *)
LEMMA InitIInv == Init => IInv
<1> SUFFICES ASSUME Init PROVE IInv
    OBVIOUS
<1> USE DEF Init
<1>1. TypeOK
    <2>1. identity \in [{d.table[p] : p \in Pipelines} -> IdentityModes]
        BY DEF IdentityModes
    <2>2. slots \in [Pipelines -> Plugins]
        BY DeploymentsAssumption
    <2>3. step \in [Pipelines -> Steps] /\ saw \in [Pipelines -> BOOLEAN]
        BY DEF Steps
    <2>4. written \in Settings /\ effective \in Settings
        BY DeploymentsAssumption
    <2>5. faults \in 0..MaxFaults
        BY BoundAssumption
    <2> QED BY <2>1, <2>2, <2>3, <2>4, <2>5 DEF TypeOK
<1>2. SettingsInOrder
    BY DeploymentsAssumption DEF SettingsInOrder, SettingsDone, Settings
<1>3. PublishedFirst /\ Arranged
    BY DEF PublishedFirst, Arranged, PublicationDone
<1>4. StreamNeverBreaks /\ ReadyMissesNothing
    BY DEF StreamNeverBreaks, ReadyMissesNothing
<1> QED BY <1>1, <1>2, <1>3, <1>4 DEF IInv

(* What leaves the catalog and the slots alone, and does no more setups    *)
(* with their publication, keeps what is arranged.                         *)
LEMMA ArrangedStays ==
    ASSUME PublishedFirst, Arranged,
           UNCHANGED <<d, publication, published, identity, slots>>,
           \A q \in Pipelines : PublicationDone(q)' => PublicationDone(q)
    PROVE  PublishedFirst' /\ Arranged'
<1>1. PublishedFirst'
    BY DEF PublishedFirst
<1>2. ASSUME NEW q \in Pipelines
      PROVE  TakenOut(q)' = TakenOut(q) /\ KeyTaken(q)' = KeyTaken(q)
    BY DEF TakenOut, KeyTaken
<1>3. Arranged'
    <2> SUFFICES ASSUME NEW q \in Pipelines, PublicationDone(q)'
                 PROVE  /\ d.table[q] \in publication \/ TakenOut(q)
                        /\ d.mode[q] = "full" =>
                              identity[d.table[q]] = "full" \/ KeyTaken(q)
        BY <1>2 DEF Arranged
    <2>1. PublicationDone(q)
        OBVIOUS
    <2> QED BY <2>1 DEF Arranged
<1> QED BY <1>1, <1>3

(* A setup that goes on, or gives up, and changes nothing else. *)
LEMMA StepOnly ==
    ASSUME IInv, NEW p \in Pipelines, NEW s \in Steps, Goto(p, s),
           UNCHANGED <<d, server, catalog, slots, ready, streams>>,
           s \in {"alter slots", "alter senders", "publication", "publish", "slot", "return"} =>
                effective.wal_level = "logical",
           s \in {"slot", "return"} => step[p] \in {"slot", "return"}
    PROVE  /\ step' \in [Pipelines -> Steps]
           /\ SettingsInOrder' /\ PublishedFirst' /\ Arranged'
           /\ StreamNeverBreaks' /\ ReadyMissesNothing'
<1> USE DEF IInv, TypeOK, Goto, server, catalog, streams
<1>1. step' \in [Pipelines -> Steps]
    OBVIOUS
<1>2. SettingsInOrder'
    BY DEF SettingsInOrder, SettingsDone
<1>3. PublishedFirst' /\ Arranged'
    <2>1. \A q \in Pipelines : PublicationDone(q)' => PublicationDone(q)
        BY DEF PublicationDone
    <2> QED BY <2>1, ArrangedStays
<1>4. StreamNeverBreaks' /\ ReadyMissesNothing'
    BY DEF StreamNeverBreaks, ReadyMissesNothing
<1> QED BY <1>1, <1>2, <1>3, <1>4

(* Checking the settings of a server that lacks some, or none. *)
LEMMA CheckSettingsIInv ==
    ASSUME IInv, NEW p \in Pipelines, CheckSettings(p)
    PROVE  IInv'
<1>1. PICK s \in {"publication", "alter wal_level", "alter slots", "alter senders"} :
        Goto(p, s) /\ (s # "alter wal_level" => effective.wal_level = "logical")
    BY WalLevelIsFirst DEF CheckSettings
<1>2. UNCHANGED <<d, server, catalog, slots, saw, ready, streams, faults>>
    BY DEF CheckSettings
<1>3. /\ step' \in [Pipelines -> Steps]
      /\ SettingsInOrder' /\ PublishedFirst' /\ Arranged'
      /\ StreamNeverBreaks' /\ ReadyMissesNothing'
    BY <1>1, <1>2, StepOnly DEF Steps
<1> QED BY <1>2, <1>3 DEF IInv, TypeOK, server, catalog, streams

(* wal_level is written before the settings that need it. *)
LEMMA AlterSystemIInv ==
    ASSUME IInv, NEW p \in Pipelines, AlterSystem(p)
    PROVE  IInv'
<1> USE DEF IInv
<1>1. PICK n \in 1..3 :
        /\ step[p] = AlterOrder[n]
        /\ written' = Write(step[p])
        /\ IF FirstLacking(n + 1) # "none"
           THEN Goto(p, FirstLacking(n + 1)) /\ UNCHANGED told
           ELSE Goto(p, "idle") /\ told' = TRUE
    BY DEF AlterSystem
<1>2. PICK s \in {"idle", "alter slots", "alter senders"} : step' = [step EXCEPT ![p] = s]
    BY <1>1, LaterSettings DEF Goto
<1>3. UNCHANGED <<d, effective, up, publication, published, identity, slots, saw, ready,
                  broken, missed, keyless, faults>>
    BY DEF AlterSystem, catalog, streams
<1>4. step[p] \in {"alter wal_level", "alter slots", "alter senders"}
    BY <1>1, ThreeSettings, AlterOrderIs, Zenon
<1>5. /\ written' \in Settings /\ written'.wal_level = "logical"
      /\ told' \in BOOLEAN
    BY <1>1, <1>4, DesiredAssumption DEF Write, Settings, Levels, TypeOK, SettingsInOrder
<1>6. TypeOK'
    BY <1>2, <1>3, <1>5 DEF TypeOK, Steps
<1>7. SettingsInOrder'
    BY <1>2, <1>3, <1>5 DEF SettingsInOrder, SettingsDone, TypeOK
<1>8. PublishedFirst' /\ Arranged'
    <2>1. \A q \in Pipelines : PublicationDone(q)' => PublicationDone(q)
        BY <1>2, <1>3 DEF PublicationDone, TypeOK
    <2> QED BY <1>3, <2>1, ArrangedStays
<1>9. StreamNeverBreaks' /\ ReadyMissesNothing'
    BY <1>3 DEF StreamNeverBreaks, ReadyMissesNothing
<1> QED BY <1>6, <1>7, <1>8, <1>9

(* Looking for the publication. *)
LEMMA LookForPublicationIInv ==
    ASSUME IInv, NEW p \in Pipelines, LookForPublication(p)
    PROVE  IInv'
<1>1. /\ step[p] = "publication" /\ Goto(p, "publish")
      /\ saw' = [saw EXCEPT ![p] = published]
      /\ UNCHANGED <<d, server, catalog, slots, ready, streams, faults>>
    BY DEF LookForPublication
<1>2. effective.wal_level = "logical"
    BY <1>1 DEF IInv, SettingsInOrder, SettingsDone
<1>3. /\ step' \in [Pipelines -> Steps]
      /\ SettingsInOrder' /\ PublishedFirst' /\ Arranged'
      /\ StreamNeverBreaks' /\ ReadyMissesNothing'
    BY <1>1, <1>2, StepOnly DEF Steps
<1> QED BY <1>1, <1>3 DEF IInv, TypeOK, server, catalog, streams

(* Publishing keeps what others have arranged, unless it is told to replace. *)
LEMMA PublishIInv ==
    ASSUME IInv, NEW p \in Pipelines, Publish(p)
    PROVE  IInv'
<1> USE DEF IInv
<1>1. /\ step[p] = "publish" /\ step' = [step EXCEPT ![p] = "slot"]
      /\ publication' = IF published /\ ~d.replace[p] THEN publication \cup {d.table[p]}
                        ELSE {d.table[p]}
      /\ published' = TRUE
      /\ identity' = [identity EXCEPT ![d.table[p]] = d.mode[p]]
      /\ UNCHANGED <<d, written, effective, up, told, slots, saw, ready,
                     broken, missed, keyless, faults>>
    BY DEF Publish, Goto, server, streams
<1>2. d.mode \in [Pipelines -> IdentityModes] /\ d.replace \in [Pipelines -> BOOLEAN]
    BY DeploymentsAssumption DEF TypeOK
<1>3. TypeOK'
    BY <1>1, <1>2 DEF TypeOK, Steps
<1>4. SettingsInOrder'
    BY <1>1 DEF SettingsInOrder, SettingsDone, TypeOK
<1>5. PublishedFirst'
    BY <1>1 DEF PublishedFirst
<1>6. Arranged'
    <2> SUFFICES ASSUME NEW q \in Pipelines, PublicationDone(q)'
                 PROVE  /\ d.table[q] \in publication' \/ TakenOut(q)
                        /\ d.mode[q] = "full" =>
                              identity'[d.table[q]] = "full" \/ KeyTaken(q)
        BY <1>1 DEF Arranged, TakenOut, KeyTaken
    <2>1. q = p \/ (q # p /\ PublicationDone(q))
        BY <1>1 DEF PublicationDone, TypeOK
    <2>2. d.table[q] \in publication' \/ TakenOut(q)
        BY <1>1, <2>1 DEF PublishedFirst, Arranged, TakenOut
    <2>3. d.mode[q] = "full" => identity'[d.table[q]] = "full" \/ KeyTaken(q)
        BY <1>1, <1>2, <2>1 DEF Arranged, KeyTaken, TypeOK, IdentityModes
    <2> QED BY <2>2, <2>3
<1>7. StreamNeverBreaks' /\ ReadyMissesNothing'
    BY <1>1 DEF StreamNeverBreaks, ReadyMissesNothing
<1> QED BY <1>3, <1>4, <1>5, <1>6, <1>7

(* The slot comes after the publication. *)
LEMMA EnsureSlotIInv ==
    ASSUME IInv, NEW p \in Pipelines, EnsureSlot(p)
    PROVE  IInv'
<1> USE DEF IInv
<1>1. /\ step[p] = "slot" /\ step' = [step EXCEPT ![p] = "return"]
      /\ slots' = [slots EXCEPT ![p] = "pgoutput"] \/ UNCHANGED slots
      /\ UNCHANGED <<d, written, effective, up, told, publication, published, identity,
                     saw, ready, broken, missed, keyless, faults>>
    BY DEF EnsureSlot, Goto, server, catalog, streams
<1>2. TypeOK'
    BY <1>1 DEF TypeOK, Steps, Plugins
<1>3. SettingsInOrder'
    BY <1>1 DEF SettingsInOrder, SettingsDone, TypeOK
<1>4. PublishedFirst' /\ Arranged'
    BY <1>1 DEF PublishedFirst, Arranged, PublicationDone, TakenOut, KeyTaken, TypeOK
<1>5. StreamNeverBreaks' /\ ReadyMissesNothing'
    BY <1>1 DEF StreamNeverBreaks, ReadyMissesNothing
<1> QED BY <1>2, <1>3, <1>4, <1>5

(* The setup returns. *)
LEMMA ReturnIInv ==
    ASSUME IInv, NEW p \in Pipelines, Return(p)
    PROVE  IInv'
<1> USE DEF IInv
<1>1. /\ step[p] = "return" /\ step' = [step EXCEPT ![p] = "idle"]
      /\ ready' = ready \cup {p}
      /\ UNCHANGED <<d, written, effective, up, told, publication, published, identity,
                     slots, saw, broken, missed, keyless, faults>>
    BY DEF Return, Goto, server, catalog, streams
<1>2. TypeOK'
    BY <1>1 DEF TypeOK, Steps
<1>3. SettingsInOrder'
    BY <1>1 DEF SettingsInOrder, SettingsDone, TypeOK
<1>4. PublishedFirst' /\ Arranged'
    BY <1>1 DEF PublishedFirst, Arranged, PublicationDone, TakenOut, KeyTaken, TypeOK
<1>5. StreamNeverBreaks' /\ ReadyMissesNothing'
    BY <1>1 DEF StreamNeverBreaks, ReadyMissesNothing
<1> QED BY <1>2, <1>3, <1>4, <1>5

(* A setup that raises or dies leaves what it committed. *)
LEMMA GivesUpIInv ==
    ASSUME IInv, NEW p \in Pipelines, Raise(p) \/ Fail(p)
    PROVE  IInv'
<1>1. /\ Goto(p, "idle")
      /\ UNCHANGED <<d, server, catalog, slots, saw, ready, streams>>
    BY DEF Raise, Fail
<1>2. faults' \in 0..MaxFaults
    <2>1. \/ faults' = faults
          \/ faults < MaxFaults /\ faults' = faults + 1
        BY DEF Raise, Fail
    <2>2. faults \in 0..MaxFaults
        BY DEF IInv, TypeOK
    <2> QED BY <2>1, <2>2, BoundAssumption
<1>3. /\ step' \in [Pipelines -> Steps]
      /\ SettingsInOrder' /\ PublishedFirst' /\ Arranged'
      /\ StreamNeverBreaks' /\ ReadyMissesNothing'
    BY <1>1, StepOnly DEF Steps
<1> QED BY <1>1, <1>2, <1>3 DEF IInv, TypeOK, server, catalog, streams

(* Whatever has been written, the server starts with it. *)
LEMMA RebootIInv ==
    ASSUME IInv, RestartAsTold \/ RestartAnyhow
    PROVE  IInv'
<1> USE DEF IInv
<1>1. /\ up' = Startable(written)
      /\ effective' = written /\ told' = FALSE
      /\ step' = [p \in Pipelines |-> "idle"]
      /\ UNCHANGED <<d, written, publication, published, identity, slots, saw, ready,
                     broken, missed, keyless>>
    BY DEF RestartAsTold, RestartAnyhow, Reboot, catalog, streams
<1>2. faults' \in 0..MaxFaults
    <2>1. \/ faults' = faults
          \/ faults < MaxFaults /\ faults' = faults + 1
        BY DEF RestartAsTold, RestartAnyhow
    <2>2. faults \in 0..MaxFaults
        BY DEF TypeOK
    <2> QED BY <2>1, <2>2, BoundAssumption
<1>3. Startable(written)
    BY DEF Startable, SettingsInOrder
<1>4. TypeOK'
    BY <1>1, <1>2, <1>3 DEF TypeOK, Steps
<1>5. SettingsInOrder'
    BY <1>1, <1>3 DEF SettingsInOrder, SettingsDone
<1>6. PublishedFirst' /\ Arranged'
    <2>1. \A q \in Pipelines : PublicationDone(q)' => PublicationDone(q)
        BY <1>1 DEF PublicationDone
    <2> QED BY <1>1, <2>1, ArrangedStays
<1>7. StreamNeverBreaks' /\ ReadyMissesNothing'
    BY <1>1 DEF StreamNeverBreaks, ReadyMissesNothing
<1> QED BY <1>4, <1>5, <1>6, <1>7

(* A change finds the slot's publication there, with the table in it and   *)
(* the key it needs.                                                       *)
LEMMA SourceCommitIInv ==
    ASSUME IInv, NEW t \in DOMAIN identity, SourceCommit(t)
    PROVE  IInv'
<1> USE DEF IInv
<1> DEFINE mine == {p \in ready : d.table[p] = t}
<1>1. /\ broken' = IF published THEN broken
                   ELSE broken \cup {p \in Pipelines : slots[p] # NoSlot}
      /\ missed' = IF t \in publication THEN missed ELSE missed \cup mine
      /\ keyless' = keyless \cup {p \in mine : t \in publication
                                    /\ d.mode[p] = "full" /\ identity[t] # "full"}
      /\ UNCHANGED <<d, written, effective, up, told, publication, published, identity,
                     slots, step, saw, ready, faults>>
    BY DEF SourceCommit, server, catalog
<1>2. ready \subseteq Pipelines
    BY DEF TypeOK
<1>3. TypeOK'
    BY <1>1, <1>2 DEF TypeOK
<1>4. SettingsInOrder'
    BY <1>1 DEF SettingsInOrder, SettingsDone
<1>7. PublishedFirst' /\ Arranged'
    <2>1. \A q \in Pipelines : PublicationDone(q)' => PublicationDone(q)
        BY <1>1 DEF PublicationDone
    <2> QED BY <1>1, <2>1, ArrangedStays
<1>5. StreamNeverBreaks'
    BY <1>1 DEF StreamNeverBreaks, PublishedFirst
<1>6. ReadyMissesNothing'
    <2>1. \A p \in mine : /\ t \in publication \/ TakenOut(p)
                          /\ d.mode[p] = "full" => identity[t] = "full" \/ KeyTaken(p)
        BY <1>2 DEF Arranged, PublicationDone
    <2> QED BY <1>1, <2>1 DEF ReadyMissesNothing, TakenOut, KeyTaken
<1> QED BY <1>3, <1>4, <1>5, <1>6, <1>7
-----------------------------------------------------------------------------
(* The invariant is inductive. *)
LEMMA StepIInv == IInv /\ [Next]_vars => IInv'
<1> SUFFICES ASSUME IInv, [Next]_vars PROVE IInv'
    OBVIOUS
<1>1. CASE Next
    BY <1>1, CheckSettingsIInv, AlterSystemIInv, LookForPublicationIInv, PublishIInv,
        EnsureSlotIInv, ReturnIInv, GivesUpIInv, RebootIInv, SourceCommitIInv
    DEF Next, Setup
<1>2. CASE UNCHANGED vars
    <2> USE <1>2 DEF vars, IInv
    <2>1. TypeOK' /\ SettingsInOrder'
        BY DEF TypeOK, SettingsInOrder, SettingsDone
    <2>2. PublishedFirst' /\ Arranged'
        <3>1. \A q \in Pipelines : PublicationDone(q)' => PublicationDone(q)
            BY DEF PublicationDone
        <3> QED BY <3>1, ArrangedStays
    <2>3. StreamNeverBreaks' /\ ReadyMissesNothing'
        BY DEF StreamNeverBreaks, ReadyMissesNothing
    <2> QED BY <2>1, <2>2, <2>3
<1> QED BY <1>1, <1>2

(* The invariant holds in every reachable state. *)
THEOREM SpecIInv == Spec => []IInv
BY InitIInv, StepIInv, PTL DEF Spec

(* Every variable of the server and the setups keeps its type. *)
THEOREM SpecTypeOK == Spec => []TypeOK
<1>1. IInv => TypeOK
    BY DEF IInv
<1> QED BY SpecIInv, <1>1, PTL

(***************************************************************************)
(* The settings on disk always let the server start: wal_level comes first *)
(* in _wal_setting_changes, so no setup, however many run and wherever     *)
(* they die, leaves senders or a slot without the level they need.         *)
(***************************************************************************)
THEOREM SpecServerStartsAgain == Spec => []ServerStartsAgain
<1>1. IInv => ServerStartsAgain
    BY DEF IInv, SettingsInOrder, ServerStartsAgain
<1> QED BY SpecIInv, <1>1, PTL

(***************************************************************************)
(* No slot made by a setup meets a change while its publication does not   *)
(* exist: a slot comes after the committed publication, and a publication  *)
(* once committed is never gone between two transactions (admin.py).       *)
(***************************************************************************)
THEOREM SpecStreamNeverBreaks == Spec => []StreamNeverBreaks
<1>1. IInv => StreamNeverBreaks
    BY DEF IInv
<1> QED BY SpecIInv, <1>1, PTL

(***************************************************************************)
(* A pipeline whose setup has returned misses no change and no key, except *)
(* by another pipeline's replace_existing_publication or replica identity  *)
(* mode.                                                                   *)
(***************************************************************************)
THEOREM SpecReadyMissesNothing == Spec => []ReadyMissesNothing
<1>1. IInv => ReadyMissesNothing
    BY DEF IInv
<1> QED BY SpecIInv, <1>1, PTL
-----------------------------------------------------------------------------
(* While nothing has come of it, the attempt under way is the first, or one *)
(* that max_retries allows after a failure that may pass.                   *)
AsksAgain ==
    /\ max_retries \in Int /\ attempt \in Nat \ {0}
    /\ fetched = "pending" =>
        \/ attempt = 1 /\ answer = "none"
        \/ attempt <= TotalAttempts /\ answer \in MayPass

RegistryInv == AsksAgain /\ RaisesOnlyWhenItMust

(* A token is refused only for its age, and only one that is never renewed *)
(* has any.                                                                *)
LEMMA OnlyAgeIsRefused ==
    /\ "none" \notin Answers
    /\ "unauthorized" \in Answers => auth = "access_token"
<1>1. "unauthorized" \in Answers => TokenAge > TokenLife
    BY DEF Answers, MayPass
<1>2. auth # "access_token" => ~(TokenAge > TokenLife)
    BY BackoffAssumption DEF TokenAge
<1> QED BY <1>1, <1>2 DEF Answers, MayPass

(***************************************************************************)
(* The client never gives up before it has to: not on a failure that may   *)
(* pass while max_retries allows another attempt, not for its token when a *)
(* token_provider would give it another (registry_client.py:187-237).      *)
(***************************************************************************)
THEOREM RegistrySpecRaisesOnlyWhenItMust == RegistrySpec => []RaisesOnlyWhenItMust
<1>1. RegistryInit => RegistryInv
    BY RetriesAssumption DEF RegistryInit, RegistryInv, AsksAgain, RaisesOnlyWhenItMust
<1>2. RegistryInv /\ [Fetch]_registryVars => RegistryInv'
    <2> SUFFICES ASSUME RegistryInv, [Fetch]_registryVars PROVE RegistryInv'
        OBVIOUS
    <2>0. AsksAgain /\ RaisesOnlyWhenItMust
        BY DEF RegistryInv
    <2>1. CASE Retry
        <3>1. attempt' \in Nat \ {0} /\ attempt' <= TotalAttempts' /\ answer' \in MayPass
            BY <2>0, <2>1 DEF Retry, AsksAgain, TotalAttempts
        <3>2. fetched' = "pending" /\ max_retries' = max_retries
            BY <2>1 DEF Retry
        <3> QED BY <2>0, <3>1, <3>2 DEF RegistryInv, AsksAgain, RaisesOnlyWhenItMust, MayPass
    <2>2. CASE GiveUp
        <3>1. /\ attempt' = attempt /\ attempt <= TotalAttempts /\ fetched' = "raised"
              /\ UNCHANGED <<max_retries, auth>> /\ answer' \in Answers
              /\ answer' \in MayPass => attempt = TotalAttempts
            BY <2>2 DEF GiveUp
        <3>2. answer' = "unauthorized" => auth' = "access_token"
            BY <3>1, OnlyAgeIsRefused
        <3>3. ~(attempt > max_retries + 1)
            BY <2>0, <3>1 DEF AsksAgain, TotalAttempts
        <3> QED BY <2>0, <3>1, <3>2, <3>3
            DEF RegistryInv, AsksAgain, RaisesOnlyWhenItMust, TotalAttempts, MayPass
    <2>3. CASE NeverAsk
        <3>1. /\ UNCHANGED <<max_retries, auth, attempt, answer>> /\ fetched' = "raised"
              /\ fetched = "pending" /\ attempt > max_retries + 1
            BY <2>3 DEF NeverAsk, TotalAttempts
        <3>2. attempt = 1 /\ answer = "none" /\ max_retries < 0
            BY <2>0, <3>1 DEF AsksAgain, TotalAttempts
        <3> QED BY <2>0, <3>1, <3>2 DEF RegistryInv, AsksAgain, RaisesOnlyWhenItMust, MayPass
    <2>4. CASE Receive
        BY <2>0, <2>4 DEF Receive, RegistryInv, AsksAgain, RaisesOnlyWhenItMust
    <2>5. CASE UNCHANGED registryVars
        BY <2>0, <2>5
        DEF registryVars, RegistryInv, AsksAgain, RaisesOnlyWhenItMust, TotalAttempts, MayPass
    <2> QED BY <2>1, <2>2, <2>3, <2>4, <2>5 DEF Fetch
<1>3. RegistryInv => RaisesOnlyWhenItMust
    BY DEF RegistryInv
<1> QED BY <1>1, <1>2, <1>3, PTL DEF RegistrySpec

(***************************************************************************)
(* A field's journeys leave the client alone, so all that holds of         *)
(* RegistrySpec holds of ContractSpec.                                     *)
(***************************************************************************)
THEOREM ContractSpecFetches == ContractSpec => RegistrySpec
<1>1. ContractInit => RegistryInit
    BY DEF ContractInit
<1>2. [ContractNext]_contractVars => [Fetch]_registryVars
    BY DEF ContractNext, contractVars, Journey, Land, Quarantine, StopExtract, Load
<1> QED BY <1>1, <1>2, PTL DEF ContractSpec, RegistrySpec
-----------------------------------------------------------------------------
(* What coerce_contract_value makes of a journey's reading. *)
Coerced(j) == Coerce(Read(j), FieldType(schema))

(* A contract type goes with the columns of its class, or with jsonb. *)
LEMMA TypesOfColumns ==
    ASSUME NEW s \in Schemas, NEW c \in Columns, Describes(s, c)
    PROVE  /\ c \in {"int4", "int8"} => FieldType(s) = "integer"
           /\ c \in {"numeric", "float8"} => FieldType(s) = "decimal"
           /\ c = "boolean" => FieldType(s) = "boolean"
           /\ c = "text" => FieldType(s) = "string"
           /\ c = "uuid" => FieldType(s) = "uuid"
           /\ c \in {"timestamptz", "timestamp"} => FieldType(s) = "timestamp"
           /\ c = "date" => FieldType(s) = "date"
           /\ c = "time" => FieldType(s) = "time"
           /\ c = "jsonb" => FieldType(s) \in {"json", "array", "untyped"}
           /\ c \in {"int4", "int8", "numeric", "float8", "boolean", "text", "uuid",
                     "timestamptz", "timestamp", "date", "time", "jsonb"}
<1>1. c \in {"int4", "int8", "numeric", "float8", "boolean", "text", "uuid",
             "timestamptz", "timestamp", "date", "time", "jsonb"}
    BY DEF Columns, ValuesOf
<1>2. /\ c \in {"int4", "int8"} => ColumnClass(c) = "integer"
      /\ c \in {"numeric", "float8"} => ColumnClass(c) = "decimal"
      /\ c = "boolean" => ColumnClass(c) = "boolean"
      /\ c = "text" => ColumnClass(c) = "string"
      /\ c = "uuid" => ColumnClass(c) = "uuid"
      /\ c \in {"timestamptz", "timestamp"} => ColumnClass(c) = "timestamp"
      /\ c = "date" => ColumnClass(c) = "date"
      /\ c = "time" => ColumnClass(c) = "time"
      /\ c = "jsonb" => ColumnClass(c) = "json"
    BY <1>1 DEF ColumnClass
<1> QED BY <1>1, <1>2 DEF Describes

(* coerce_contract_value keeps what a value denotes, and gives the type its *)
(* one class, or takes the value as it is.                                  *)
LEMMA CoercedAs ==
    ASSUME NEW x, NEW t \in DOMAIN Taken \cup {"untyped"}, Coerce(x, t) # Invalid
    PROVE  /\ Coerce(x, t).v = x.v
           /\ Coerce(x, t) = NoValue \/ t = "untyped" \/ Coerce(x, t).py \in Taken[t]
<1>1. CASE x = NoValue \/ t = "untyped" \/ x.py \in Taken[t]
    BY <1>1 DEF Coerce
<1>2. CASE ~(x = NoValue \/ t = "untyped" \/ x.py \in Taken[t])
    <2>1. Coerce(x, t) = Converted(t, x)
        BY <1>2 DEF Coerce
    <2>2. t \in {"array", "json", "string", "uuid", "integer", "decimal", "boolean",
                 "timestamp", "date", "time"}
        BY <1>2 DEF Taken
    <2> QED BY <1>2, <2>1, <2>2 DEF Converted, Taken, Python, Str, Invalid
<1> QED BY <1>1, <1>2

(* A date or a time written in the ISO form is read as what it was. *)
LEMMA IsoTextRead ==
    ASSUME NEW p \in DOMAIN IsoLiteral, NEW v, NEW t \in {"timestamp", "date", "time"},
           p \in Taken[t]
    PROVE  Coerce(Str(IsoLiteral[p], v), t) = Python(p, v)
<1>1. \/ t = "timestamp" /\ p = "datetime" /\ IsoLiteral[p] = "timestamptz"
      \/ t = "timestamp" /\ p = "naive_datetime" /\ IsoLiteral[p] = "timestamp"
      \/ t = "date" /\ p = "date" /\ IsoLiteral[p] = "date"
      \/ t = "time" /\ p = "time" /\ IsoLiteral[p] = "time"
    BY DEF IsoLiteral, Taken
<1> DEFINE w == Str(IsoLiteral[p], v)
<1>2. w.py = "str" /\ w.lit = IsoLiteral[p] /\ w.v = v /\ w # NoValue
    BY DEF Str, NoValue, Python
<1>3. Coerce(w, t) = Converted(t, w)
    BY <1>1, <1>2 DEF Coerce, Taken
<1>4. Converted(t, w) = Python(p, v)
    BY <1>1, <1>2 DEF Converted
<1> QED BY <1>3, <1>4

(* A coerced value comes back from the artifact as it was. *)
LEMMA RoundTrip ==
    ASSUME NEW x, NEW t \in DOMAIN Taken \cup {"untyped"}, Coerce(x, t) # Invalid,
           t = "untyped" => x.py # "Decimal" /\ x.py \notin DOMAIN IsoLiteral
    PROVE  LET y == Coerce(x, t)
               z == Coerce(ToJson(y), t)
           IN  z # Invalid /\ z.v = y.v /\ z.py = y.py
<1> DEFINE y == Coerce(x, t)
           z == Coerce(ToJson(y), t)
<1>1. y = NoValue \/ t = "untyped" \/ y.py \in Taken[t]
    BY CoercedAs
<1>2. t \in {"array", "json", "string", "uuid", "integer", "decimal", "boolean",
             "timestamp", "date", "time", "untyped"}
    BY DEF Taken
<1>3. DOMAIN IsoLiteral = {"datetime", "naive_datetime", "date", "time"}
    BY DEF IsoLiteral
<1>4. CASE y = NoValue \/ t = "untyped"
    <2>1. y.py # "Decimal" /\ y.py \notin DOMAIN IsoLiteral
        BY <1>3, <1>4 DEF Coerce, NoValue, Python
    <2>2. ToJson(y) = y
        BY <2>1 DEF ToJson, Prepared
    <2>3. z = y
        BY <1>4, <2>2 DEF Coerce
    <2> QED BY <2>3
<1>5. CASE ~(y = NoValue \/ t = "untyped") /\ t \in {"decimal", "timestamp", "date", "time"}
    <2>1. CASE t = "decimal"
        <3>1. y.py = "Decimal"
            BY <1>1, <1>5, <2>1 DEF Taken
        <3>2. ToJson(y) = Str("number", y.v)
            BY <3>1 DEF ToJson
        <3>3. z = Python("Decimal", y.v)
            BY <2>1, <3>2 DEF Coerce, Converted, Taken, Str, NoValue, Python
        <3> QED BY <3>1, <3>3 DEF Python, Invalid
    <2>2. CASE t # "decimal"
        <3>1. y.py \in DOMAIN IsoLiteral /\ y.py # "Decimal"
            BY <1>1, <1>3, <1>5, <2>2 DEF Taken
        <3>2. ToJson(y) = Str(IsoLiteral[y.py], y.v)
            BY <3>1 DEF ToJson, Prepared
        <3>3. z = Python(y.py, y.v)
            BY <1>1, <1>5, <2>2, <3>1, <3>2, IsoTextRead
        <3> QED BY <1>3, <3>1, <3>3 DEF Python, Invalid
    <2> QED BY <2>1, <2>2
<1>6. CASE ~(y = NoValue \/ t = "untyped") /\ t \notin {"decimal", "timestamp", "date", "time"}
    <2>1. y.py # "Decimal" /\ y.py \notin DOMAIN IsoLiteral
        BY <1>1, <1>2, <1>3, <1>6 DEF Taken
    <2>2. ToJson(y) = y
        BY <2>1 DEF ToJson, Prepared
    <2>3. z = y
        BY <1>1, <1>6, <2>2 DEF Coerce
    <2> QED BY <2>3
<1> QED BY <1>4, <1>5, <1>6

FieldTypes == DOMAIN Taken \cup {"untyped"}

(* The field's type is one coerce_contract_value knows; what is read for a *)
(* field without one is text, an object or an array.                       *)
Field ==
    /\ schema \in Schemas /\ column \in Columns /\ Describes(schema, column)
    /\ value \in ValuesOf[column] \cup {Null}

LEMMA TypeOfField ==
    ASSUME Field
    PROVE  FieldType(schema) \in FieldTypes
<1> QED BY TypesOfColumns DEF Field, FieldTypes, Taken

LEMMA UntypedReading ==
    ASSUME Field, NEW j \in Journeys, FieldType(schema) = "untyped"
    PROVE  column = "jsonb" /\ Read(j).py # "Decimal" /\ Read(j).py \notin DOMAIN IsoLiteral
<1>1. column = "jsonb"
    BY TypesOfColumns DEF Field
<1>2. Read(j).py \in {"None", "dict", "list", "str"}
    BY <1>1 DEF Read, ByPsycopg, ByJsonb, ByPgOutput, JsonOf, NoValue, Python, Str
<1> QED BY <1>1, <1>2 DEF IsoLiteral

(* A reading wider than four bytes is an int8 column's. *)
LEMMA WideReading ==
    ASSUME Field, NEW j \in Journeys, FieldType(schema) = "integer", Read(j).v = "wide"
    PROVE  column = "int8" /\ value = "wide"
<1>1. column \in {"int4", "int8"}
    BY TypesOfColumns DEF Field
<1>2. Read(j).v = value
    BY <1>1 DEF Read, ByPsycopg, ByJsonb, ByPgOutput, NoValue, Python, Str
<1>3. value # Null
    BY <1>2 DEF Null
<1> QED BY <1>1, <1>2, <1>3 DEF Field, ValuesOf

Phases == {"source", "landed", "quarantined", "stopped", "loaded", "refused"}

(* Where a journey is says what was made of its reading on the way. *)
Travelled(j) ==
    LET x == Coerced(j) IN
        /\ phase[j] \in {"landed", "loaded", "refused"} =>
            /\ ~Raises(j, x) /\ Accepts(j, x)
            /\ landed[j] = ToJson(x) /\ hashed[j] = x.v
        /\ phase[j] = "quarantined" => ~Raises(j, x) /\ ~Accepts(j, x)
        /\ phase[j] \in {"loaded", "refused"} =>
            /\ loaded[j] = Coerce(landed[j], FieldType(schema))
            /\ phase[j] = "refused" => ~(loaded[j] # Invalid /\ ColumnTakes(schema, loaded[j]))

ContractInv ==
    /\ Field
    /\ phase \in [Journeys -> Phases]
    /\ DOMAIN landed = Journeys /\ DOMAIN hashed = Journeys /\ DOMAIN loaded = Journeys
    /\ \A j \in Journeys : Travelled(j)

(* The field, its column and its value stay as they are. *)
LEMMA FieldStays ==
    ASSUME Field, UNCHANGED <<column, value, schema>>, NEW j
    PROVE  /\ Field' /\ Coerced(j)' = Coerced(j)
           /\ \A x : Raises(j, x)' <=> Raises(j, x)
           /\ \A x : Accepts(j, x)' <=> Accepts(j, x)
           /\ \A x : ColumnTakes(schema, x)' <=> ColumnTakes(schema, x)
<1>1. Field'
    BY DEF Field, Describes, FieldType, ColumnClass
<1>2. Coerced(j)' = Coerced(j)
    BY DEF Coerced, Read
<1>3. \A x : Raises(j, x)' <=> Raises(j, x)
    BY DEF Raises, Normal
<1>4. \A x : Accepts(j, x)' <=> Accepts(j, x)
    BY DEF Accepts, Normal
<1>5. \A x : ColumnTakes(schema, x)' <=> ColumnTakes(schema, x)
    BY DEF ColumnTakes
<1> QED BY <1>1, <1>2, <1>3, <1>4, <1>5

LEMMA ContractInitInv == ContractInit => ContractInv
<1> SUFFICES ASSUME ContractInit PROVE ContractInv
    OBVIOUS
<1>1. Field
    BY DEF ContractInit, Field
<1>2. /\ phase \in [Journeys -> Phases] /\ \A j \in Journeys : phase[j] = "source"
      /\ DOMAIN landed = Journeys /\ DOMAIN hashed = Journeys /\ DOMAIN loaded = Journeys
    BY DEF ContractInit, Phases
<1>3. \A j \in Journeys : Travelled(j)
    BY <1>2 DEF Travelled
<1> QED BY <1>1, <1>2, <1>3 DEF ContractInv

LEMMA ContractNextInv == ContractInv /\ [ContractNext]_contractVars => ContractInv'
<1> SUFFICES ASSUME ContractInv, [ContractNext]_contractVars PROVE ContractInv'
    OBVIOUS
<1>0. /\ Field /\ phase \in [Journeys -> Phases]
      /\ DOMAIN landed = Journeys /\ DOMAIN hashed = Journeys /\ DOMAIN loaded = Journeys
      /\ \A j \in Journeys : Travelled(j)
    BY DEF ContractInv
<1>1. ASSUME UNCHANGED valueVars PROVE ContractInv'
    <2>1. UNCHANGED <<column, value, schema, phase, landed, hashed, loaded>>
        BY <1>1 DEF valueVars
    <2>2. Field'
        BY <1>0, <2>1, FieldStays
    <2>3. ASSUME NEW k \in Journeys PROVE Travelled(k)'
        <3>1. Travelled(k)
            BY <1>0
        <3>2. /\ Coerced(k)' = Coerced(k)
              /\ \A x : Raises(k, x)' <=> Raises(k, x)
              /\ \A x : Accepts(k, x)' <=> Accepts(k, x)
            BY <1>0, <2>1, FieldStays
        <3> QED BY <2>1, <3>1, <3>2 DEF Travelled, ColumnTakes
    <2> QED BY <1>0, <2>1, <2>2, <2>3 DEF ContractInv
<1>2. ASSUME NEW j \in Running, Journey(j) PROVE ContractInv'
    <2>0. j \in Journeys
        BY DEF Running, Journeys
    <2>1. UNCHANGED <<column, value, schema>>
        BY <1>2 DEF Journey, Land, Quarantine, StopExtract, Load
    <2>2. Field'
        BY <1>0, <2>1, FieldStays
    <2>3. ASSUME NEW k \in Journeys
          PROVE  /\ Coerced(k)' = Coerced(k)
                 /\ \A x : Raises(k, x)' <=> Raises(k, x)
                 /\ \A x : Accepts(k, x)' <=> Accepts(k, x)
        BY <1>0, <2>1, FieldStays
    <2>4. /\ phase' \in [Journeys -> Phases]
          /\ DOMAIN landed' = Journeys /\ DOMAIN hashed' = Journeys /\ DOMAIN loaded' = Journeys
          /\ \A k \in Journeys \ {j} : /\ phase'[k] = phase[k] /\ landed'[k] = landed[k]
                                       /\ hashed'[k] = hashed[k] /\ loaded'[k] = loaded[k]
        BY <1>0, <1>2, <2>0 DEF Journey, Land, Quarantine, StopExtract, Load, Phases
    <2>5. Travelled(j)'
        <3> DEFINE x == Coerced(j)
        <3>1. CASE Land(j)
            <4>1. /\ phase'[j] = "landed" /\ landed'[j] = ToJson(x) /\ hashed'[j] = x.v
                  /\ ~Raises(j, x) /\ Accepts(j, x)
                BY <1>0, <2>0, <3>1 DEF Land, Coerced
            <4> QED BY <2>0, <2>3, <4>1 DEF Travelled
        <3>2. CASE Quarantine(j)
            <4>1. phase'[j] = "quarantined" /\ ~Raises(j, x) /\ ~Accepts(j, x)
                BY <1>0, <2>0, <3>2 DEF Quarantine, Coerced
            <4> QED BY <2>0, <2>3, <4>1 DEF Travelled
        <3>3. CASE StopExtract(j)
            <4>1. phase'[j] = "stopped"
                BY <1>0, <2>0, <3>3 DEF StopExtract
            <4> QED BY <4>1 DEF Travelled
        <3>4. CASE Load(j)
            <4>1. /\ phase[j] = "landed" /\ UNCHANGED <<landed, hashed>>
                  /\ loaded'[j] = Coerce(landed[j], FieldType(schema))
                  /\ phase'[j] = IF loaded'[j] # Invalid /\ ColumnTakes(schema, loaded'[j])
                                 THEN "loaded" ELSE "refused"
                BY <1>0, <2>0, <3>4 DEF Load
            <4>2. Travelled(j)
                BY <1>0, <2>0
            <4>3. FieldType(schema)' = FieldType(schema)
                BY <2>1
            <4> QED BY <2>0, <2>1, <2>3, <4>1, <4>2, <4>3 DEF Travelled
        <3> QED BY <1>2, <3>1, <3>2, <3>3, <3>4 DEF Journey
    <2>6. ASSUME NEW k \in Journeys \ {j} PROVE Travelled(k)'
        <3>1. Travelled(k)
            BY <1>0
        <3> QED BY <2>1, <2>3, <2>4, <3>1 DEF Travelled
    <2> QED BY <2>2, <2>4, <2>5, <2>6 DEF ContractInv
<1>3. CASE UNCHANGED contractVars
    BY <1>1, <1>3 DEF contractVars
<1> QED BY <1>1, <1>2, <1>3 DEF ContractNext

(* What is loaded is what was coerced when the row was read. *)
LEMMA LoadedAsCoerced ==
    ASSUME ContractInv, NEW j \in Journeys, phase[j] \in {"loaded", "refused"}
    PROVE  /\ Coerced(j) # Invalid /\ loaded[j] # Invalid
           /\ loaded[j].v = Coerced(j).v /\ loaded[j].py = Coerced(j).py
           /\ Coerced(j).v = Read(j).v /\ hashed[j] = Coerced(j).v
<1>1. Field /\ Travelled(j)
    BY DEF ContractInv
<1>2. /\ Accepts(j, Coerced(j)) /\ hashed[j] = Coerced(j).v
      /\ loaded[j] = Coerce(ToJson(Coerced(j)), FieldType(schema))
    BY <1>1 DEF Travelled
<1>3. Coerced(j) # Invalid
    BY <1>2 DEF Accepts, Normal
<1>4. FieldType(schema) \in DOMAIN Taken \cup {"untyped"}
    BY <1>1, TypeOfField DEF FieldTypes
<1>5. FieldType(schema) = "untyped" => Read(j).py # "Decimal" /\ Read(j).py \notin DOMAIN IsoLiteral
    BY <1>1, UntypedReading
<1>6. Coerced(j).v = Read(j).v
    BY <1>3, <1>4, CoercedAs DEF Coerced
<1>7. loaded[j] # Invalid /\ loaded[j].v = Coerced(j).v /\ loaded[j].py = Coerced(j).py
    BY <1>2, <1>3, <1>4, <1>5, RoundTrip DEF Coerced
<1> QED BY <1>2, <1>3, <1>6, <1>7

(***************************************************************************)
(* For every property schema: what normalize_contract_row accepts and      *)
(* build_contract_row_payload writes reaches the curated table with the    *)
(* meaning its row_hash was calculated from, or is a wide integer.         *)
(***************************************************************************)
THEOREM ContractSpecAcceptedIsLoadedAsHashed == ContractSpec => []AcceptedIsLoadedAsHashed
<1>1. ASSUME ContractInv PROVE AcceptedIsLoadedAsHashed
    <2> SUFFICES ASSUME NEW j \in Journeys
                 PROVE  /\ phase[j] = "loaded" => loaded[j].v = hashed[j]
                        /\ phase[j] = "refused" => column = "int8" /\ value = "wide"
        BY DEF AcceptedIsLoadedAsHashed
    <2>1. phase[j] = "loaded" => loaded[j].v = hashed[j]
        BY <1>1, LoadedAsCoerced
    <2>2. ASSUME phase[j] = "refused" PROVE column = "int8" /\ value = "wide"
        <3>1. loaded[j] # Invalid /\ loaded[j].v = Read(j).v
            BY <1>1, <2>2, LoadedAsCoerced
        <3>2. Field /\ ~ColumnTakes(schema, loaded[j])
            BY <1>1, <2>2, <3>1 DEF ContractInv, Travelled
        <3>3. schema.type = "integer" /\ Read(j).v = "wide"
            BY <3>1, <3>2 DEF ColumnTakes
        <3>4. FieldType(schema) = "integer"
            BY <3>3 DEF FieldType
        <3> QED BY <3>2, <3>3, <3>4, WideReading
    <2> QED BY <2>1, <2>2
<1> QED BY <1>1, ContractInitInv, ContractNextInv, PTL DEF ContractSpec

(* The digits the audit table's jsonb leaves of a number. *)
AuditDigits(j) ==
    IF j \in {"audit", "audit delete"} /\ value # "NaN" THEN FloatOf(value) ELSE value

(* What a reading is coerced to, column by column. *)
LEMMA CoercedNull ==
    ASSUME NEW j, value = Null
    PROVE  Coerced(j) = NoValue
BY DEF Coerced, Coerce, Read

LEMMA CoercedNumber ==
    ASSUME Field, value # Null, NEW j \in Journeys
    PROVE  /\ column \in {"int4", "int8"} => Coerced(j) = Python("int", value)
           /\ column \in {"numeric", "float8"} => Coerced(j) = Python("Decimal", AuditDigits(j))
<1>1. CASE column \in {"int4", "int8"}
    <2>1. FieldType(schema) = "integer"
        BY <1>1, TypesOfColumns DEF Field
    <2>0. LiteralOf[column] = "number" /\ ClassOf[column] = "int"
        <3>1. /\ LiteralOf["int4"] = "number" /\ LiteralOf["int8"] = "number"
              /\ ClassOf["int4"] = "int" /\ ClassOf["int8"] = "int"
            BY DEF LiteralOf, ClassOf
        <3> QED BY <1>1, <3>1
    <2>2. Read(j) = Python("int", value) \/ Read(j) = Str("number", value)
        BY <1>1, <2>0 DEF Read, ByPsycopg, ByJsonb, ByPgOutput
    <2>3. Coerce(Python("int", value), "integer") = Python("int", value)
        BY DEF Coerce, Taken, Python
    <2>4. Coerce(Str("number", value), "integer") = Python("int", value)
        BY DEF Coerce, Converted, Taken, Python, Str, NoValue
    <2> QED BY <1>1, <2>1, <2>2, <2>3, <2>4 DEF Coerced
<1>2. CASE column \in {"numeric", "float8"}
    <2>1. FieldType(schema) = "decimal"
        BY <1>2, TypesOfColumns DEF Field
    <2> DEFINE v == AuditDigits(j)
    <2>0. LiteralOf[column] = "number"
        <3>1. LiteralOf["numeric"] = "number" /\ LiteralOf["float8"] = "number"
            BY DEF LiteralOf
        <3> QED BY <1>2, <3>1
    <2>2. Read(j) \in {Python("Decimal", v), Python("float", v), Str("number", v)}
        <3>1. CASE j = "snapshot"
            BY <1>2, <3>1 DEF Read, ByPsycopg, ClassOf, AuditDigits
        <3>2. CASE j \in {"audit", "audit delete"}
            <4>1. Read(j) = IF value # "NaN" THEN Python("float", FloatOf(value))
                            ELSE Str("number", value)
                BY <1>2, <2>0, <3>2 DEF Read, ByJsonb
            <4> QED BY <3>2, <4>1 DEF AuditDigits
        <3>3. CASE j \in {"cdc", "cdc delete"}
            BY <1>2, <2>0, <3>3 DEF Read, ByPgOutput, AuditDigits
        <3> QED BY <3>1, <3>2, <3>3 DEF Journeys, Rows, Deletes
    <2>3. Coerce(Python("Decimal", v), "decimal") = Python("Decimal", v)
        BY DEF Coerce, Taken, Python
    <2>4. Coerce(Python("float", v), "decimal") = Python("Decimal", v)
        BY DEF Coerce, Converted, Taken, Python, NoValue
    <2>5. Coerce(Str("number", v), "decimal") = Python("Decimal", v)
        BY DEF Coerce, Converted, Taken, Python, Str, NoValue
    <2> QED BY <1>2, <2>1, <2>2, <2>3, <2>4, <2>5 DEF Coerced
<1> QED BY <1>1, <1>2

LEMMA CoercedTime ==
    ASSUME Field, value # Null, NEW j \in Journeys
    PROVE  /\ column = "timestamptz" => Coerced(j) = Python("datetime", value)
           /\ column = "timestamp" => Coerced(j) = Python("naive_datetime", value)
           /\ column \in {"date", "time"} => Coerced(j) = Python(column, value)
<1>1. ASSUME NEW t \in {"timestamp", "date", "time"}, NEW p \in Taken[t] \cap DOMAIN IsoLiteral,
             FieldType(schema) = t,
             Read(j) = Python(p, value) \/ Read(j) = Str(IsoLiteral[p], value)
      PROVE  Coerced(j) = Python(p, value)
    <2>1. Coerce(Str(IsoLiteral[p], value), t) = Python(p, value)
        BY IsoTextRead
    <2>2. Coerce(Python(p, value), t) = Python(p, value)
        BY DEF Coerce, Python
    <2> QED BY <1>1, <2>1, <2>2 DEF Coerced
<1>2. /\ IsoLiteral["datetime"] = "timestamptz" /\ IsoLiteral["naive_datetime"] = "timestamp"
      /\ IsoLiteral["date"] = "date" /\ IsoLiteral["time"] = "time"
      /\ {"datetime", "naive_datetime"} \subseteq Taken["timestamp"] \cap DOMAIN IsoLiteral
      /\ "date" \in Taken["date"] \cap DOMAIN IsoLiteral
      /\ "time" \in Taken["time"] \cap DOMAIN IsoLiteral
    BY DEF IsoLiteral, Taken
<1>3. CASE column = "timestamptz"
    <2>1. Read(j) = Python("datetime", value) \/ Read(j) = Str("timestamptz", value)
        BY <1>3 DEF Read, ByPsycopg, ByJsonb, ByPgOutput, ClassOf, LiteralOf
    <2> QED BY <1>1, <1>2, <1>3, <2>1, TypesOfColumns DEF Field
<1>4. CASE column = "timestamp"
    <2>1. Read(j) = Python("naive_datetime", value) \/ Read(j) = Str("timestamp", value)
        BY <1>4 DEF Read, ByPsycopg, ByJsonb, ByPgOutput, ClassOf, LiteralOf
    <2> QED BY <1>1, <1>2, <1>4, <2>1, TypesOfColumns DEF Field
<1>5. CASE column \in {"date", "time"}
    <2>0. ClassOf[column] = column /\ LiteralOf[column] = column
        <3>1. /\ ClassOf["date"] = "date" /\ LiteralOf["date"] = "date"
              /\ ClassOf["time"] = "time" /\ LiteralOf["time"] = "time"
            BY DEF ClassOf, LiteralOf
        <3> QED BY <1>5, <3>1
    <2>1. Read(j) = Python(column, value) \/ Read(j) = Str(column, value)
        BY <1>5, <2>0 DEF Read, ByPsycopg, ByJsonb, ByPgOutput
    <2> QED BY <1>1, <1>2, <1>5, <2>1, TypesOfColumns DEF Field
<1> QED BY <1>3, <1>4, <1>5

LEMMA CoercedOther ==
    ASSUME Field, value # Null, NEW j \in Journeys
    PROVE  /\ column = "boolean" =>
                Coerced(j) = IF TextOnly(j) THEN Invalid ELSE Python("bool", value)
           /\ column = "text" => Coerced(j) = Str("text", value)
           /\ column = "uuid" => Coerced(j) = Str("uuid", value)
           /\ column = "jsonb" =>
                Coerced(j) = Coerce(IF TextOnly(j) THEN Str("json", value) ELSE JsonOf(value),
                                    FieldType(schema))
<1>1. CASE column = "boolean"
    <2>1. Read(j) = IF TextOnly(j) THEN Str("t or f", value) ELSE Python("bool", value)
        BY <1>1 DEF Read, ByPsycopg, ByJsonb, ByPgOutput, ClassOf, LiteralOf, TextOnly,
                    Journeys, Rows, Deletes
    <2>2. FieldType(schema) = "boolean"
        BY <1>1, TypesOfColumns DEF Field
    <2>3. Coerce(Str("t or f", value), "boolean") = Invalid
        BY DEF Coerce, Converted, Taken, Str, NoValue, Python
    <2>4. Coerce(Python("bool", value), "boolean") = Python("bool", value)
        BY DEF Coerce, Taken, Python
    <2> QED BY <1>1, <2>1, <2>2, <2>3, <2>4 DEF Coerced
<1>2. CASE column = "text"
    <2>1. Read(j) = Str("text", value)
        BY <1>2 DEF Read, ByPsycopg, ByJsonb, ByPgOutput, LiteralOf
    <2> QED BY <1>2, <2>1, TypesOfColumns DEF Field, Coerced, Coerce, Taken, Str
<1>3. CASE column = "uuid"
    <2>1. Read(j) = Python("UUID", value) \/ Read(j) = Str("uuid", value)
        BY <1>3 DEF Read, ByPsycopg, ByJsonb, ByPgOutput, ClassOf, LiteralOf
    <2>2. Coerce(Python("UUID", value), "uuid") = Str("uuid", value)
        BY DEF Coerce, Converted, Taken, Python, NoValue
    <2>3. Coerce(Str("uuid", value), "uuid") = Str("uuid", value)
        BY DEF Coerce, Taken, Str
    <2> QED BY <1>3, <2>1, <2>2, <2>3, TypesOfColumns DEF Field, Coerced
<1>4. CASE column = "jsonb"
    <2>1. Read(j) = IF TextOnly(j) THEN Str("json", value) ELSE JsonOf(value)
        BY <1>4 DEF Read, ByPsycopg, ByJsonb, ByPgOutput, LiteralOf, TextOnly,
                    Journeys, Rows, Deletes
    <2> QED BY <1>4, <2>1 DEF Coerced
<1> QED BY <1>1, <1>2, <1>3, <1>4

(* The same but for the digits a number is written with. *)
Alike(x, y) ==
    /\ x.py = y.py /\ x.lit = y.lit
    /\ Normalized(x.v) = Normalized(y.v) /\ (x.v = "NaN" <=> y.v = "NaN")
    /\ (x = Invalid <=> y = Invalid) /\ (x = NoValue <=> y = NoValue)

(* But for lost digits and for text, the strategies read a value alike. *)
LEMMA ReadAlike ==
    ASSUME Field, NEW i \in Journeys, NEW j \in Journeys,
           Rounds(i) <=> Rounds(j), TextOnly(i) <=> TextOnly(j)
    PROVE  Alike(Coerced(i), Coerced(j))
<1>1. CASE Coerced(i) = Coerced(j)
    BY <1>1 DEF Alike
<1>2. CASE value # Null /\ column \in {"numeric", "float8"}
    <2> DEFINE m == AuditDigits(i)
               n == AuditDigits(j)
    <2>1. Coerced(i) = Python("Decimal", m) /\ Coerced(j) = Python("Decimal", n)
        BY <1>2, CoercedNumber
    <2>2. value \in {"n", "n.0", "long", "NaN"}
        BY <1>2 DEF Field, ValuesOf
    <2>3. Normalized(m) = Normalized(n) /\ (m = "NaN" <=> n = "NaN")
        BY <2>2 DEF AuditDigits, FloatOf, Normalized, Rounds
    <2> QED BY <2>1, <2>3 DEF Alike, Python, Invalid, NoValue
<1>3. CASE value = Null \/ column \notin {"numeric", "float8"}
    <2>1. CASE value = Null
        BY <1>1, <2>1, CoercedNull
    <2>2. CASE value # Null
        <3>1. column \in {"int4", "int8", "boolean", "text", "uuid", "timestamptz", "timestamp",
                          "date", "time", "jsonb"}
            BY <1>3, <2>2, TypesOfColumns DEF Field
        <3>2. Coerced(i) = Coerced(j)
            BY <2>2, <3>1, CoercedNumber, CoercedTime, CoercedOther
        <3> QED BY <1>1, <3>2
    <2> QED BY <2>1, <2>2
<1> QED BY <1>2, <1>3

(* What is alike is accepted alike. *)
LEMMA AcceptedAlike ==
    ASSUME Field, NEW i \in Rows, NEW j \in Journeys, NEW x, NEW y, Alike(x, y), Accepts(i, x)
    PROVE  Accepts(j, y)
<1>1. Normal(y)
    BY DEF Accepts, Normal, Alike
<1>2. FitsSchema(schema, Prepared(x))
    BY DEF Accepts
<1>3. Alike(Prepared(x), Prepared(y))
    BY DEF Alike, Prepared, Str, Invalid, NoValue, Python
<1>4. /\ Prepared(x).py = Prepared(y).py /\ Prepared(x).lit = Prepared(y).lit
      /\ Normalized(Prepared(x).v) = Normalized(Prepared(y).v)
      /\ Prepared(x).v = "NaN" <=> Prepared(y).v = "NaN"
    BY <1>3 DEF Alike
<1>5. schema.type \in SchemaTypes /\ schema.format \in Formats
    BY SchemasAssumption DEF Field
<1>6. MatchesType(schema.type, Prepared(y))
    BY <1>2, <1>4, <1>5 DEF FitsSchema, MatchesType, SchemaTypes
<1>7. MatchesFormat(schema.format, Prepared(y))
    BY <1>2, <1>4, <1>5 DEF FitsSchema, MatchesFormat, Formats
<1>8. FitsSchema(schema, Prepared(y))
    BY <1>2, <1>4, <1>6, <1>7 DEF FitsSchema
<1> QED BY <1>1, <1>8 DEF Accepts

(* Of the values CDC reads as text, a boolean is quarantined, and JSON too *)
(* if its field has a type; without one the others take the value as well. *)
LEMMA TextAccepted ==
    ASSUME Field, NEW i \in Rows, NEW j \in Journeys,
           TextOnly(i), ~TextOnly(j), Accepts(i, Coerced(i))
    PROVE  Accepts(j, Coerced(j))
<1>1. CASE value = Null
    BY <1>1, CoercedNull, AcceptedAlike DEF Alike
<1>2. CASE value # Null
    <2>1. Coerced(i) # Invalid /\ FitsSchema(schema, Prepared(Coerced(i)))
        BY DEF Accepts, Normal
    <2>2. column = "jsonb"
        BY <1>2, <2>1, CoercedOther DEF TextOnly, Rows, Journeys
    <2> DEFINE x == Str("json", value)
               y == JsonOf(value)
    <2>3. /\ Coerced(i) = Coerce(x, FieldType(schema))
          /\ Coerced(j) = Coerce(y, FieldType(schema))
        BY <1>2, <2>2, CoercedOther DEF Rows, Journeys
    <2>4. FieldType(schema) = "untyped"
        <3>1. Coerce(x, "json") = Invalid /\ Coerce(x, "array") = Invalid
            BY DEF Coerce, Converted, Taken, Str, NoValue, Python
        <3> QED BY <2>1, <2>2, <2>3, <3>1, TypesOfColumns DEF Field
    <2>5. Coerced(i) = x /\ Coerced(j) = y
        BY <2>3, <2>4 DEF Coerce
    <2>6. x.v = value /\ y.v = value /\ y # Invalid /\ y # NoValue
          /\ x.py \notin DOMAIN IsoLiteral /\ y.py \notin DOMAIN IsoLiteral
        BY DEF JsonOf, Str, Python, Invalid, NoValue, IsoLiteral
    <2>7. Prepared(x) = x /\ Prepared(y) = y
        BY <2>6 DEF Prepared
    <2>8. schema.type = "untyped" /\ schema.format = "none"
        BY <2>4, SchemasAssumption DEF Field, FieldType, SchemaTypes, Formats
    <2>9. FitsSchema(schema, y)
        BY <2>1, <2>5, <2>6, <2>7, <2>8 DEF FitsSchema, MatchesType, MatchesFormat
    <2> QED BY <2>5, <2>6, <2>7, <2>9 DEF Accepts, Normal
<1> QED BY <1>1, <1>2

(***************************************************************************)
(* For every property schema: psycopg2's objects, the audit table's jsonb  *)
(* and the server's text come to the same value and the same verdict, but  *)
(* for the exceptions the property names.                                  *)
(***************************************************************************)
THEOREM ContractSpecStrategiesAgree == ContractSpec => []StrategiesAgree
<1>1. ASSUME ContractInv PROVE StrategiesAgree
    <2> SUFFICES ASSUME NEW i \in Journeys, NEW j \in Journeys
                 PROVE
        /\ phase[i] = "loaded" /\ phase[j] = "loaded" =>
            Same(loaded[i], loaded[j]) \/ Rounds(i) # Rounds(j) \/ TextOnly(i) # TextOnly(j)
        /\ i \in Rows /\ phase[i] \in {"landed", "loaded", "refused"} /\ phase[j] = "quarantined" =>
            TextOnly(j) \/ Rounds(i) # Rounds(j)
        BY DEF StrategiesAgree
    <2>0. Field /\ Travelled(i) /\ Travelled(j)
        BY <1>1 DEF ContractInv
    <2>1. ASSUME phase[i] = "loaded", phase[j] = "loaded",
                 Rounds(i) <=> Rounds(j), TextOnly(i) <=> TextOnly(j)
          PROVE  Same(loaded[i], loaded[j])
        <3>1. Alike(Coerced(i), Coerced(j))
            BY <2>0, <2>1, ReadAlike
        <3>2. /\ loaded[i].v = Coerced(i).v /\ loaded[i].py = Coerced(i).py
              /\ loaded[j].v = Coerced(j).v /\ loaded[j].py = Coerced(j).py
            BY <1>1, <2>1, LoadedAsCoerced
        <3> QED BY <3>1, <3>2 DEF Alike, Same, Normalized
    <2>2. ASSUME i \in Rows, phase[i] \in {"landed", "loaded", "refused"},
                 phase[j] = "quarantined", ~TextOnly(j), Rounds(i) <=> Rounds(j)
          PROVE  FALSE
        <3>1. Accepts(i, Coerced(i)) /\ ~Accepts(j, Coerced(j))
            BY <2>0, <2>2 DEF Travelled
        <3>2. CASE TextOnly(i)
            BY <2>0, <2>2, <3>1, <3>2, TextAccepted
        <3>3. CASE ~TextOnly(i)
            <4>1. Alike(Coerced(i), Coerced(j))
                BY <2>0, <2>2, <3>3, ReadAlike
            <4> QED BY <2>0, <2>2, <3>1, <4>1, AcceptedAlike
        <3> QED BY <3>2, <3>3
    <2>3. /\ Rounds(i) \in BOOLEAN /\ Rounds(j) \in BOOLEAN
          /\ TextOnly(i) \in BOOLEAN /\ TextOnly(j) \in BOOLEAN
        BY DEF Rounds, TextOnly
    <2> QED BY <2>1, <2>2, <2>3
<1> QED BY <1>1, ContractInitInv, ContractNextInv, PTL DEF ContractSpec
=============================================================================
