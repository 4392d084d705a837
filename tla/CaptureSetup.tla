---------------------------- MODULE CaptureSetup ----------------------------
(***************************************************************************)
(* ensure_source_logical_cdc_capture (strategies/logical_cdc/admin.py) run *)
(* by several pipelines on one source server: the WAL settings checked or  *)
(* written, the publication and the replica identity set in a transaction, *)
(* the slot created after it.  Every run of a pipeline begins with it, so  *)
(* it is called again and again, also after it failed half-way.            *)
(*                                                                         *)
(* Each pipeline has a table and a slot of its own; the publication is     *)
(* shared.  The server is external: settings take effect at a restart, the *)
(* stream of a slot has the changes committed after the slot was created,  *)
(* and a change is sent, with the key before it, as the publication and    *)
(* the replica identity were at its place in the WAL.                      *)
(***************************************************************************)
EXTENDS Naturals, FiniteSets

CONSTANTS
    Pipelines,     \* callers, each with its DAG's arguments
    Deployments,   \* what the server and the arguments may be
    DesiredSlots, DesiredSenders,   \* desired_max_...
    MaxFaults      \* bound: failed setups, and restarts nobody asked for

Levels == {"minimal", "replica", "logical"}
Settings == [wal_level : Levels, max_replication_slots : Nat, max_wal_senders : Nat]

Plugins == {"none", "pgoutput", "another plugin"}
NoSlot == "none"
IdentityModes == {"default", "full"}

ASSUME DesiredAssumption == DesiredSlots \in Nat \ {0} /\ DesiredSenders \in Nat \ {0}
ASSUME BoundAssumption == MaxFaults \in Nat

(* Before the first setup the server is one that is running: PostgreSQL    *)
(* accepted its settings, with the slots somebody else has made.           *)
ASSUME DeploymentsAssumption ==
    \A deployment \in Deployments :
        /\ deployment.settings \in Settings
        /\ deployment.foreign \in [Pipelines -> Plugins]
        /\ DOMAIN deployment.table = Pipelines
        /\ deployment.mode \in [Pipelines -> IdentityModes]
        /\ deployment.replace \in [Pipelines -> BOOLEAN]
        /\ deployment.create \in [Pipelines -> BOOLEAN]
        /\ deployment.auto \in BOOLEAN
        /\ deployment.settings.max_wal_senders > 0 =>
              deployment.settings.wal_level # "minimal"
        /\ (\E p \in Pipelines : deployment.foreign[p] # NoSlot) =>
              deployment.settings.wal_level = "logical"

VARIABLES
    d,           \* the deployment: table, mode, replace, create and foreign slot of
                 \* each pipeline, auto, settings
    written,     \* settings in postgresql.auto.conf
    effective,   \* settings the server runs with
    up,
    told,        \* a setup has raised "require PostgreSQL restart"
    publication, \* tables of the publication
    published,   \* does it exist
    identity,    \* replica identity of each table
    slots,       \* plugin of each pipeline's slot
    step,        \* of each pipeline's setup
    saw,         \* did it find the publication
    ready,       \* pipelines whose setup has returned
    broken,      \* slots whose stream met a change while nothing was published
    missed,      \* ready pipelines to which a change was not sent
    keyless,     \* ready pipelines to which a change was sent without their key
    faults

server == <<written, effective, up, told>>
catalog == <<publication, published, identity>>
streams == <<broken, missed, keyless>>
vars == <<d, written, effective, up, told, publication, published, identity, slots,
          step, saw, ready, broken, missed, keyless, faults>>

Steps == {"idle", "alter wal_level", "alter slots", "alter senders", "publication",
          "publish", "slot", "return"}
Goto(p, s) == step' = [step EXCEPT ![p] = s]

Init ==
    /\ d \in Deployments
    /\ written = d.settings /\ effective = d.settings
    /\ up = TRUE /\ told = FALSE
    /\ publication = {} /\ published = FALSE
    /\ identity = [t \in {d.table[p] : p \in Pipelines} |-> "default"]
    /\ slots = [p \in Pipelines |-> d.foreign[p]]
    /\ step = [p \in Pipelines |-> "idle"]
    /\ saw = [p \in Pipelines |-> FALSE]
    /\ ready = {} /\ broken = {} /\ missed = {} /\ keyless = {}
    /\ faults = 0
-----------------------------------------------------------------------------
(* _wal_setting_changes, of the settings in effect. *)
Lacks(setting) ==
    \/ setting = "alter wal_level" /\ effective.wal_level # "logical"
    \/ setting = "alter slots" /\ effective.max_replication_slots = 0
    \/ setting = "alter senders" /\ effective.max_wal_senders = 0

(* Mutant: the settings written in another order. *)
SendersFirst == <<"alter senders", "alter wal_level", "alter slots">>

AlterOrder == <<"alter wal_level", "alter slots", "alter senders">>

(* The first setting to be written from place n of that order on, if any. *)
FirstLacking(n) ==
    LET lacking == {i \in n..3 : Lacks(AlterOrder[i])}
    IN  IF lacking = {} THEN "none"
        ELSE AlterOrder[CHOOSE i \in lacking : \A j \in lacking : i <= j]

(* _validate_or_configure_wal_settings: go on or write.  It raises, and *)
(* changes nothing, when it may not write them.                         *)
CheckSettings(p) ==
    /\ up
    /\ step[p] = "idle"
    /\ \/ FirstLacking(1) = "none" /\ Goto(p, "publication")
       \/ FirstLacking(1) # "none" /\ d.auto /\ Goto(p, FirstLacking(1))
    /\ UNCHANGED <<d, server, catalog, slots, saw, ready, streams, faults>>

Write(setting) ==
    [wal_level |-> IF setting = "alter wal_level" THEN "logical" ELSE written.wal_level,
     max_replication_slots |->
        IF setting = "alter slots" THEN DesiredSlots ELSE written.max_replication_slots,
     max_wal_senders |->
        IF setting = "alter senders" THEN DesiredSenders ELSE written.max_wal_senders]

(* One ALTER SYSTEM, committed by itself; after the last the setup raises *)
(* and asks for a restart.                                                *)
AlterSystem(p) ==
    /\ up
    /\ \E n \in 1..3 :
        /\ step[p] = AlterOrder[n]
        /\ written' = Write(step[p])
        /\ IF FirstLacking(n + 1) # "none"
           THEN Goto(p, FirstLacking(n + 1)) /\ UNCHANGED told
           ELSE Goto(p, "idle") /\ told' = TRUE
    /\ UNCHANGED <<d, effective, up, catalog, slots, saw, ready, streams, faults>>

(* The setup transaction: look for the publication ... *)
LookForPublication(p) ==
    /\ up
    /\ step[p] = "publication"
    /\ saw' = [saw EXCEPT ![p] = published]
    /\ Goto(p, "publish")
    /\ UNCHANGED <<d, server, catalog, slots, ready, streams, faults>>

(* Mutant: the publication is dropped in a transaction of its own. *)
DropThenPublish(p) ==
    /\ up
    /\ step[p] = "publish"
    /\ saw[p] = published
    /\ IF published /\ d.replace[p]
       THEN /\ publication' = {} /\ published' = FALSE
            /\ Goto(p, "publication")
            /\ UNCHANGED identity
       ELSE /\ publication' = publication \cup {d.table[p]} /\ published' = TRUE
            /\ identity' = [identity EXCEPT ![d.table[p]] = d.mode[p]]
            /\ Goto(p, "slot")
    /\ UNCHANGED <<d, server, slots, saw, ready, streams, faults>>

(* Mutant: the table is not added to a publication that exists. *)
PublishOnlyNew(p) ==
    /\ up
    /\ step[p] = "publish"
    /\ saw[p] = published
    /\ publication' = IF published /\ ~d.replace[p] THEN publication ELSE {d.table[p]}
    /\ published' = TRUE
    /\ identity' = [identity EXCEPT ![d.table[p]] = d.mode[p]]
    /\ Goto(p, "slot")
    /\ UNCHANGED <<d, server, slots, saw, ready, streams, faults>>

(* ... drop it, create it or add the table, set the replica identity, and  *)
(* commit.  Another setup that has created or dropped it since makes the   *)
(* statement fail.                                                         *)
Publish(p) ==
    /\ up
    /\ step[p] = "publish"
    /\ saw[p] = published
    /\ publication' = IF published /\ ~d.replace[p] THEN publication \cup {d.table[p]}
                      ELSE {d.table[p]}
    /\ published' = TRUE
    /\ identity' = [identity EXCEPT ![d.table[p]] = d.mode[p]]
    /\ Goto(p, "slot")
    /\ UNCHANGED <<d, server, slots, saw, ready, streams, faults>>

FreeSlot == Cardinality({q \in Pipelines : slots[q] # NoSlot}) < effective.max_replication_slots

(* Mutant: the slot is created without a look for it. *)
CreateSlot(p) ==
    /\ up
    /\ step[p] = "slot"
    /\ d.create[p] /\ slots[p] = NoSlot /\ FreeSlot
    /\ slots' = [slots EXCEPT ![p] = "pgoutput"]
    /\ Goto(p, "return")
    /\ UNCHANGED <<d, server, catalog, saw, ready, streams, faults>>

(* _ensure_logical_replication_slot: a slot that is missing is created when *)
(* create_slot_if_missing says so.                                          *)
EnsureSlot(p) ==
    /\ up
    /\ step[p] = "slot"
    /\ \/ /\ slots[p] = NoSlot /\ d.create[p] /\ FreeSlot
          /\ slots' = [slots EXCEPT ![p] = "pgoutput"]
       \/ slots[p] = "pgoutput" /\ UNCHANGED slots
    /\ Goto(p, "return")
    /\ UNCHANGED <<d, server, catalog, saw, ready, streams, faults>>

Return(p) ==
    /\ step[p] = "return"
    /\ ready' = ready \cup {p}
    /\ Goto(p, "idle")
    /\ UNCHANGED <<d, server, catalog, slots, saw, streams, faults>>

(* The call raises because of what it finds: a publication that came or    *)
(* went, no slot and none to be created or none left, a slot of another    *)
(* plugin.  The publication's transaction is committed by then.            *)
Refused(p) ==
    \/ step[p] = "publish" /\ saw[p] # published
    \/ step[p] = "slot" /\ slots[p] = NoSlot /\ ~(d.create[p] /\ FreeSlot)
    \/ step[p] = "slot" /\ slots[p] \notin {NoSlot, "pgoutput"}

Raise(p) ==
    /\ up
    /\ Refused(p)
    /\ Goto(p, "idle")
    /\ UNCHANGED <<d, server, catalog, slots, saw, ready, streams, faults>>

(* Any statement fails or the task dies.  What was committed stays. *)
Fail(p) ==
    /\ step[p] # "idle"
    /\ faults < MaxFaults
    /\ faults' = faults + 1
    /\ Goto(p, "idle")
    /\ UNCHANGED <<d, server, catalog, slots, saw, ready, streams>>
-----------------------------------------------------------------------------
(* PostgreSQL does not start with WAL senders and a minimal wal_level, nor *)
(* with a logical slot and less than logical.                              *)
Startable(s) ==
    /\ s.max_wal_senders > 0 => s.wal_level # "minimal"
    /\ (\E p \in Pipelines : slots[p] # NoSlot) => s.wal_level = "logical"

(* The server restarts, with the settings written; open sessions are lost. *)
Reboot ==
    /\ up
    /\ up' = Startable(written)
    /\ effective' = written
    /\ told' = FALSE
    /\ step' = [p \in Pipelines |-> "idle"]
    /\ UNCHANGED <<d, written, catalog, slots, saw, ready, streams>>

RestartAsTold == told /\ Reboot /\ UNCHANGED faults

RestartAnyhow == faults < MaxFaults /\ Reboot /\ faults' = faults + 1

(* A transaction on table t commits, in the WAL of every slot there is. *)
SourceCommit(t) ==
    /\ up
    /\ LET listening == {p \in Pipelines : slots[p] # NoSlot}
           mine == {p \in ready : d.table[p] = t}
       IN  /\ broken' = IF published THEN broken ELSE broken \cup listening
           /\ missed' = IF t \in publication THEN missed ELSE missed \cup mine
           /\ keyless' = keyless \cup {p \in mine : t \in publication
                                        /\ d.mode[p] = "full" /\ identity[t] # "full"}
    /\ UNCHANGED <<d, server, catalog, slots, step, saw, ready, faults>>

Setup(p) ==
    \/ CheckSettings(p) \/ AlterSystem(p) \/ LookForPublication(p) \/ Publish(p)
    \/ EnsureSlot(p) \/ Return(p) \/ Raise(p)

Next ==
    \/ \E p \in Pipelines : Setup(p) \/ Fail(p)
    \/ \E t \in DOMAIN identity : SourceCommit(t)
    \/ RestartAsTold \/ RestartAnyhow

Spec == Init /\ [][Next]_vars

(* The DAGs are scheduled for ever, and the server's operator restarts it *)
(* when a setup has asked for that.                                       *)
FairSpec ==
    /\ Spec
    /\ \A p \in Pipelines : WF_vars(Setup(p))
    /\ WF_vars(RestartAsTold)
-----------------------------------------------------------------------------
TypeOK ==
    /\ d \in Deployments
    /\ written \in Settings /\ effective \in Settings
    /\ up \in BOOLEAN /\ told \in BOOLEAN /\ published \in BOOLEAN
    /\ publication \subseteq {d.table[p] : p \in Pipelines}
    /\ identity \in [{d.table[p] : p \in Pipelines} -> IdentityModes]
    /\ slots \in [Pipelines -> Plugins]
    /\ step \in [Pipelines -> Steps]
    /\ saw \in [Pipelines -> BOOLEAN]
    /\ ready \cup broken \cup missed \cup keyless \subseteq Pipelines
    /\ faults \in 0..MaxFaults

(***************************************************************************)
(* No slot this code created ever meets a change while its publication     *)
(* does not exist, which pgoutput answers with an error at every attempt.  *)
(* So the slot comes after the committed publication, and a replacement    *)
(* drops and creates in one transaction (tests/test_logical_cdc.py:873).   *)
(* A slot made by hand before the setup has no such promise.               *)
(***************************************************************************)
StreamNeverBreaks == \A p \in broken : d.foreign[p] # NoSlot

(***************************************************************************)
(* Once a setup has returned, every later change of its table is sent to   *)
(* its slot, with the old key its mode asked for, through repeated,        *)
(* concurrent and failed setups and restarts.  Only arguments of other     *)
(* pipelines can take that away: replace_existing_publication for another  *)
(* table of the shared publication, and replica_identity_mode 'default'    *)
(* for the same table.  To a slot made by hand that had met a change       *)
(* before its publication existed pgoutput sends nothing at all: such a    *)
(* stream is broken (StreamNeverBreaks), and the property is about others. *)
(***************************************************************************)
ReadyMissesNothing ==
    /\ \A p \in missed : \E q \in Pipelines : d.replace[q] /\ d.table[q] # d.table[p]
    /\ \A p \in keyless : \E q \in Pipelines :
            d.mode[q] = "default" /\ d.table[q] = d.table[p]

(***************************************************************************)
(* The settings on disk always let the server start, although ALTER SYSTEM *)
(* writes them one by one, a setup may die between two of them and the     *)
(* server may be restarted at any time (README.md:187 calls the automatic  *)
(* configuration safe).                                                    *)
(***************************************************************************)
ServerStartsAgain == up

(* What no retry mends: settings nobody may write, too few slots, a slot of *)
(* another plugin, a missing slot with create_slot_if_missing=False.        *)
Mendable(p) ==
    /\ d.auto \/ FirstLacking(1) = "none"
    /\ effective.max_replication_slots \notin 1..Cardinality(Pipelines) - 1
    /\ d.foreign[p] = "pgoutput" \/ (d.foreign[p] = NoSlot /\ d.create[p])

(***************************************************************************)
(* Run again and again, with a restart when it asks for one, every setup   *)
(* gets through: settings half-written, publications created by two setups *)
(* at once and tasks that die do not stop it for ever.                     *)
(***************************************************************************)
EverySetupGetsThrough == \A p \in Pipelines : Mendable(p) => <>(p \in ready)
=============================================================================
