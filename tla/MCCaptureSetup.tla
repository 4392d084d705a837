--------------------------- MODULE MCCaptureSetup ---------------------------
(* Two pipelines with one table or two, and servers that lack some, all or *)
(* none of the settings.                                                   *)
EXTENDS CaptureSetup, TLC

CONSTANTS a, b

Server(level, n, senders) ==
    [wal_level |-> level, max_replication_slots |-> n, max_wal_senders |-> senders]

(* Logical slots can be there before the setup only at wal_level logical. *)
MCServers ==
    { <<Server("minimal", 0, 0), NoSlot>>,
      <<Server("minimal", 2, 0), NoSlot>>,
      <<Server("replica", 0, 2), NoSlot>>,
      <<Server("logical", 1, 2), NoSlot>>,
      <<Server("logical", 2, 2), "pgoutput">>,
      <<Server("logical", 2, 2), "another plugin">> }

MCDeployments ==
    { [settings |-> s[1], foreign |-> (a :> s[2]) @@ (b :> NoSlot), auto |-> auto,
       table |-> (a :> "orders") @@ (b :> other),
       mode |-> (a :> "full") @@ (b :> mode),
       replace |-> (a :> FALSE) @@ (b :> replace),
       create |-> (a :> create) @@ (b :> TRUE)] :
        s \in MCServers, auto \in BOOLEAN, other \in {"orders", "items"},
        mode \in {"full", "default"}, replace \in BOOLEAN, create \in BOOLEAN }
=============================================================================
