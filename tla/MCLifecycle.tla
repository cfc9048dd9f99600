---------------------------- MODULE MCLifecycle ----------------------------
(* Five of the services of create_service_manager, in the order of their      *)
(* registration and with their dependencies among the five.                  *)
EXTENDS Lifecycle, TLC

MCRegistered == <<"webdav", "database", "config", "tls", "background">>
MCDeps ==
    [s \in ToSet(MCRegistered) |->
        CASE s = "database" -> {}
          [] s = "config" -> {"database"}
          [] s = "tls" -> {"config"}
          [] s = "background" -> {"database"}
          [] s = "webdav" -> {"database", "config"}]
MCThreaded == {"tls", "background"}

-----------------------------------------------------------------------------
(* Kahn's algorithm in _resolve_order puts every service after the services  *)
(* it depends on and finds every cycle, on all graphs of three services and  *)
(* on the services that create_service_manager registers.                    *)

InOrder(order, deps) ==
    \A i \in DOMAIN order : deps[order[i]] \subseteq {order[j] : j \in 1..(i - 1)}

Acyclic(deps) == \A S \in SUBSET DOMAIN deps \ {{}} : \E s \in S : deps[s] \cap S = {}

ASSUME OrderIsTopological ==
    \A deps \in [1..3 -> SUBSET (1..3)] :
        LET order == Resolve(<<1, 2, 3>>, deps)
        IN /\ InOrder(order, deps)
           /\ Acyclic(deps) <=> ToSet(order) = 1..3

AllRegistered ==
    <<"database", "backup", "config", "logging", "auth", "tls", "storage", "cachelinks",
      "fetcher", "indexer", "checksums", "background", "webdav", "webui">>
AllDeps ==
    [s \in ToSet(AllRegistered) |->
        CASE s = "database" -> {}
          [] s = "backup" -> {"database"}
          [] s = "config" -> {"database", "backup"}
          [] s \in {"logging", "tls", "storage", "cachelinks", "fetcher"} -> {"config"}
          [] s \in {"auth", "checksums"} -> {"database", "config"}
          [] s = "indexer" -> {"config", "database", "cachelinks"}
          [] s = "background" -> {"database", "storage", "cachelinks", "fetcher", "indexer"}
          [] s = "webdav" -> {"database", "config", "auth", "storage", "cachelinks", "fetcher"}
          [] s = "webui" -> {"database", "config", "auth", "storage", "cachelinks", "fetcher",
                             "indexer", "checksums"}]

ASSUME AllServicesAreOrdered ==
    LET order == Resolve(AllRegistered, AllDeps)
    IN InOrder(order, AllDeps) /\ ToSet(order) = ToSet(AllRegistered)
=============================================================================
