----------------------------- MODULE MCServices -----------------------------
(***************************************************************************)
(* The parts of the web application's server, and the tool that migrates   *)
(* its data: the event stream with its tabs, the rate limits, the access   *)
(* tokens, the notification settings and the data migrations.  They share  *)
(* no variable, so a behaviour of one says nothing about another; each     *)
(* behaviour here is of one part while the others rest at one initial      *)
(* state.  Tabs that connect without the lock ("tabs") are checked with    *)
(* the rows of one event and a shorter time, all else of the stream with   *)
(* those of all.                                                           *)
(***************************************************************************)
EXTENDS EventStream, RateLimits, AccessTokens, NotificationSettings,
        DataMigrations, TLC

VARIABLE part   \* the part that takes the steps

ServicesInit ==
    /\ part \in {"stream", "tabs", "limits", "tokens", "notifications", "migrations"}
    /\ StreamInit /\ LimitInit /\ TokensInit /\ NotificationInit /\ MigrationsInit
    /\ part # "tabs" => webLocks
    /\ part # "limits" => \A r \in Requests : request[r].key = CHOOSE k \in Keys : TRUE

ServicesNext ==
    /\ part' = part
    /\ \/ /\ part = "stream" /\ StreamNext
          /\ \A t \in Tabs : tab'[t].lock # "refused"
          /\ UNCHANGED <<limitVars, tokenVars, notificationVars, migrationVars>>
       \/ /\ part = "tabs" /\ StreamNext
          /\ clock' < MaxClock /\ Cardinality({row.event : row \in table' \cup writes'}) < 2
          /\ UNCHANGED <<limitVars, tokenVars, notificationVars, migrationVars>>
       \/ /\ part = "limits" /\ LimitNext
          /\ UNCHANGED <<streamVars, tokenVars, notificationVars, migrationVars>>
       \/ /\ part = "tokens" /\ TokensNext
          /\ UNCHANGED <<streamVars, limitVars, notificationVars, migrationVars>>
       \/ /\ part = "notifications" /\ NotificationNext
          /\ UNCHANGED <<streamVars, limitVars, tokenVars, migrationVars>>
       \/ /\ part = "migrations" /\ MigrationsNext
          /\ UNCHANGED <<streamVars, limitVars, tokenVars, notificationVars>>

servicesVars == <<part, streamVars, limitVars, tokenVars, notificationVars, migrationVars>>

ServicesSpec == ServicesInit /\ [][ServicesNext]_servicesVars

\* Tabs run the same code, and events are told apart by name only.
ServicesSymmetry == Permutations(Tabs) \cup Permutations(Events)

(* Every part keeps its types.                                             *)
ServicesTypeOK ==
    CASE part \in {"stream", "tabs"} -> StreamTypeOK
      [] part = "limits"        -> LimitTypeOK
      [] part = "tokens"        -> TokensTypeOK
      [] part = "notifications" -> NotificationTypeOK
      [] part = "migrations"    -> MigrationsTypeOK
=============================================================================
