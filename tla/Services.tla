------------------------------ MODULE Services -------------------------------
(***************************************************************************)
(* The parts of the platform around payments that share no state with one  *)
(* another: of ignition-api login and sessions, password accounts, API     *)
(* keys, SEP-24 transactions, campaigns, notifications, the caches of the  *)
(* settings and of dashboards, and the rate limit of a client; the payment *)
(* queue of the web frontend; and the address libraries.  A behaviour is   *)
(* one of one service, so that none multiplies the states of another.      *)
(***************************************************************************)
EXTENDS Sessions, Accounts, ApiKeys, Sep24, Campaigns, Notifications, Caches, Throttle, WebQueue,
        Routing

VARIABLE service

servicesVars == <<service, sessionsVars, accountsVars, apiKeysVars, sep24Vars,
                  campaignsVars, notificationsVars, cachesVars, throttleVars, webQueueVars,
                  routingVars>>

ServicesInit ==
  /\ service \in {"sessions", "accounts", "api-keys", "sep24", "campaigns", "notifications",
                  "caches", "throttle", "web-queue", "routing"}
  /\ SessionsInit /\ AccountsInit /\ ApiKeysInit /\ Sep24Init /\ CampaignsInit
  /\ NotificationsInit /\ CachesInit /\ ThrottleInit /\ WebQueueInit /\ RoutingInit
  /\ service # "caches" => cacheOf = "settings"

\* A step of this service, with the state of the others left alone.
Only(name, others) == service = name /\ UNCHANGED <<service, others>>

ServicesNext ==
  \/ /\ Only("sessions", <<accountsVars, apiKeysVars, sep24Vars, campaignsVars,
                           notificationsVars, cachesVars, throttleVars, webQueueVars,
                           routingVars>>)
     /\ SessionsNext
  \/ /\ Only("accounts", <<sessionsVars, apiKeysVars, sep24Vars, campaignsVars,
                           notificationsVars, cachesVars, throttleVars, webQueueVars,
                           routingVars>>)
     /\ AccountsNext
  \/ /\ Only("api-keys", <<sessionsVars, accountsVars, sep24Vars, campaignsVars,
                           notificationsVars, cachesVars, throttleVars, webQueueVars,
                           routingVars>>)
     /\ ApiKeysNext
  \/ /\ Only("sep24", <<sessionsVars, accountsVars, apiKeysVars, campaignsVars,
                        notificationsVars, cachesVars, throttleVars, webQueueVars,
                        routingVars>>)
     /\ Sep24Next
  \/ /\ Only("campaigns", <<sessionsVars, accountsVars, apiKeysVars, sep24Vars,
                            notificationsVars, cachesVars, throttleVars, webQueueVars,
                            routingVars>>)
     /\ CampaignsNext
  \/ /\ Only("notifications", <<sessionsVars, accountsVars, apiKeysVars, sep24Vars,
                                campaignsVars, cachesVars, throttleVars, webQueueVars,
                                routingVars>>)
     /\ NotificationsNext
  \/ /\ Only("caches", <<sessionsVars, accountsVars, apiKeysVars, sep24Vars, campaignsVars,
                         notificationsVars, throttleVars, webQueueVars, routingVars>>)
     /\ CachesNext
  \/ /\ Only("throttle", <<sessionsVars, accountsVars, apiKeysVars, sep24Vars,
                           campaignsVars, notificationsVars, cachesVars, webQueueVars,
                           routingVars>>)
     /\ ThrottleNext
  \/ /\ Only("web-queue", <<sessionsVars, accountsVars, apiKeysVars, sep24Vars,
                            campaignsVars, notificationsVars, cachesVars, throttleVars,
                            routingVars>>)
     /\ WebQueueNext
  \/ /\ Only("routing", <<sessionsVars, accountsVars, apiKeysVars, sep24Vars, campaignsVars,
                          notificationsVars, cachesVars, throttleVars, webQueueVars>>)
     /\ RoutingNext

ServicesSpec == ServicesInit /\ [][ServicesNext]_servicesVars

ServicesTypeOK ==
  /\ service = "sessions"      => SessionsTypeOK
  /\ service = "accounts"      => AccountsTypeOK
  /\ service = "api-keys"      => ApiKeysTypeOK
  /\ service = "sep24"         => Sep24TypeOK
  /\ service = "campaigns"     => CampaignsTypeOK
  /\ service = "notifications" => NotificationsTypeOK
  /\ service = "caches"        => CachesTypeOK
  /\ service = "throttle"      => ThrottleTypeOK
  /\ service = "web-queue"     => WebQueueTypeOK
  /\ service = "routing"       => RoutingTypeOK

=============================================================================
