---------------------------- MODULE GatewayContract ---------------------------
(***************************************************************************)
(* What a conversion promises of the Gateway it assembles, whatever the    *)
(* provider and whatever order the annotation handlers run in:             *)
(*                                                                         *)
(*   - listeners, certificates and ReferenceGrants are only ever added;    *)
(*   - a route refers only to listeners that exist at that moment;         *)
(*   - a listener never names a certificate in another namespace that has  *)
(*     not granted the Gateway access to its secrets;                      *)
(*   - once the Gateway is built nothing changes any more.                 *)
(***************************************************************************)
CONSTANTS
  HTTPListenerName,     \* section name of the HTTP listener
  ListenerName(_)       \* section name of the HTTPS listener of a host

VARIABLES
  http,                 \* is there an HTTP listener
  https,                \* host -> the certificates of its HTTPS listener
  grants,               \* namespaces with a ReferenceGrant for the Gateway
  home,                 \* the Gateway's own namespace
  refs,                 \* section names the routes refer to
  sealed                \* the Gateway has been built

gatewayVars == <<http, https, grants, home, refs, sealed>>

Sections ==
  (IF http THEN {HTTPListenerName} ELSE {})
    \union {ListenerName(h) : h \in DOMAIN https}

Init ==
  /\ http = FALSE
  /\ DOMAIN https = {}
  /\ grants = {}
  /\ refs = {}
  /\ sealed = FALSE

ListenersGrow ==
  /\ http => http'
  /\ \A h \in DOMAIN https : h \in DOMAIN https' /\ https[h] \subseteq https'[h]

CertificatesGranted ==
  \A h \in DOMAIN https : \A cert \in https[h] : cert.ns \in grants \union {home}

Extend ==
  /\ ~sealed
  /\ ~sealed'
  /\ home' = home
  /\ ListenersGrow
  /\ grants \subseteq grants'
  /\ CertificatesGranted'
  /\ refs \subseteq refs'
  /\ refs' \subseteq Sections'

Seal ==
  /\ ~sealed
  /\ sealed'
  /\ UNCHANGED <<http, https, grants, home, refs>>

Spec == Init /\ [][Extend \/ Seal]_gatewayVars
=============================================================================
