----------------------------- MODULE NGINXProvider -----------------------------
(***************************************************************************)
(* The NGINX provider: the handlers Provider.GetAnnotationHandlers         *)
(* registers, on top of the engine of Conversion.                          *)
(***************************************************************************)
EXTENDS NGINXPolicies

AnnotationHandlers ==
  RedirectKeys \union RedirectCodeKeys \union SSLRedirectKeys \union ReadElsewhere
  \union ListenerKeys \union DurationKeys \union WAFKeys \union {n.key : n \in Notices}
  \union { "from-to-www-redirect", "rewrite-target", "use-regex", "app-root", "upstream-vhost",
           "x-forwarded-prefix", "connection-proxy-header", "server-alias", "canary-weight",
           "canary-by-header", "load-balance", "affinity", "proxy-read-timeout",
           "backend-protocol" }

Unsupported ==
  \E k \in pending \ (AnnotationHandlers \union {LastApplied}) :
    UnsupportedAnnotation(k) /\ UNCHANGED policyVars

Handler == RouteHandler \/ PolicyHandler

Next == EngineStep \/ Unsupported \/ Handler \/ Returned

(* Convert is one goroutine that never waits: some step is always taken.    *)
Spec == Init /\ [][Next]_vars /\ WF_vars(Next)
=============================================================================
