---------------------------- MODULE NGINXProperties ----------------------------
(***************************************************************************)
(* What a conversion of NGINX Ingresses has to get right, stated of the    *)
(* input alone: it holds for every order of the annotation handlers.       *)
(***************************************************************************)
EXTENDS NGINXProvider, Reporting

-----------------------------------------------------------------------------
(* Routes.  The properties of a rule are about the rules with a backend:    *)
(* they lie behind the redirect rules of app-root.                          *)

Passes(nn, host) == {i \in ActiveRules(nn) : Ingress(nn).rules[i].host = host}

RootRules(nn, host) ==
  IF HasAnnotation(nn, "app-root") THEN Cardinality(Passes(nn, host)) ELSE 0

StoredRules(p) == routes[graphRoutes[PairNN(p)]].rules

(* The rule the i-th backend of a host has become.                          *)
BackendRule(p, i) == StoredRules(p)[RootRules(p[1], p[2]) + i]

(* No handler loses, repeats or reorders a backend, and every redirect of   *)
(* app-root, one for each rule of its host, precedes all of them: a request *)
(* for the root is never taken by a backend that was declared for it.       *)
BackendsBehindAppRoot ==
  Done /\ NamesAreUnique =>
    /\ DOMAIN graphRoutes \ {RedirectNN} = {PairNN(p) : p \in ActivePairs}
    /\ \A p \in ActivePairs :
         LET declared == DeclaredBackends(p[1], p[2])
             roots    == RootRules(p[1], p[2])
         IN  /\ Len(StoredRules(p)) = roots + Len(declared)
             /\ \A i \in 1 .. roots : /\ StoredRules(p)[i].svc = NoService
                                      /\ StoredRules(p)[i].path = "/"
                                      /\ StoredRules(p)[i].redirect # NoRedirect
             /\ \A i \in DOMAIN declared : /\ BackendRule(p, i).svc = declared[i].svc
                                           /\ BackendRule(p, i).port = declared[i].port

(* What each redirect annotation of an Ingress asks for.                    *)
RedirectRequests(nn) ==
  LET url(k, code) ==
        IF HasAnnotation(nn, k) /\ AnnotationOf(nn, k).kind = "url"
          THEN LET u == AnnotationOf(nn, k)
               IN  {[code |-> code, scheme |-> u.scheme, host |-> u.host, port |-> u.port,
                     path |-> u.path]}
          ELSE {}
      code(k) ==
        IF HasAnnotation(nn, k) /\ AnnotationOf(nn, k) \in ValidCodes(k)
          THEN {[NoRedirect EXCEPT !.code = AnnotationOf(nn, k)]} ELSE {}
      first == Ingress(nn).rules[1].host
      www == IF /\ HasAnnotation(nn, "from-to-www-redirect")
                /\ AnnotationOf(nn, "from-to-www-redirect") = "true"
                /\ first \notin WWWHosts \union {AnyHost}
               THEN {[NoRedirect EXCEPT !.code = "301", !.host = WWWName(first)]} ELSE {}
  IN  url("permanent-redirect", "301") \union url("temporal-redirect", "302")
        \union code("permanent-redirect-code") \union code("temporal-redirect-code") \union www

(* Every rule with a backend redirects as some redirect annotation of the   *)
(* Ingress says, in each part of the filter: no part is lost when others are*)
(* merged into the filter later, on no rule of a repeated host either, and  *)
(* nothing redirects that was not asked to.                                 *)
RedirectsAsDeclared ==
  Done /\ NamesAreUnique =>
    \A p \in ActivePairs : \A i \in DOMAIN DeclaredBackends(p[1], p[2]) :
      \A part \in DOMAIN NoRedirect :
        LET asked == {request[part] : request \in RedirectRequests(p[1])} \ {"none"}
        IN  BackendRule(p, i).redirect[part] \in IF asked = {} THEN {"none"} ELSE asked

(* rewrite-target does to every backend what the path it was declared with  *)
(* calls for, whatever use-regex has made of the match before and however   *)
(* often it has been over the rule: a regex path becomes its prefix, and a  *)
(* target with capture groups leaves all other paths alone.                 *)
RewritesFollowThePaths ==
  Done /\ NamesAreUnique =>
    \A p \in ActivePairs : \A i \in DOMAIN DeclaredBackends(p[1], p[2]) :
      LET declared == DeclaredBackends(p[1], p[2])[i].path
          asked    == HasAnnotation(p[1], "rewrite-target")
          target   == AnnotationOf(p[1], "rewrite-target")
          regex    == declared \in RegexPaths
          r        == BackendRule(p, i)
      IN  /\ r.path = IF asked /\ regex THEN PrefixOf(declared) ELSE declared
          /\ r.rewrite.prefix = IF ~asked \/ (target.groups /\ ~regex) THEN "none"
                                ELSE IF target.groups THEN target.static ELSE target.path

(* A canary is a canary on every backend of its routes, those of a repeated *)
(* host included, or its Ingress is in error: with a valid weight no        *)
(* backend is left without it, with a valid header no rule is open to all.  *)
CanaryCoversEveryBackend ==
  Done /\ NamesAreUnique =>
    \A p \in ActivePairs :
      LET valueOf(k, default) ==
            IF HasAnnotation(p[1], k) THEN AnnotationOf(p[1], k) ELSE default
          backends == DOMAIN DeclaredBackends(p[1], p[2])
      IN  /\ HasAnnotation(p[1], "canary-weight") =>
               LET weight == AnnotationOf(p[1], "canary-weight")
               IN  IF ValidWeight(weight, valueOf("canary-weight-total", 100))
                     THEN \A i \in backends : BackendRule(p, i).weight = weight
                     ELSE status[p[1]] = Error
          /\ HasAnnotation(p[1], "canary-by-header") =>
               IF AnnotationOf(p[1], "canary-by-header") = Unset
                  \/ valueOf("canary-by-header-pattern", Unset) = Invalid
                 THEN status[p[1]] = Error
                 ELSE \A i \in backends : BackendRule(p, i).headerMatches # <<>>

-----------------------------------------------------------------------------
(* Policies.                                                                 *)

Wants(nn, k, values) == HasAnnotation(nn, k) /\ AnnotationOf(nn, k) \in values

Given(nn, keys) ==
  {AnnotationOf(nn, k) : k \in keys \intersect DOMAIN Ingress(nn).annos} \ {Invalid}

(* Timeout, affinity and cookie duration of a route, written by up to four  *)
(* handlers, end in one policy; only "affinity: cookie" may cost a route the*)
(* duration that was asked for, and nothing gets a policy unasked.          *)
RoutePoliciesAsDeclared ==
  Done /\ NamesAreUnique =>
    LET cookie(nn)   == Wants(nn, "affinity", {"cookie"})
        duration(nn) == Given(nn, DurationKeys)
        timeout(nn)  == Given(nn, {"proxy-read-timeout"})
    IN  /\ DOMAIN routePolicies =
             {PairNN(p) : p \in {q \in ActivePairs :
                \/ cookie(q[1])
                \/ duration(q[1]) # {}
                \/ timeout(q[1]) # {}}}
        /\ \A p \in ActivePairs :
             LET policy == RoutePolicy(PairNN(p))
             IN  /\ policy.affinity = (cookie(p[1]) \/ duration(p[1]) # {})
                 /\ policy.timeout \in IF timeout(p[1]) = {} THEN {Unset} ELSE timeout(p[1])
                 /\ policy.duration \in
                      IF duration(p[1]) = {} THEN {Unset}
                      ELSE IF cookie(p[1]) THEN duration(p[1]) \union {Unset}
                      ELSE duration(p[1])

(* A route has a WAF policy, and it names the placeholder, exactly when one *)
(* of the two annotations enables it, whichever handler comes first.        *)
WAFAsDeclared ==
  Done /\ NamesAreUnique =>
    routeWAF = [nn \in {PairNN(p) : p \in {q \in ActivePairs :
                          \E k \in WAFKeys : Wants(q[1], k, {"true"})}} |-> WAFPlaceholder]

(* The listeners an Ingress hangs on through a host of its own.             *)
BoundListeners(nn) ==
  {ListenerName(h) : h \in {g \in ActiveHosts(nn) : DOMAIN TLSBinding(nn, g) # {}}}

(* The client verification of a listener shared by several Ingresses is that*)
(* of all of them together, with the CA certificate of the last Ingress, in *)
(* the order of names, that gives one, and none of their settings is lost.  *)
ClientVerificationAsDeclared ==
  Done =>
    LET asking(s, k) == {nn \in Ingresses : HasAnnotation(nn, k) /\ s \in BoundListeners(nn)}
        verifying(s) == {nn \in asking(s, "auth-tls-verify-client") :
                           AnnotationOf(nn, "auth-tls-verify-client") \in {"on", "optional"}}
        bound(s)     == asking(s, "auth-tls-secret")
        last(S)      == CHOOSE nn \in S : \A other \in S \ {nn} : NNLess(other, nn)
    IN  frontendTLS =
          [s \in {l \in UNION {BoundListeners(nn) : nn \in Ingresses} :
                    asking(l, "ssl-ciphers") \union verifying(l) \union bound(l) # {}} |->
             [type   |-> IF asking(s, "ssl-ciphers") # {} THEN "2023-06" ELSE "none",
              verify |-> verifying(s) \union bound(s) # {},
              ca     |-> IF bound(s) = {} THEN NoSecret
                         ELSE CASecret(last(bound(s)),
                                       AnnotationOf(last(bound(s)), "auth-tls-secret"))]]

-----------------------------------------------------------------------------
(* A statement of the repository that the code does not keep.               *)

(* README.md: permanent-redirect-code is the custom code of the permanent   *)
(* redirect.  Whatever the order of the handlers, an Ingress that gives a   *)
(* valid one, and no other redirect, has rules that redirect with it.       *)
PermanentRedirectCodeIsKept ==
  Done /\ NamesAreUnique =>
    \A p \in ActivePairs :
      /\ Wants(p[1], "permanent-redirect-code", ValidCodes("permanent-redirect-code"))
      /\ ~HasAnnotation(p[1], "temporal-redirect")
      /\ ~HasAnnotation(p[1], "temporal-redirect-code")
      /\ ~HasAnnotation(p[1], "from-to-www-redirect")
      => \A i \in DOMAIN DeclaredBackends(p[1], p[2]) :
           BackendRule(p, i).redirect.code = AnnotationOf(p[1], "permanent-redirect-code")
=============================================================================
