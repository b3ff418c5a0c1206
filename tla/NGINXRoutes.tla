------------------------------ MODULE NGINXRoutes ------------------------------
(***************************************************************************)
(* The NGINX handlers that change the rules or hostnames of the current    *)
(* route: redirects, rewrites, headers, canaries and aliases, and the two  *)
(* that install the HTTPS redirect route.  All of them go over the rules   *)
(* the route has so far, those of earlier passes and the redirect rules    *)
(* app-root has put in front included.                                     *)
(*                                                                         *)
(* A redirect URL is a record: whether it is empty, does not parse or is a *)
(* URL, and its parts, "none" for a part it lacks.  A rewrite target is    *)
(* its text, whether that refers to capture groups, and what stays of it   *)
(* without them.  A canary weight that does not parse is -1, a total 0.    *)
(***************************************************************************)
EXTENDS ResourceGraph

CONSTANTS
  RegexPaths,    \* the paths with a regex metacharacter
  PrefixOf(_),   \* what precedes the first metacharacter of such a path, or "/"
  WWWHosts,      \* the hosts that begin with "www."
  WWWName(_)     \* "www." put before a host

(* No host at all does not begin with "www.".                               *)
ASSUME WWWHostsAssumption == AnyHost \notin WWWHosts

(* The root has no metacharacter, and none is left of a path that has been  *)
(* cut before the first one; a host name is not the mark of an absent one.  *)
ASSUME RegexAssumption ==
  "/" \notin RegexPaths /\ \A path \in RegexPaths : PrefixOf(path) \notin RegexPaths

ASSUME WWWNameAssumption ==
  \A in \in Inputs : \A nn \in DOMAIN in.ings : \A i \in DOMAIN in.ings[nn].rules :
    WWWName(in.ings[nn].rules[i].host) # "none"

(* A handler that touches nothing but its annotation.                       *)
Notice(k, a, err) ==
  /\ Take(k)
  /\ Finish(k, a, err)
  /\ UNCHANGED <<graphVars, policyVars>>

(* InsertOrModifyHTTPRouteFilter and the loops like it: the handler of k    *)
(* leaves the current route with these rules.                               *)
RewriteRules(k, rules, a) ==
  /\ Take(k)
  /\ ModifyRules(rules)
  /\ Finish(k, a, FALSE)
  /\ UNCHANGED <<graphRoutes, http, https, grants, redirect, policyVars>>

Succeeded(k) == SetStatus(Anno(k), Completed)
Rejected(k)  == RegisterIssue(Anno(k), "InvalidAnnotationValue")

-----------------------------------------------------------------------------
(* Redirects.                                                                *)

RedirectKeys     == {"permanent-redirect", "temporal-redirect"}
RedirectCodeKeys == {"permanent-redirect-code", "temporal-redirect-code"}

ValidCodes(k) ==
  IF k = "permanent-redirect-code" THEN {"301", "308"} ELSE {"302", "303", "307"}

(* The redirect filter of rule r with the parts of url that are there.      *)
Redirected(r, code, url) ==
  LET part(new, old) == IF new = "none" THEN old ELSE new
  IN  [r EXCEPT !.redirect =
         [code |-> code, scheme |-> part(url.scheme, @.scheme), host |-> part(url.host, @.host),
          port |-> part(url.port, @.port), path |-> part(url.path, @.path)]]

EmptyRedirectURL(k) ==
  /\ k \in RedirectKeys
  /\ Take(k)
  /\ Value(k).kind = "empty"
  /\ Notice(k, SetStatus(Anno(k), Ignored), FALSE)

InvalidRedirectURL(k) ==
  /\ k \in RedirectKeys
  /\ Take(k)
  /\ Value(k).kind = "invalid"
  /\ Notice(k, SetStatus(RegisterIssue(Anno(k), "NGINXRedirectURLInvalid"), NotSupported), FALSE)

(* Seeded fault: only the first rule of the route is redirected.            *)
handlePermanentRedirectFirstRule ==
  LET k == "permanent-redirect"  rules == ThisRoute.rules IN
  /\ Take(k)
  /\ Value(k).kind = "url"
  /\ RewriteRules(k, [i \in DOMAIN rules |-> IF i = 1 THEN Redirected(rules[i], "301", Value(k))
                                             ELSE rules[i]], Succeeded(k))

handlePermanentRedirect ==
  LET k == "permanent-redirect"  rules == ThisRoute.rules IN
  /\ Take(k)
  /\ Value(k).kind = "url"
  /\ RewriteRules(k, [i \in DOMAIN rules |-> Redirected(rules[i], "301", Value(k))], Succeeded(k))

handleTemporalRedirect ==
  LET k == "temporal-redirect"  rules == ThisRoute.rules IN
  /\ Take(k)
  /\ Value(k).kind = "url"
  /\ RewriteRules(k, [i \in DOMAIN rules |-> Redirected(rules[i], "302", Value(k))], Succeeded(k))

EmptyRedirectCode(k) ==
  /\ k \in RedirectCodeKeys
  /\ Take(k)
  /\ Value(k) = Unset
  /\ Notice(k, SetStatus(Anno(k), Ignored), FALSE)

InvalidRedirectCode(k) ==
  /\ k \in RedirectCodeKeys
  /\ Take(k)
  /\ Value(k) \notin ValidCodes(k) \union {Unset}
  /\ Notice(k, SetStatus(RegisterIssue(Anno(k), "NGINXRedirectCodeInvalid"), NotSupported), FALSE)

handlePermanentRedirectCode ==
  LET k == "permanent-redirect-code"  rules == ThisRoute.rules IN
  /\ Take(k)
  /\ Value(k) \in ValidCodes(k)
  /\ RewriteRules(k, [i \in DOMAIN rules |-> [rules[i] EXCEPT !.redirect.code = Value(k)]],
                  Succeeded(k))

handleTemporalRedirectCode ==
  LET k == "temporal-redirect-code"  rules == ThisRoute.rules IN
  /\ Take(k)
  /\ Value(k) \in ValidCodes(k)
  /\ RewriteRules(k, [i \in DOMAIN rules |-> [rules[i] EXCEPT !.redirect.code = Value(k)]],
                  Succeeded(k))

(* The host is that of the first rule of the Ingress, not of the route.     *)
FirstHost == This.rules[1].host

NoWWWRedirect ==
  LET k == "from-to-www-redirect" IN
  /\ Take(k)
  /\ \/ /\ Value(k) # "true" \/ FirstHost \in WWWHosts
        /\ Notice(k, SetStatus(Anno(k), Ignored), FALSE)
     \/ /\ Value(k) = "true" /\ FirstHost = AnyHost
        /\ Notice(k, SetStatus(RegisterIssue(Anno(k), "NGINXFromToWWWRedirectNoHost"),
                               NotSupported), FALSE)

handleFromToWWWRedirect ==
  LET k == "from-to-www-redirect"  rules == ThisRoute.rules IN
  /\ Take(k)
  /\ Value(k) = "true"
  /\ FirstHost \notin WWWHosts \union {AnyHost}
  /\ RewriteRules(k, [i \in DOMAIN rules |-> [rules[i] EXCEPT !.redirect.code = "301",
                                                              !.redirect.host = WWWName(FirstHost)]],
                  SetStatus(RegisterIssue(Anno(k), "NGINXFromToWWWRedirectPartial"), Warning))

-----------------------------------------------------------------------------
(* The HTTPS redirect route.                                                 *)

SSLRedirectKeys == {"ssl-redirect", "force-ssl-redirect"}

InvalidSSLRedirect(k) ==
  /\ k \in SSLRedirectKeys
  /\ Take(k)
  /\ Value(k) = Invalid
  /\ Notice(k, SetStatus(Rejected(k), Error), TRUE)

DisabledSSLRedirect(k) ==
  /\ k \in SSLRedirectKeys
  /\ Take(k)
  /\ Value(k) = "false"
  /\ Notice(k, SetStatus(Anno(k), IF k = "ssl-redirect" THEN Ignored ELSE Completed), FALSE)

RepeatedSSLRedirect(k) ==
  /\ k \in SSLRedirectKeys
  /\ Take(k)
  /\ Value(k) = "true"
  /\ redirect
  /\ Notice(k, Succeeded(k), FALSE)

(* Seeded fault: the redirect route is built without its listener.          *)
handleSSLRedirectNoListener(k) ==
  /\ k \in SSLRedirectKeys
  /\ Take(k)
  /\ Value(k) = "true"
  /\ ~redirect
  /\ redirect' = TRUE
  /\ routes' = InsertAt(routes, RedirectId, RedirectRoute)
  /\ graphRoutes' = InsertAt(graphRoutes, RedirectNN, RedirectId)
  /\ Finish(k, AddDestination(Anno(k), Resource("HTTPRoute", RedirectNN)), FALSE)
  /\ UNCHANGED <<http, https, grants, policyVars>>

(* force-ssl-redirect hands over to ssl-redirect.                           *)
handleSSLRedirect(k) ==
  /\ k \in SSLRedirectKeys
  /\ Take(k)
  /\ Value(k) = "true"
  /\ ~redirect
  /\ http' = TRUE
  /\ redirect' = TRUE
  /\ routes' = InsertAt(routes, RedirectId, RedirectRoute)
  /\ graphRoutes' = InsertAt(graphRoutes, RedirectNN, RedirectId)
  /\ Finish(k, AddDestination(Anno(k), Resource("HTTPRoute", RedirectNN)), FALSE)
  /\ UNCHANGED <<https, grants, policyVars>>

-----------------------------------------------------------------------------
(* Rewrites, headers and aliases.                                            *)

(* Seeded fault: a path counts as a regex when its match has that type.     *)
IsRegexByType(r) == r.match = "RegularExpression"

IsRegex(r) == r.path \in RegexPaths

(* The rewrite of one rule: a target with capture groups is for regex paths *)
(* only, and leaves its static part; a regex path becomes its prefix.       *)
Rewritten(r, target) ==
  LET replaced == [r EXCEPT !.rewrite.type = "prefix",
                            !.rewrite.prefix = IF target.groups THEN target.static
                                               ELSE target.path]
  IN  IF IsRegex(r) THEN [replaced EXCEPT !.path = PrefixOf(@), !.match = "PathPrefix"]
      ELSE IF target.groups THEN r
      ELSE replaced

handleRewriteTarget ==
  LET k == "rewrite-target"  rules == ThisRoute.rules IN
  /\ Take(k)
  /\ RewriteRules(k, [i \in DOMAIN rules |-> Rewritten(rules[i], Value(k))],
       IF Value(k).groups
         THEN SetStatus(RegisterIssue(Anno(k), "NGINXRewriteTargetCaptureGroups"), Warning)
         ELSE Succeeded(k))

UnusedRegex ==
  LET k == "use-regex" IN
  /\ Take(k)
  /\ \/ Value(k) = Invalid /\ Notice(k, Rejected(k), TRUE)
     \/ Value(k) = "false" /\ Notice(k, Succeeded(k), FALSE)

(* The type of every match changes, also of one that app-root or            *)
(* rewrite-target has made; the path stays.                                 *)
handleUseRegex ==
  LET k == "use-regex"  rules == ThisRoute.rules IN
  /\ Take(k)
  /\ Value(k) = "true"
  /\ RewriteRules(k, [i \in DOMAIN rules |-> [rules[i] EXCEPT !.match = "RegularExpression"]],
                  SetStatus(RegisterIssue(Anno(k), "NGINXUseRegexLimitedSupport"), Warning))

RootRedirectRule(target) ==
  [HTTPRouteRule([svc |-> NoService, port |-> 0, path |-> "/", type |-> "Exact"])
     EXCEPT !.redirect = [NoRedirect EXCEPT !.code = "302", !.path = target]]

(* Seeded fault: the redirect rule goes behind the others.                  *)
handleAppRootBehind ==
  LET k == "app-root" IN
  /\ Take(k)
  /\ RewriteRules(k, ThisRoute.rules \o <<RootRedirectRule(Value(k))>>, Succeeded(k))

handleAppRoot ==
  LET k == "app-root" IN
  /\ Take(k)
  /\ RewriteRules(k, <<RootRedirectRule(Value(k))>> \o ThisRoute.rules, Succeeded(k))

EmptyUpstreamVhost ==
  LET k == "upstream-vhost" IN
  /\ Take(k)
  /\ Value(k) = Unset
  /\ Notice(k, SetStatus(Anno(k), Ignored), FALSE)

(* The host of the URLRewrite filter.                                       *)
handleUpstreamVhost ==
  LET k == "upstream-vhost"  rules == ThisRoute.rules IN
  /\ Take(k)
  /\ Value(k) # Unset
  /\ RewriteRules(k, [i \in DOMAIN rules |-> [rules[i] EXCEPT !.rewrite.host = Value(k)]],
                  Succeeded(k))

(* Set of the RequestHeaderModifier grows; it may name a header twice.      *)
handleXForwardedPrefix ==
  LET k      == "x-forwarded-prefix"
      rules  == ThisRoute.rules
      header == [action |-> "set", name |-> "X-Forwarded-Prefix", value |-> Value(k)]
  IN
  /\ Take(k)
  /\ RewriteRules(k, [i \in DOMAIN rules |-> [rules[i] EXCEPT !.headers = Append(@, header)]],
                  Succeeded(k))

handleConnectionProxyHeader ==
  LET k      == "connection-proxy-header"
      rules  == ThisRoute.rules
      header == [action |-> "set", name |-> "Connection", value |-> Value(k)]
  IN
  /\ Take(k)
  /\ RewriteRules(k, [i \in DOMAIN rules |-> [rules[i] EXCEPT !.headers = Append(@, header)]],
                  Succeeded(k))

handleServerAlias ==
  LET k == "server-alias" IN
  /\ Take(k)
  /\ routes' = [routes EXCEPT ![ThisRouteId].hostnames = @ \o Value(k)]
  /\ Finish(k, Succeeded(k), FALSE)
  /\ UNCHANGED <<graphRoutes, http, https, grants, redirect, policyVars>>

-----------------------------------------------------------------------------
(* Canaries.                                                                 *)

AnnotationOr(k, default) == IF k \in DOMAIN This.annos THEN This.annos[k] ELSE default

(* Seeded fault: the total is always the default.                           *)
WeightTotalDefault == 100

WeightTotal == AnnotationOr("canary-weight-total", 100)

ValidWeight(weight, total) == weight >= 0 /\ total > 0 /\ weight <= total

(* An error without issue or status.                                        *)
InvalidCanaryWeight ==
  LET k == "canary-weight" IN
  /\ Take(k)
  /\ ~ValidWeight(Value(k), WeightTotal)
  /\ Notice(k, Anno(k), TRUE)

handleCanaryWeight ==
  LET k == "canary-weight"  rules == ThisRoute.rules IN
  /\ Take(k)
  /\ ValidWeight(Value(k), WeightTotal)
  /\ RewriteRules(k, [i \in DOMAIN rules |-> IF rules[i].svc = NoService THEN rules[i]
                                             ELSE [rules[i] EXCEPT !.weight = Value(k)]],
                  SetStatus(RegisterIssue(Anno(k), "NGINXCanaryWeightRequiresManualMerge"), Warning))

(* The match the three by-header annotations of an Ingress make: a pattern  *)
(* wins over a value, and without either anything but "never" matches.      *)
CanaryPattern == AnnotationOr("canary-by-header-pattern", Unset)
CanaryValue   == AnnotationOr("canary-by-header-value", Unset)

CanaryMatch ==
  LET name == Value("canary-by-header") IN
  IF CanaryPattern # Unset THEN [type |-> "RegularExpression", name |-> name, value |-> CanaryPattern]
  ELSE IF CanaryValue # Unset THEN [type |-> "Exact", name |-> name, value |-> CanaryValue]
  ELSE [type |-> "RegularExpression", name |-> name, value |-> "not never"]

InvalidCanaryHeader ==
  LET k == "canary-by-header" IN
  /\ Take(k)
  /\ Value(k) = Unset \/ CanaryPattern = Invalid
  /\ Notice(k, Anno(k), TRUE)

handleCanaryByHeader ==
  LET k == "canary-by-header"  rules == ThisRoute.rules IN
  /\ Take(k)
  /\ Value(k) # Unset /\ CanaryPattern # Invalid
  /\ RewriteRules(k, [i \in DOMAIN rules |->
                        [rules[i] EXCEPT !.headerMatches = Append(@, CanaryMatch)]],
       IF CanaryPattern = Unset /\ CanaryValue = Unset
         THEN SetStatus(RegisterIssue(Anno(k), "NGINXCanaryHeaderApproximated"), Completed)
         ELSE Succeeded(k))

(* The other canary annotations are read by these two handlers.             *)
ReadElsewhere ==
  { "canary", "canary-weight-total", "canary-by-header-value", "canary-by-header-pattern" }

handleReadElsewhere(k) ==
  /\ k \in ReadElsewhere
  /\ Notice(k, Succeeded(k), FALSE)

-----------------------------------------------------------------------------

RouteHandler ==
  \/ \E k \in pending : EmptyRedirectURL(k)
  \/ \E k \in pending : InvalidRedirectURL(k)
  \/ handlePermanentRedirect
  \/ handleTemporalRedirect
  \/ \E k \in pending : EmptyRedirectCode(k)
  \/ \E k \in pending : InvalidRedirectCode(k)
  \/ handlePermanentRedirectCode
  \/ handleTemporalRedirectCode
  \/ NoWWWRedirect
  \/ handleFromToWWWRedirect
  \/ \E k \in pending : InvalidSSLRedirect(k)
  \/ \E k \in pending : DisabledSSLRedirect(k)
  \/ \E k \in pending : RepeatedSSLRedirect(k)
  \/ \E k \in pending : handleSSLRedirect(k)
  \/ handleRewriteTarget
  \/ UnusedRegex
  \/ handleUseRegex
  \/ handleAppRoot
  \/ EmptyUpstreamVhost
  \/ handleUpstreamVhost
  \/ handleXForwardedPrefix
  \/ handleConnectionProxyHeader
  \/ handleServerAlias
  \/ InvalidCanaryWeight
  \/ handleCanaryWeight
  \/ InvalidCanaryHeader
  \/ handleCanaryByHeader
  \/ \E k \in pending : handleReadElsewhere(k)
=============================================================================
