------------------------- MODULE MCPublishingStrategy -------------------------
(* Small instances of PublishingStrategy for TLC.                           *)
EXTENDS PublishingStrategy, TLC

MCNames == {"default", "apps2"}

\* apps, web and apps2 (with its variant apps2b) are under the base domain;
\* alien is not.  The first label of apps2 and apps2b is the same.
MCDomains == {"apps", "web", "apps2", "apps2b", "alien"}
MCIngressName ==
    [d \in MCDomains |-> IF d \in {"apps2", "apps2b"} THEN "apps2" ELSE "default"]
MCBaseDomain == MCDomains \ {"alien"}

Entry(default, domain, listening, certificate) ==
    [default |-> default, dnsName |-> domain, listening |-> listening,
     certificate |-> certificate, routeSelector |-> "none", type |-> ""]

Default(domain, listening, cert) == Entry(TRUE, domain, listening, cert)
Second(domain, listening, cert) == Entry(FALSE, domain, listening, cert)

\* The default moved to another domain, and an empty list: with Minor = 13 and two
\* edits the handover takes the finalizer off that HandshakeArmed is about.
DomainStrategies ==
    {<<>>, <<Default("apps", "external", "c1")>>, <<Default("web", "external", "c1")>>}

\* The default moves to another domain and changes its scope and its certificate, and a
\* second ingress comes and goes.
UpdateStrategies ==
    {<<Default("apps", "external", "c1"), Second("apps2", "internal", "c1")>>,
     <<Default("web", "internal", "c2")>>}

\* The default is taken off the list and put back, beside a second ingress that stays; a
\* default that is refused.
HandoverStrategies ==
    {<<Second("apps2", "internal", "c1")>>,
     <<Default("apps", "internal", "c1"), Second("apps2", "internal", "c1")>>,
     <<Default("alien", "external", "c1")>>}

\* Everything is taken off the list: the default is handed over.
EmptiedStrategies ==
    {<<>>, <<Default("apps", "external", "c1"), Second("apps2", "external", "c1")>>}

\* The domain of the second ingress changes, its name does not.
SecondStrategies ==
    {<<Default("apps", "external", "c1"), Second("apps2", "external", "c1")>>,
     <<Default("apps", "external", "c1"), Second("apps2b", "external", "c1")>>}
===============================================================================
