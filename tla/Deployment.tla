------------------------------ MODULE Deployment ------------------------------
(* From a configuration to a server: what deployment_config.py accepts, the   *)
(* settings and services tenant.py makes of it, and what the endpoints of     *)
(* app_builder.py do with them in src/docs_mcp_server.  What the services do  *)
(* once they run is in SchedulerService and GitExport.                        *)
EXTENDS Integers, Sequences, SequencesExt

CONSTANT NameSize       \* the longest codename (64 in the code)
ASSUME NameSizeAssumption == NameSize \in Nat /\ NameSize >= 2

(***************************************************************************)
(* What is accepted                                                        *)
(***************************************************************************)
\* A tenant of deployment.json.  root: docs_root_dir, "home" if it begins with
\* a tilde; urls: docs_sitemap_url and docs_entry_url, "blank" if what they
\* list is empty; schedule: refresh_schedule.
Payloads == [source : {"online", "filesystem", "git"}, root : {"none", "plain", "home"},
             repo : BOOLEAN, subpaths : {"none", "empty", "some"},
             urls : {"none", "blank", "some"}, schedule : {"none", "empty", "cron", "bad"},
             proxies : {"none", "empty", "own"}]

\* Its "infrastructure".
Infrastructures == [mode : {"online", "offline"}, fallback : BOOLEAN, endpoint : {"none", "blank", "a"},
                    url : {"none", "blank", "a", "b"}, proxies : {"empty", "shared"}]

\* The environment: OPERATION_MODE, the proxy variables, whether the CRAWLER_*
\* limits fit each other, and the fallback endpoints that answer.
Environments == [mode : {"none", "online", "offline", "odd"}, proxies : {"empty", "pool"},
                 limits : BOOLEAN, reachable : SUBSET {"a", "b"}]

\* Faulty: a list of URLs counts though all of them are blank.
NormalizedUnstripped(urls) == urls # "none"

\* _normalize_url_collection: whether a URL is left.
Normalized(urls) == urls = "some"

\* TenantConfig, with validate_discovery_urls and validate_refresh_schedule
AcceptedTenant(t) ==
    /\ t.source = "filesystem" => t.root # "none"
    /\ t.source = "git" => t.repo /\ t.subpaths = "some"
    /\ t.source = "online" => Normalized(t.urls)
    /\ t.subpaths # "empty" /\ t.schedule # "bad"

\* ArticleExtractorFallbackConfig and SharedInfraConfig
Given(x) == x \notin {"none", "blank"}
AcceptedInfra(infra) ==
    /\ infra.fallback => Given(infra.endpoint)
    /\ Given(infra.url) /\ Given(infra.endpoint) => infra.url = infra.endpoint

\* _apply_fallback_extractor_url
WithFallback(infra) ==
    IF ~Given(infra.url) THEN infra
    ELSE [infra EXCEPT !.fallback = TRUE, !.endpoint = IF Given(@) THEN @ ELSE infra.url]

\* from_json_file and _load_config: a configuration, nothing, or an exception.
Loaded(tenants, infra, env) ==
    LET given == [infra EXCEPT !.mode = IF env.mode = "none" THEN @ ELSE env.mode]
    IN  IF env.mode = "odd" THEN "raises"
        ELSE IF AcceptedInfra(given) /\ \A n \in DOMAIN tenants : AcceptedTenant(tenants[n])
             THEN "accepted" ELSE "refused"
Overridden(infra, env) == WithFallback([infra EXCEPT !.mode = IF env.mode = "none" THEN @ ELSE env.mode])

(***************************************************************************)
(* What is built of it                                                     *)
(***************************************************************************)
\* _build_settings, and _default_article_proxies of Settings.
Syncs(t, infra) == t.source = "online" /\ infra.mode = "online"
ArticleProxies(t, infra, env) ==
    LET asked == IF t.proxies = "none" THEN infra.proxies ELSE t.proxies
    IN  IF asked = "empty" THEN env.proxies ELSE asked

\* _check_docs_url, _validate_fallback_extractor
SettingsFit(t, infra, env) ==
    /\ Syncs(t, infra) => Given(t.urls)
    /\ env.limits
    /\ infra.fallback => infra.endpoint \in env.reachable

\* TenantApp and _build_scheduler_service
Builds(t, infra, env) == t.root # "none" /\ (t.source = "git" \/ SettingsFit(t, infra, env))
Enabled(t, infra) == infra.mode = "online" /\ t.source \in {"online", "git"}
Autostarts(t) == t.source \in {"online", "git"} /\ t.schedule # "none"

\* AppBuilder.build: an application, no application, or an exception.
Build(tenants, infra, env) ==
    LET loaded == Loaded(tenants, infra, env)
        final == Overridden(infra, env)
    IN  IF loaded = "accepted" /\ \A n \in DOMAIN tenants : Builds(tenants[n], final, env)
        THEN "serves" ELSE IF loaded = "refused" THEN "nothing" ELSE "raises"

\* Where the scheduler, the indexer and the translator of URLs look for the
\* documents of a tenant; where the search looks for its segments; and where a
\* stale lock of its clone is removed.
ScheduledIn(t) == IF t.root = "none" THEN "mcp-data" ELSE IF t.root = "home" THEN "of the user" ELSE "as given"
SearchedIn(t) == IF t.root = "none" THEN "nowhere" ELSE "as given"
UnlockedIn(t) == IF t.root = "none" THEN "/tmp/mcp_data" ELSE "as given"

(***************************************************************************)
(* What it answers.  s: a tenant's service, ready if initialized, busy if it   *)
(* runs what a request began; works: what it does in answering succeeds,   *)
(* or finds failed URLs to retry.                                          *)
(***************************************************************************)
\* initialize() of both services
CanInitialize(t, infra) == Enabled(t, infra) /\ (t.source = "git" \/ Given(t.urls))

\* TenantApp.initialize and the loop it leads to
Runs(t, infra, works) == Autostarts(t) /\ CanInitialize(t, infra) /\ works
FollowsCron(t, infra, works) == Runs(t, infra, works) /\ t.schedule = "cron"

Changing == {"sync", "retry", "purge", "index"}

\* The sync trigger: its status and how many cycles or exports it begins.
Triggered(t, infra, s, works) ==
    IF ~s.ready /\ ~(CanInitialize(t, infra) /\ works) THEN <<503, 0>>
    ELSE IF t.source = "git" THEN <<IF works THEN 200 ELSE 500, IF s.ready THEN 1 ELSE 2>>
    ELSE IF s.busy THEN <<500, 0>> ELSE <<200, 1>>

\* The retry, with its limit (at most 5000 count): a service of git has none.
Retried(t, s, limit, works) ==
    IF limit \in {"empty", "nonsense", "below"} THEN <<400, 0>>
    ELSE IF t.source = "git" \/ ~s.ready \/ s.busy THEN <<500, 0>> ELSE <<200, IF works THEN 1 ELSE 0>>

\* What a request may say of a number: parse_int_param takes it or refuses.
Numbers == {"absent", "empty", "nonsense", "below", "within", "above"}
Taken(number) == number \in {"absent", "empty", "within"}

\* The tenants on the dashboard: both services keep a database of events.
OnDashboard(t) == t.source \in {"online", "git"}
Shown(tenants) == {n \in DOMAIN tenants : OnDashboard(tenants[n])}

\* The dashboard, the page of a tenant, its events and their log.
Viewed(tenants, infra, op, name, query) ==
    IF infra.mode # "online" THEN 503
    ELSE IF op = "dashboard" THEN 200
    ELSE IF name \notin Shown(tenants) THEN 404
    ELSE CASE op = "page" -> 200
           [] op = "events" -> IF Taken(query.days) /\ Taken(query.limit) THEN 200 ELSE 400
           [] op = "logs" -> IF query.type # "unknown" /\ Taken(query.limit) THEN 200 ELSE 400

\* _resolve_online_tenant, _resolve_tenant and the endpoints
Answer(tenants, infra, op, name, s, limit, works) ==
    IF op \in Changing /\ infra.mode # "online" THEN <<503, 0>>
    ELSE IF name \notin DOMAIN tenants THEN <<404, 0>>
    ELSE LET t == tenants[name]
         IN  CASE op = "sync" -> Triggered(t, infra, s, works)
               [] op = "retry" -> Retried(t, s, limit, works)
               [] op = "purge" -> <<IF t.source # "git" THEN 200 ELSE 500, 0>>
               [] op = "index" -> <<IF works THEN 200 ELSE 500, 0>>
               [] op = "status" -> <<200, 0>>

(***************************************************************************)
(* Without deployment.json the name of the documentation makes a codename.  *)
(* Characters are letters "l", digits "d" and others "o".                  *)
(***************************************************************************)
Dashed(name) ==
    LET slug[k \in 0 .. Len(name)] ==
            IF k = 0 THEN << >>
            ELSE LET before == slug[k - 1]
                 IN  IF name[k] # "o" THEN Append(before, name[k])
                     ELSE IF before = << >> \/ Last(before) = "-" THEN before ELSE Append(before, "-")
    IN  slug[Len(name)]

\* _derive_env_tenant_codename
DerivedCodename(name) ==
    LET dashed == Dashed(name)
        slug == IF dashed # << >> /\ Last(dashed) = "-" THEN Front(dashed) ELSE dashed
        docs == <<"l", "l", "l", "l">>
        full == IF slug = << >> THEN docs
                ELSE IF slug[1] # "l" THEN docs \o <<"-">> \o slug
                ELSE IF Len(slug) = 1 THEN Append(slug, "l") ELSE slug
    IN  SubSeq(full, 1, IF Len(full) < NameSize THEN Len(full) ELSE NameSize)

\* _build_env_deployment_from_env: the tenant of the environment
EnvTenant(urls) == [source |-> "online", root |-> "none", repo |-> FALSE, subpaths |-> "none",
                    urls |-> urls, schedule |-> "none", proxies |-> "none"]

\* The pattern of TenantConfig.codename
AcceptedCodename(name) ==
    Len(name) \in 2 .. NameSize /\ name[1] = "l" /\ \A i \in DOMAIN name : name[i] # "o"

-----------------------------------------------------------------------------
Alone(t) == [n \in {"one"} |-> t]
PlainTenant == [source |-> "online", root |-> "plain", repo |-> FALSE, subpaths |-> "none",
                urls |-> "some", schedule |-> "cron", proxies |-> "none"]
Quiet == {i \in Infrastructures : ~i.fallback /\ i.endpoint = "none" /\ i.url = "none"}
Sound == {e \in Environments : e.limits /\ e.reachable = {} /\ e.mode = "none"}

\* No tenant that is accepted and has a directory keeps the server from being
\* built, whatever its source and mode, as long as the environment is sound.
AcceptedIsBuilt ==
    \A t \in Payloads : \A infra \in Quiet : \A env \in Sound :
       AcceptedTenant(t) /\ t.root # "none" => Build(Alone(t), infra, env) = "serves"

\* A server that runs has either no fallback or one that answered, and it is
\* the one asked for wherever it was asked for.
FallbackAnswers ==
    \A infra \in Infrastructures : \A env \in Environments :
       LET final == Overridden(infra, env)
       IN  Build(Alone(PlainTenant), infra, env) = "serves" =>
              /\ final.fallback => final.endpoint \in env.reachable
              /\ Given(infra.url) => final.fallback /\ final.endpoint = infra.url
              /\ infra.fallback => final.endpoint = infra.endpoint
              /\ final.mode \in {"online", "offline"}

\* Offline nothing begins a cycle or an export, by itself or on request, and
\* only the status is answered; online what a tenant starts by itself it could
\* also be asked for, and every valid cron schedule is followed; a request that
\* meets a crawl still running begins no second cycle, and none begins
\* anything for a tenant that only has files or for another tenant.
ModesAreKept ==
    \A t \in Payloads : \A infra \in Quiet : \A works \in BOOLEAN :
    \A op \in Changing \cup {"status"} : \A limit \in Numbers :
    \A s \in [ready : BOOLEAN, busy : BOOLEAN] :
       LET answer == Answer(Alone(t), infra, op, "one", s, limit, works)
       IN  AcceptedTenant(t) /\ (s.ready => CanInitialize(t, infra)) =>
              /\ infra.mode = "offline" => ~Runs(t, infra, works) /\ (op # "status" => answer = <<503, 0>>)
              /\ infra.mode = "online" /\ Autostarts(t) => CanInitialize(t, infra)
              /\ FollowsCron(t, infra, works) <=> /\ infra.mode = "online" /\ works
                                                  /\ t.schedule = "cron" /\ t.source # "filesystem"
              /\ t.source = "online" => answer[2] <= 1 /\ (s.ready /\ s.busy => answer[2] = 0)
              /\ t.source = "filesystem" => answer[2] = 0
              /\ answer[2] > 0 => op \in {"sync", "retry"} /\ CanInitialize(t, infra)
              /\ Answer(Alone(t), infra, op, "two", s, limit, works)[2] = 0

\* Every tenant that is listed on the dashboard can be looked at, with its
\* events and their log, and no other; and whatever a request can begin a cycle
\* or an export for is listed there.
BegunIsShown ==
    \A t \in Payloads : \A infra \in Quiet : \A works \in BOOLEAN : \A limit \in Numbers :
    \A s \in [ready : BOOLEAN, busy : BOOLEAN] :
       LET plain == [days |-> "absent", type |-> "absent", limit |-> "absent"]
           sees(op) == Viewed(Alone(t), infra, op, "one", plain)
       IN  AcceptedTenant(t) =>
              /\ infra.mode = "online" =>
                    \A op \in {"page", "events", "logs"} : sees(op) = IF "one" \in Shown(Alone(t)) THEN 200 ELSE 404
              /\ (s.ready => CanInitialize(t, infra)) =>
                    \A op \in Changing : Answer(Alone(t), infra, op, "one", s, limit, works)[2] > 0 =>
                       sees("events") = 200

\* What is written is what is searched, and the lock removed is of the clone in
\* use, for every tenant that is served from a directory without a tilde; the
\* proxies are those of the tenant before those of all before the environment.
PlacesAgree ==
    \A t \in Payloads : \A infra \in Quiet : \A env \in Sound :
       Build(Alone(t), infra, env) = "serves" =>
          /\ t.root = "plain" => ScheduledIn(t) = SearchedIn(t) /\ SearchedIn(t) = UnlockedIn(t)
          /\ ArticleProxies(t, infra, env) = "pool" => t.proxies # "own" /\ env.proxies = "pool"
          /\ t.proxies = "own" => ArticleProxies(t, infra, env) = "own"

\* Every name makes a codename that is accepted, as is the rest of the tenant
\* that an environment with URLs describes.
NamesMakeCodenames ==
    /\ \A n \in 0 .. NameSize + 1 : \A name \in [1 .. n -> {"l", "d", "o"}] :
          AcceptedCodename(DerivedCodename(name))
    /\ \A urls \in {"none", "blank", "some"} : Normalized(urls) => AcceptedTenant(EnvTenant(urls))

\* What the configuration accepts is built and served, by the modes and proxies
\* it names and in one place, except for the cases that each part excludes.
AcceptedIsServed ==
    AcceptedIsBuilt /\ FallbackAnswers /\ ModesAreKept /\ BegunIsShown /\ PlacesAgree
    /\ NamesMakeCodenames
===============================================================================
