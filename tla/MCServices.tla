----------------------------- MODULE MCServices -----------------------------
(***************************************************************************)
(* Repositories of two files, one of them client code; workflows of up to  *)
(* three steps; replays with every way their commands can end.             *)
(***************************************************************************)
EXTENDS Services, TLC

Provider(name, packages, urls, methods, deadline) ==
    [name |-> name, packages |-> packages, urls |-> urls, methods |-> methods, deadline |-> deadline]
\* Four of builtin_providers, with the pattern two of them share.
MCProviders ==
    <<Provider("Stripe", <<"stripe", "@stripe/stripe-node">>, {<<"api.stripe.com">>},
               {<<"charges", "create">>, <<"refunds", "create">>}, FALSE),
      Provider("Anthropic", <<"anthropic">>, {<<"api.anthropic.com">>}, {<<"messages", "create">>}, FALSE),
      Provider("Twilio", <<"twilio">>, {<<"api.twilio.com">>},
               {<<"messages", "create">>, <<"calls", "create">>}, TRUE),
      Provider("GitHub", <<"octokit">>, {<<"api.github.com">>}, {}, FALSE)>>

\* Where a line has what it is about: an alias before the method called on it.
Columns(texts) ==
    [found \in {"Import", "MethodCall", "UrlReference", "TypeReference", "Alias"} \X texts |->
        CASE found[1] = "Alias" -> 1 [] found[1] = "MethodCall" -> 5 [] found[1] = "TypeReference" -> 9
          [] found[1] = "Import" -> 17 [] found[1] = "UrlReference" -> 8]
Texts == {<<"stripe">>, <<"twilio">>, <<"pay">>, <<"charges", "create">>, <<"messages", "create">>,
          <<"calls", "create">>, <<"api.github.com">>, <<"api.stripe.com">>}
Blank == [comment |-> FALSE, imports |-> {}, types |-> {}, methods |-> {}, urls |-> {},
          bind |-> <<>>, uses |-> {}, column |-> Columns(Texts)]
BindStripe == [Blank EXCEPT !.imports = {"stripe"}, !.bind = <<"pay", "stripe">>]
BindTwilio == [Blank EXCEPT !.imports = {"twilio"}, !.bind = <<"pay", "twilio">>]
Use == [Blank EXCEPT !.uses = {"pay"}]
Lines == {BindStripe, Use,
          [Blank EXCEPT !.methods = {<<"charges", "create">>}],
          [Blank EXCEPT !.methods = {<<"messages", "create">>}],
          [Blank EXCEPT !.methods = {<<"calls", "create">>}, !.types = {"twilio"}],
          [Blank EXCEPT !.urls = {<<"api.github.com">>}],
          [Blank EXCEPT !.comment = TRUE, !.methods = {<<"charges", "create">>},
                        !.urls = {<<"api.stripe.com">>}]}
\* The last: an alias that is bound to the SDKs of two providers.
Sources == {<<>>} \cup {<<l>> : l \in Lines} \cup {<<l, m>> : l, m \in Lines}
           \cup {<<BindStripe, BindTwilio, Use>>}
File(lines, wrapper) == [skipped |-> FALSE, readable |-> TRUE, wrapper |-> wrapper, lines |-> lines]
Repos == {("app.ts" :> File(s, FALSE)) @@ ("lib/client.ts" :> File(t, TRUE)) :
             s \in Sources, t \in {<<>>} \cup {<<l>> : l \in Lines}}
Range1 == [prefix |-> "^", version |-> "12.0"]
Dirs == {[lockfiles |-> {}, manifests |-> {}, unreadable |-> {}, declared |-> <<>>, locked |-> <<>>]}
        \cup {[lockfiles |-> {"yarn.lock", "package-lock.json"}, manifests |-> {"package.json"},
          unreadable |-> u, declared |-> "stripe" :> Range1, locked |-> "stripe" :> "12.4"] : u \in {{}, {"yarn.lock"}}}
MCAudited == {[repo |-> r, dir |-> d] : r \in Repos, d \in Dirs}

Step(name, depends_on) == [name |-> name, depends_on |-> depends_on]
Asked == {<<>>} \cup {<<d>> : d \in 1..4} \cup {<<d, e>> : d, e \in 1..3}
Chains == {<<Step(1, p), Step(2, q), Step(3, r)>> : p, q, r \in Asked}
MCWorkflows == {<<>>} \cup Chains
               \cup {<<Step(n, p), Step(m, q)>> : n, m \in 1..2, p, q \in Asked}

Added == {<<>>, <<"fix">>, <<"fix", "other">>, <<"other", "fix", "else">>}
MCReplays == {[placeholder |-> p, verified |-> v, unintended |-> u, files |-> f, koyote |-> d, human |-> h] :
                 p, v \in BOOLEAN, u \in 0..1, f \in 0..1, d \in Added, h \in {<<>>, <<"fix">>}}
MCResembles(l, m) == l = m
=============================================================================
