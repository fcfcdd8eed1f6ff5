------------------------------- MODULE MCPlan -------------------------------
(***************************************************************************)
(* Two releases of a payments API and a repository that calls it.          *)
(***************************************************************************)
EXTENDS PlannerProperties

Charges == <<"v1", "charges">>
Item    == <<"v1", "charges", "{id}">>
Cancel  == <<"v1", "charges", "{id}", "cancel">>
Nested  == <<"v1", "accounts", "{id}", "charges">>

CreateCharge == <<"post", Charges>>
UpdateCharge == <<"post", Item>>
DeleteCharge == <<"delete", Item>>
CancelCharge == <<"post", Cancel>>
CreateNested == <<"post", Nested>>

MCKeys == {DeleteCharge, CreateNested, CreateCharge, UpdateCharge, CancelCharge}
MCRank == (DeleteCharge :> 1) @@ (CreateNested :> 2) @@ (CreateCharge :> 3)
          @@ (UpdateCharge :> 4) @@ (CancelCharge :> 5)
MCCanonical == (<<"charges", "create">> :> CreateCharge)
               @@ (<<"charges", "update">> :> CreateCharge)

Param(n, in, t, r) == [name |-> n, location |-> in, type |-> t, required |-> r]
Plain == [parameters |-> <<>>, body |-> "none", responses |-> 200 :> (<<"id">> :> "string")]

ParameterLists ==
    {<<>>,
     <<Param("amount", "query", "integer", TRUE)>>,
     <<Param("amount", "path", "integer", TRUE)>>,
     <<Param("amount", "query", "string", TRUE)>>,
     <<Param("amount", "query", "integer", FALSE)>>,
     <<Param("amount", "query", "integer", FALSE), Param("key", "header", "string", TRUE)>>,
     <<Param("amount", "query", "integer", TRUE), Param("amount", "header", "string", FALSE),
       Param("", "query", "any", TRUE)>>}
ResponseMaps ==
    {200 :> (<<"id">> :> "string"),
     (200 :> (<<"id">> :> "string")) @@ (400 :> (<<"id">> :> "string")),
     (200 :> (<<"id">> :> "string")) @@ (400 :> (<<"id">> :> "integer")),
     200 :> ((<<"card">> :> "object") @@ (<<"card", "last4">> :> "string")),
     200 :> ((<<"card">> :> "array") @@ (<<"card", "last4">> :> "string")),
     200 :> ((<<"card">> :> "string") @@ (<<"card", "last4">> :> "string"))}

\* The documents with one operation in detail, and those with several.
Detailed == {Charges :> ("post" :> [parameters |-> p, body |-> "none", responses |-> r]) :
                p \in ParameterLists, r \in ResponseMaps}
            \cup {Charges :> ("post" :> [Plain EXCEPT !.body = "amount"])}
PathsOf(keys) == {k[2] : k \in keys}
Assembled == {[p \in PathsOf(ks) |-> [m \in {k[1] : k \in {k \in ks : k[2] = p}} |-> Plain]] :
                 ks \in SUBSET MCKeys}
Garbled == <<"garbled">> :> [m \in {} |-> Plain]
MCDocuments == Detailed \cup Assembled \cup {Garbled}

MCConfig == [sdks |-> {"stripe"}, urls |-> {<<"api.stripe.com">>},
             methods |-> {<<"charges", "create">>, <<"charges", "update">>,
                          <<"charges", "cancel">>, <<"charges", "[", "op">>,
                          <<"charges", "request">>, <<"charges", "refund">>}]

\* Where a line has what it is about: one text of a kind each.
Columns == [found \in {"Import", "MethodCall", "UrlReference", "TypeReference", "Alias"}
                      \X (MCConfig.methods \cup MCConfig.urls \cup {<<"stripe">>, <<"pay">>}) |->
              IF found[1] = "MethodCall" THEN 5 ELSE 1]
Blank == [comment |-> FALSE, imports |-> {}, types |-> {}, methods |-> {}, urls |-> {},
          bind |-> <<>>, uses |-> {}, column |-> Columns]
ImportLine == [Blank EXCEPT !.imports = {"stripe"}, !.bind = <<"pay", "stripe">>]
Call(chain) == [Blank EXCEPT !.methods = {chain}]
Second == {Call(chain) : chain \in MCConfig.methods}
          \cup {[Call(<<"charges", "create">>) EXCEPT !.comment = TRUE],
                [Blank EXCEPT !.types = {"stripe"}],
                [Blank EXCEPT !.uses = {"pay"}],
                [Blank EXCEPT !.urls = {<<"api.stripe.com">>}]}
File(ls) == [skipped |-> FALSE, readable |-> TRUE, lines |-> ls]
MCRepositories ==
    {"billing" :> File(<<ImportLine, l>>) : l \in Second}
    \cup {("billing" :> File(<<Call(<<"charges", "create">>)>>))
          @@ ("refunds" :> File(<<Call(<<"charges", "create">>),
                                   Call(<<"charges", "update">>)>>))
          @@ ("vendor" :> [File(<<Call(<<"charges", "create">>)>>)
                              EXCEPT !.skipped = TRUE])}
=============================================================================
