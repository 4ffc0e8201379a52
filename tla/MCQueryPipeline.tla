--------------------------- MODULE MCQueryPipeline ---------------------------
(* No service, some, one twice, and one the schema does not know.          *)
EXTENDS QueryPipeline

MCServiceLists == {<<>>, <<"gmail", "gcal">>, <<"gcal", "gcal">>, <<"unknown", "gmail">>}
=============================================================================
