----------------------------- MODULE MCMcpServers -----------------------------
(* Three services; the names of the first two collide in a tool.            *)
EXTENDS McpServers

MCServices == << <<"a">>, <<"a", "b">>, <<"c">> >>
MCToolNames == {<<"t">>, <<"b", "t">>}
===============================================================================
