---------------------------- MODULE MCMcpServer ----------------------------
(* Instances of McpServer for TLC. *)
EXTENDS McpServer

Plain(i, kind) == [id |-> i, kind |-> kind, steps |-> <<>>]
CallOf(i, steps) == [id |-> i, kind |-> "call", steps |-> steps]
Do(tool) == [tool |-> tool, id |-> NoKey, ref |-> NoKey, field |-> "result"]
As(id, tool) == [tool |-> tool, id |-> id, ref |-> NoKey, field |-> "result"]
With(ref, field, tool) == [tool |-> tool, id |-> NoKey, ref |-> ref, field |-> field]

(* Every kind of line, with calls between them; a composition that calls,     *)
(* asks about a hub and uses a channel, gives an id twice, names it in        *)
(* templates and has a failing credential in the middle; and a call whose     *)
(* templates name an id of the call before and an index of its own, with a    *)
(* step without a tool.                                                       *)
Lines ==
    << Plain(1, "initialize"), Plain(0, "initialized"), Plain(2, "list"),
       CallOf(3, <<Do("channels")>>), Plain(4, "garbage"), Plain(5, "unknown"),
       Plain(0, "unknown"), CallOf(6, <<Do("http")>>), Plain(7, "badparams"),
       Plain(8, "ping"), Plain(9, "badrecipe") >>

Composition ==
    << CallOf(1, <<As("x", "http"), Do("badauth"), With("x", "present", "bidi"), As("x", "hub"),
                   With("x", "result", "http"), Do("transports"), Do("session")>>) >>

TwoCalls ==
    << CallOf(1, <<As("x", "http"), Do("bidi")>>),
       CallOf(2, <<With("x", "present", "bidi"), Do("unknown"), Do("badbidi"),
                   With("0", "absent", "http"), With("1", "result", "http"), Do("none"),
                   Do("http")>>) >>

Sessions == {Lines, Composition, TwoCalls}

Ports == <<"4445", "4446">>
=============================================================================
