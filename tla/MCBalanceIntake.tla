--------------------------- MODULE MCBalanceIntake ---------------------------
(***************************************************************************)
(* Small instance: a portal with and one without an intake key, two portal *)
(* groups, one request of each kind, and deliveries that break each rule.  *)
(***************************************************************************)
EXTENDS BalanceIntake

Secret(text, length, plain) == [text |-> text, length |-> length, plain |-> plain]
Read(root, jwt, key) ==
    [root |-> root, admin |-> "fo-admin", viewer |-> "fo-viewer", jwt |-> jwt, key |-> key]

MCSettings ==
    {Read(<<>>, Secret("s", 2, TRUE), NoKey),
     Read(<<"portal">>, Secret("s", 2, TRUE), Secret("k", 2, TRUE)),
     Read(<<>>, Secret("s", 1, TRUE), NoKey),                     \* refused: short
     Read(<<>>, Secret("s", 2, TRUE), Secret("s", 2, TRUE))}      \* refused: reused

Call(type, method, path) == [type |-> type, method |-> method, path |-> path]
MCCalls ==
    {Call("http", "GET", <<"health">>), Call("http", "GET", <<"finances">>),
     Call("http", "GET", <<"admin", "refresh-status">>),
     Call("http", "POST", <<"api", "v1", "balances">>),
     Call("websocket", "GET", <<"finances">>)}

Row(id, provider, reconciled) ==
    [id |-> id, provider |-> provider, sound |-> TRUE, asOf |-> 1, reconciled |-> reconciled]
Delivery(items, total) == [items |-> items, total |-> total]
Post(key, declared, content) == [key |-> key, declared |-> declared, content |-> content]

Good == Delivery(<<Row("x", "xero", 1)>>, 1)
MCPosts ==
    {Post("k", NoLength, Good), Post("k", 3, Good), Post("x", 3, Good),
     Post("k", NotInt, Good),
     Post(Blank, NoLength, Good), Post("k", NoLength, Garbage),
     Post("k", NoLength, Delivery(<<Row("x", "pp", 1)>>, 1)),
     Post("k", NoLength, Delivery(<<Row("x", "pp", 0), Row("x", "pp", 0)>>, 2)),
     Post("k", NoLength, Delivery(<<Row("x", "pp", 0)>>, 2))}
=============================================================================
