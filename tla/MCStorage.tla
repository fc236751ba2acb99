----------------------------- MODULE MCStorage -----------------------------
(* A small instance of Storage.  Commands on one key are issued on a only; *)
(* RENAME, COPY, MOVE and SWAPDB bring values to the other places.           *)
EXTENDS Reads

\* Keys, in the order of their names.
a == 1
b == 2
c == 3

MCKeys == {a, b, c}

Elements == {1, 2}

One == {<<e>> : e \in Elements}
OneOrTwo == One \cup {<<1, 2>>}
Sources == {<<a>>, <<a, b>>, <<b, a>>}
Bounds == {<<"unbounded">>, <<"included", 1>>, <<"excluded", 1>>}

OnKey == [op : {"pexpireat", "persist", "getdel", "incr", "decr", "lpop", "rpop"}, key : {a}]

OnStrings ==
    [op : {"set", "append"}, key : {a}, value : {<<>>, <<"1">>}]
      \cup [op : {"setnx", "getset"}, key : {a}, value : {<<"1">>}]
      \cup [op : {"setrange"}, key : {a}, offset : {0, 1}, value : {<<"0">>}]
      \cup [op : {"incrby", "decrby"}, key : {a}, by : {1, MinInt}]
      \cup [op : {"del"}, keys : {<<a>>, <<a, b>>}]
      \cup [op : {"mset", "msetex", "msetnx"}, pairs : {<< <<a, <<"1">> >>, <<b, <<"1">> >> >>}]

OnLists ==
    [op : {"lpush", "rpush", "lpushx", "rpushx"}, key : {a}, values : OneOrTwo]
      \cup [op : {"lpop_count", "rpop_count"}, key : {a}, count : {0, 2}]
      \cup [op : {"lrem"}, key : {a}, count : {-1, 0, 1}, value : Elements]
      \cup [op : {"ltrim"}, key : {a}, start : {-2, 1}, stop : {-1, 0}]
      \cup [op : {"linsert"}, key : {a}, before : BOOLEAN, pivot : Elements, value : {1}]
      \cup [op : {"lset"}, key : {a}, index : {-1, 0, 2}, value : {1}]

OnSets == [op : {"sadd", "srem"}, key : {a}, members : OneOrTwo]

OnHashes ==
    [op : {"hset", "hsetnx"}, key : {a}, field : Elements, value : {<<"1">>}]
      \cup [op : {"hmset"}, key : {a}, pairs : {<< <<1, <<"1">> >>, <<2, <<"0">> >> >>}]
      \cup [op : {"hsetex"}, key : {a}, mode : {"none", "nx", "xx"}, pairs : {<< <<1, <<"0">> >> >>}]
      \cup [op : {"hdel", "hgetdel"}, key : {a}, fields : OneOrTwo]
      \cup [op : {"hincrby"}, key : {a}, field : {1}, by : {1}]

OnZSets ==
    [op : {"zadd"}, key : {a}, scored : {<< <<s, e>> >> : s \in {1, 2}, e \in Elements},
     options : {{}, {"nx"}, {"xx"}, {"gt"}, {"lt"}, {"nx", "xx"}}]
      \cup [op : {"zrem"}, key : {a}, members : OneOrTwo]
      \cup [op : {"zpopmax", "zpopmin"}, key : {a}, count : {1, 2}]
      \cup [op : {"zremrangebyrank"}, key : {a}, start : {0, 1}, stop : {0, -1}]
      \cup [op : {"zremrangebyscore", "zremrangebylex"}, key : {a}, min : Bounds, max : {<<"included", 1>>}]
      \cup [op : {"zincrby"}, key : {a}, by : {1}, member : {1}]

OnPairs ==
    [op : {"rename", "renamenx", "rpoplpush"}, source : {a}, dest : Keys]
      \cup [op : {"copy"}, source : {a}, dest : Keys, replace : BOOLEAN]
      \cup [op : {"lmove"}, source : {a}, dest : {a, b}, fromLeft : BOOLEAN, toLeft : BOOLEAN]
      \cup [op : {"smove"}, source : {a}, dest : {a, b}, member : Elements]

Stores ==
    [op : {"sunionstore", "sinterstore", "sdiffstore", "zdiffstore"}, dest : {c}, sources : Sources]
      \cup [op : {"zunionstore", "zinterstore"}, dest : {c}, sources : {<<a, b>>, <<b, a>>},
            weights : {<<2>>}, aggregate : {"sum", "min", "max"}]
      \cup [op : {"zrangestore"}, dest : {b}, source : {a}, by : {"rank"}, min : {0}, max : {-1},
            rev : BOOLEAN, limit : {<<>>, <<1, 1>>}]
      \cup [op : {"zrangestore"}, dest : {b}, source : {a}, by : {"score", "lex"}, min : Bounds,
            max : {<<"unbounded">>}, rev : {FALSE}, limit : {<<>>}]

OnDatabases ==
    [op : {"move_key"}, key : Keys, target : Dbs]
      \cup [op : {"flushall", "flushdb"}]
      \cup [op : {"swapdb"}, db1 : {0}, db2 : Dbs]

MCCommands == UNION {OnKey, OnStrings, OnLists, OnSets, OnHashes, OnZSets, OnPairs, Stores, OnDatabases}
=============================================================================
