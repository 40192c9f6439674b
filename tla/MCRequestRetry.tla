---------------------------- MODULE MCRequestRetry ----------------------------
\* The real limits: three attempts, a cap of 120 seconds.
EXTENDS RequestRetry

Header(f, v) == [form |-> f, value |-> v]
MCStatuses == {200, 204, 302, 404, 429, 501, 503}
MCHeaders ==
    {Header(f, 0) : f \in {"nan", "date", "absent"}}
        \cup {Header("number", v) : v \in {-2, 0, 3, 240, 600}}
=============================================================================
