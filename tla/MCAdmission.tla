----------------------------- MODULE MCAdmission -----------------------------
(***************************************************************************)
(* Admission, instantiated for TLC: one user with two keys, one of them    *)
(* attributed to a project, and a second user the declarative rule admits. *)
(***************************************************************************)
EXTENDS Admission, TLC

CONSTANTS r1, r2, r3, u1, u2, k1, k2, p1, s1, m1, m2, a1

Who(user, key, project, model, kind, stream, session) ==
    [user |-> user, key |-> key, project |-> project, model |-> model, kind |-> kind,
     stream |-> stream, session |-> session, tokens |-> 1]

MCNames == {u1, u2, k1, k2, p1}

\* Two chats of one session, streamed and plain, and a call with another key.
MCProfile == r1 :> Who(u1, k1, p1, m1, "chat", TRUE, {s1})
          @@ r2 :> Who(u1, k1, p1, m1, "chat", FALSE, {s1})
          @@ r3 :> Who(u1, k2, k2, m2, "other", FALSE, {})

Row(id, kind, of, window, usd, tokens, rpm, conc) ==
    [id |-> id, scope |-> [kind |-> kind, of |-> of], window |-> window, usd |-> usd,
     tokens |-> tokens, rpm |-> rpm, conc |-> conc, allow |-> {}, deny |-> {}]

MCPolicyRules == <<[condition |-> [tag |-> {}, user |-> {u1}, model |-> {m2}],
                    allow |-> {m2}, usd |-> {2}, window |-> "daily"]>>

\* Two per-minute limits meet in the requests of k1, which count twice.
MCRules == {Row(1, "key", k1, "daily", {}, {2}, {1}, {2}),
            Row(2, "user", u1, "monthly", {1}, {}, {2}, {1}),
            [Row(3, "user", u1, "target", {0}, {}, {}, {}) EXCEPT !.deny = {m1}],
            Row(4, "project", p1, "total", {2}, {}, {}, {}),
            Row(5, "global", p1, "daily", {2}, {}, {}, {})}

\* One rule that stops everything, and whose per-minute limit a request that the
\* other rules have counted exceeds by itself; one that denies a model.
MCNewRules == {Row(0, "user", u1, "daily", {1}, {}, {1}, {0}),
               [Row(0, "user", u1, "daily", {1}, {}, {}, {}) EXCEPT !.deny = {m1}]}

MCLength == "daily" :> 1 @@ "monthly" :> 2
=============================================================================
