----------------------------- MODULE MCAccounts -----------------------------
(* Three requests; the ids 1 and 2 collide on their first handle, and the  *)
(* second name tried for the Google account is a user name, too.           *)
EXTENDS Accounts, TLC
CONSTANTS c1, c2, c3, ann, ann1, h, h1, h2, h3, g

MCUsers == {ann, ann1}
MCHandles == {h, h1, h2, h3}
MCHandleOf(n, i, try) == IF try = 0 /\ i \in {1, 2} THEN h
                         ELSE IF i = 1 THEN h1 ELSE IF i = 2 THEN h2 ELSE h3
MCNameOf(w, try) == IF try = 0 THEN ann ELSE ann1
Job(o, n, k, w) == [op |-> o, name |-> n, handle |-> k, who |-> w]
MCJobs == {Job("signup", ann, None, None), Job("signup", ann1, None, None),
           Job("oauth", None, None, g),
           Job("login", ann, None, None), Job("local", None, None, None),
           Job("update", None, None, None), Job("search", None, h, None),
           Job("get", None, None, None), Job("logout", None, None, None)}
Symmetry == Permutations(Calls)
=============================================================================
