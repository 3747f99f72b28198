------------------------------ MODULE MCTenant ------------------------------
(* A small instance of Tenant for TLC. *)
EXTENDS Tenant, TLC

MCFolded == [n \in {"acme", "ACME", "beta"} |-> IF n = "ACME" THEN "acme" ELSE n]

Mc(name, plan, seats, file, addons) ==
  [name |-> name, plan |-> plan, seats |-> seats, file |-> file, addons |-> addons]

\* the second drops a file plan and an addon, spells a name differently, and asks
\* for unlimited seats in two ways
MCPortfolios ==
  {{Mc("acme", "business", 5, "1TB", "siem" :> 3)},
   {Mc("ACME", "business", 1000000000, NoFile, <<>>),
    Mc("beta", "enterprise", 2000000000, NoFile, "siem" :> 1000000001)}}

MCRivals ==
  {Mc("ACME", "business", 2147483647, NoFile, "siem" :> 7),
   Mc("beta", "enterprise", 1999999999, "1TB", <<>>)}

NoShares == [p \in {} |-> p]
Apps(names, shares) == [names |-> names, shares |-> shares, extras |-> {}, scoped |-> {}]

\* an application; one more, of the first one's name after it was renamed, and a
\* share; the first removed; rows that Commander cannot apply
MCRollouts ==
  {Apps("a" :> "x", NoShares),
   Apps(("a" :> "y") @@ ("b" :> "x"), <<"a", "admin">> :> TRUE),
   Apps("b" :> "x", NoShares),
   [Apps(("a" :> "x") @@ ("b" :> "y"), NoShares) EXCEPT !.extras = {"b"}, !.scoped = {"a"}]}

MCOrders ==
  LET row(r, t, b) == [ref |-> r, title |-> t, body |-> b] IN
  {{row("r1", "t1", "b1")},
   {row("r1", "t1", "b2"), row("r2", "t2", "b1")},
   {row("r2", "t2", "b2")}}

\* nothing, or what the other provider made and marked
MCFounding ==
  {[u \in {} |-> u],
   1 :> [title |-> "t1", body |-> "b1", marker |-> D!EncodeMarker("r1", Project)]}

\* nothing yet; all of it; two records, one of them stale, and a new device; a record
\* without a secret, and a channel of somebody else's
MCBenches ==
  LET bench(cs, d, ls, ps) ==
        [channels |-> cs, device |-> d, logins |-> ls, parts |-> ps \union {"gateway"}, issued |-> 1..4]
      channel(o) == [place |-> 1, ours |-> o, secret |-> 1, active |-> TRUE]
  IN {bench({}, "approved", [u \in {} |-> u], {}),
      bench({channel(TRUE)}, "approved", 2 :> 1, {"folder", "grant", "app"}),
      bench({channel(TRUE)}, "new", (2 :> 1) @@ (3 :> 4), {"folder"}),
      bench({channel(FALSE)}, "approved", 2 :> 0, {"app"})}

\* what a theorem assumes of these
ASSUME SteadyTitles

MCStrangeApps == {NewApp("x"), NewApp("y")}
=============================================================================
