---------------------------- MODULE MCVaultApply ----------------------------
(* Small instances of VaultApply for TLC. *)
EXTENDS VaultApply, TLC

CONSTANTS u1, u2, u3, u4, p1, p2, prod, staging

Symmetry == Permutations(Uid)

\* The bodies of a record are the product of its content and its custom fields
Bodies == [content : Content, custom : Customs]

Plain(c)        == [content |-> c, custom |-> Empty]
Tagged(c, tags) == [content |-> c, custom |-> tags]
Env(x) == "env" :> x
Url(x) == "url" :> x

RowOf(r, t, b) == [ref |-> r, title |-> t, body |-> b]

None    == Unmarked
Foreign == [manager |-> "foreign", supported |-> FALSE, ref |-> "db", manifest |-> NoName]
IsolatedMarkers == {None, Foreign}

SerialOrder == [r \in Ref |-> IF r = "db" THEN 1 ELSE IF r = "web" THEN 2 ELSE 3]

(***************************************************************************)
(* Two manifests in one folder, each with a file that changes over time,   *)
(* and a person and a foreign tool that use the titles of the first.       *)
(***************************************************************************)
TwoManifests == (p1 :> prod) @@ (p2 :> staging)

DisjointVersions ==
  (prod :> {{RowOf("db", "DB", Plain(1))}, {}}) @@
  (staging :> {{RowOf("stage", "Stage", Plain(1))}})

(***************************************************************************)
(* One manifest whose rows come, go, change and are retitled, and gain,    *)
(* change and drop custom fields; people drop and change them too.  A url  *)
(* is a custom field without a label.                                      *)
(***************************************************************************)
OneManifest == (p1 :> prod)

OwnTitleVersions ==
  (prod :> {{RowOf("db", "DB", Tagged(1, Env(1))), RowOf("web", "Web", Tagged(1, Url(1)))},
            {RowOf("db", "Data", Plain(1)), RowOf("web", "Web", Tagged(2, Env(2)))},
            {RowOf("web", "Web", Tagged(1, Env(1)))}})

PlainBodies == {Plain(c) : c \in Content}
EditedBodies == {Tagged(2, Env(2))}

(***************************************************************************)
(* The file of the retitle run: one row gives its title up to a new row.   *)
(***************************************************************************)
RetitleVersions ==
  (prod :> {{RowOf("db", "DB", Plain(1))}, {RowOf("db", "Data", Plain(1)), RowOf("web", "DB", Plain(1))}})

(***************************************************************************)
(* Two manifests whose uid_refs are namespaced and whose titles are not.   *)
(***************************************************************************)
SameTitleVersions ==
  (prod :> {{RowOf("db", "DB", Plain(1))}}) @@ (staging :> {{RowOf("stage", "DB", Plain(2))}})
=============================================================================
