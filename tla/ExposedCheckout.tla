-------------------------- MODULE ExposedCheckout --------------------------
(***************************************************************************)
(* What the domain service looks at in a checkout before it exposes it     *)
(* (advisor_domain_mcp.py): the boundary of the tree, the Git              *)
(* configuration, the state it pins, and the paths it masks.               *)
(*                                                                         *)
(* A checkout is a record: its HEAD, the settings of its Git               *)
(* configuration, the mount points below it, and its entries.  An entry    *)
(* has a path (a sequence of names), a kind, an inode with its number of   *)
(* links, a content, and its standing with Git.                            *)
(***************************************************************************)
EXTENDS Naturals, Sequences, FiniteSets, SequencesExt

CONSTANTS SensitiveNames,   \* names that mark a path as sensitive
          TemplateNames,    \* environment templates, visible when harmless
          SecretBodies,     \* contents that look like a secret
          BulkRoots,        \* top directories exposed without a name scan
          RefusedSettings   \* Git settings that run commands or leave the tree

Below(path, root)   == IsPrefix(root, path) /\ path # root
AtOrBelow(path, root) == IsPrefix(root, path)
NameOf(path)        == path[Len(path)]

ContainedLinkRoots == BulkRoots \ {".git", ".codex-advisor"}

\* The checkout may be a mount point itself.
MountsBelow(c) == {m \in c.mounts : m # <<>>}

\* Nothing mounted inside, nothing but files, directories and links, and
\* every name of a multiply linked file inside one exposed bulk root.
BoundaryOk(c) ==
  LET Linked == {e \in c.entries : e.kind = "f" /\ e.links > 1}
  IN  /\ MountsBelow(c) = {}
      /\ \A e \in c.entries : e.kind \in {"f", "d", "l"}
      /\ \A e \in Linked : /\ e.path[1] \in ContainedLinkRoots
                           /\ Cardinality({x \in Linked : x.inode = e.inode}) = e.links

GitConfigOk(c) ==
  /\ c.settings \cap RefusedSettings = {}
  /\ \A e \in c.entries : e.path[1] = ".git" => e.kind # "l"
  /\ \A e \in c.entries : e.path = <<".git", "config">> => e.body \notin SecretBodies

\* Changes that Git was told not to look for cannot be pinned.
Pinnable(c) == \A e \in c.entries : e.git # "unwatched"

-----------------------------------------------------------------------------
(***************************************************************************)
(* The state that is pinned: HEAD, the status, and the content of what may *)
(* change without changing HEAD.  Ignored files are not pinned.            *)
(***************************************************************************)
Status(c) == {<<e.path, e.git>> : e \in {x \in c.entries : x.git \in {"changed", "untracked"}}}

Mutable(c) ==
  LET initial == {e.path : e \in {x \in c.entries : x.git \in {"changed", "untracked"}}}
                   \cup {<<".git", "config">>}
  IN  {e \in c.entries : \E root \in initial : AtOrBelow(e.path, root)}

Fingerprint(c) == {<<e.path, e.kind, e.body>> : e \in Mutable(c)}

GitState(c) == [head |-> c.head, status |-> Status(c), mutable |-> Fingerprint(c)]
Dirty(c)    == Status(c) # {}

-----------------------------------------------------------------------------
(***************************************************************************)
(* The mask plan.                                                          *)
(***************************************************************************)
Sensitive(path) == \E i \in DOMAIN path : path[i] \in SensitiveNames

HarmlessTemplate(e) ==
  e.kind = "f" /\ NameOf(e.path) \in TemplateNames /\ e.body \notin SecretBodies

Candidates(c) ==
  {e.path : e \in {x \in c.entries :
     \/ x.path \in {<<".git", "config">>, <<".git", "config.worktree">>,
                    <<".git", "hooks">>, <<".codex-advisor">>}
     \/ /\ x.path[1] \notin BulkRoots
        /\ NameOf(x.path) = ".git" \/ (Sensitive(x.path) /\ ~HarmlessTemplate(x))}}

\* Mutant: the comparison with the parents is the wrong way round.
DeepestOnly(c) == {p \in Candidates(c) : \A q \in Candidates(c) : ~Below(q, p)}

\* A path below another candidate is hidden with it.
MaskPlan(c) == {p \in Candidates(c) : \A q \in Candidates(c) : ~Below(p, q)}

\* What the sandbox mounts: the checkout with the masks over it.
Visible(c, masks) == {e \in c.entries : ~\E m \in masks : AtOrBelow(e.path, m)}

\* Reference: what a session may see.
Sealed(c, masks) ==
  \A e \in Visible(c, masks) :
       e.path[1] \in BulkRoots \/ ~Sensitive(e.path) \/ HarmlessTemplate(e)
=============================================================================
