-------------------------- MODULE MCDomainService --------------------------
EXTENDS DomainService, TLC
CONSTANTS c1, c2

\* A project with a directory of secrets that holds one file, a template, and
\* an untracked file that comes, goes, and brings a secret with it.
File(path, body, git) ==
  [path |-> path, kind |-> "f", inode |-> 0, links |-> 1, body |-> body, git |-> git]
Dir(path) == [File(path, "", "clean") EXCEPT !.kind = "d"]

Base == {Dir(<<".git">>), File(<<".git", "config">>, "config", "clean"),
         Dir(<<"secrets">>), File(<<"secrets", "key">>, "k", "ignored"),
         File(<<".env.example">>, "t", "clean"), File(<<"a">>, "v1", "clean"),
         [File(<<"data", "x">>, "v1", "ignored") EXCEPT !.inode = 1, !.links = 2],
         [File(<<"data", "y">>, "v1", "ignored") EXCEPT !.inode = 1, !.links = 2]}
Tree(entries) == [head |-> "h", settings |-> {}, mounts |-> {}, entries |-> entries]

Clean1   == Tree(Base)
Edited   == Tree((Base \ {File(<<"a">>, "v1", "clean")}) \cup {File(<<"a">>, "v2", "changed")})
Secret   == Tree(Base \cup {File(<<"auth.pem">>, "k", "ignored")})
Linked   == Tree((Base \ {[File(<<"data", "y">>, "v1", "ignored") EXCEPT !.inode = 1, !.links = 2]}))

MCCheckouts == [p1 |-> {Clean1, Edited, Secret, Linked}, p2 |-> {Clean1}]
MCSensitive == {"secrets", "auth.pem", ".env.example"}
=============================================================================
