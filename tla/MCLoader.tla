------------------------------ MODULE MCLoader ------------------------------
(***************************************************************************)
(* Small projects for Loader: every combination of a few contents of main, *)
(* of a file it may include, of a journal, reached by a link as well, and  *)
(* of a file the journal may include.                                      *)
(***************************************************************************)
EXTENDS Loader

OwnLine    == [kind |-> "own"]
Include(p) == [kind |-> "include", path |-> p]
Glob(ps)   == [kind |-> "glob", paths |-> ps]

MCRank == [p \in Paths |-> CASE p = "accounts" -> 1 [] p = "draft" -> 2 [] p = "gone" -> 3
                             [] p = "index" -> 4 [] p = "journal" -> 5 [] p = "link" -> 6
                             [] OTHER -> 7]

MCReal == [p \in Paths |-> IF p = "link" THEN "journal" ELSE p]

MCMains == {<<OwnLine, Include("accounts"), OwnLine>>,
            <<Include("accounts"), Include("journal"), OwnLine>>,
            <<Glob({"accounts", "draft", "journal", "link"}), OwnLine>>,
            <<Include("journal"), OwnLine, Include("link"), Include("draft")>>,
            <<Glob({"accounts", "main"})>>,
            <<Glob({"draft"}), Include("gone")>>}
MCAccounts == {<<OwnLine>>, <<OwnLine, Include("index"), OwnLine>>, <<Include("main")>>, << >>}
MCJournals == {<<OwnLine>>, <<Include("index")>>, <<OwnLine, Include("accounts")>>,
               <<OwnLine, Include("gone")>>}
MCIndexes  == {<<OwnLine, OwnLine>>, <<Include("journal"), OwnLine>>, <<Include("gone")>>}
MCEntries  == {<< >>, <<"journal">>, <<"journal", "link">>, <<"index", "journal", "index">>}

MCProject(main, accounts, journal, index, entries) ==
    [text |-> [p \in Paths |-> CASE p = "main" -> main
                                 [] p = "accounts" -> accounts
                                 [] p \in {"journal", "link"} -> journal
                                 [] p = "index" -> index
                                 [] OTHER -> <<OwnLine>>],
     disk |-> {"main", "accounts", "journal", "link", "index"}, buffers |-> {"draft"},
     real |-> MCReal, main |-> "main", journals |-> entries]

MCProjects ==
    {MCProject(m, a, j, i, e) : m \in MCMains, a \in MCAccounts, j \in MCJournals,
                                i \in MCIndexes, e \in MCEntries}

(* The journal only includes the index; some of the mains include both. *)
MCNested ==
    {MCProject(m, <<OwnLine>>, <<Include("index")>>, <<OwnLine>>, <<"journal">>) : m \in MCMains}
=============================================================================
