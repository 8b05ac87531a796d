-------------------------------- MODULE MCHome ---------------------------------
(* Model-checking instance of Home: two repositories that can be migrated, *)
(* with different branches, languages and offers, and two that cannot.     *)
(* The assumptions check what the page shows of them on small inputs.      *)
EXTENDS Home, Integers, Sequences
Profile == INSTANCE RepoProfile
Colors  == INSTANCE Theme

MCKind     == [ledger |-> "fine", claims |-> "fine", notes |-> "unsupported", site |-> "below"]
MCBranches == [ledger |-> {"main", "staging"}, claims |-> {"trunk"}]
MCMain     == [ledger |-> "main", claims |-> "trunk"]
MCLangs    == [ledger |-> {"java", "php"}, claims |-> {"php"}]
MCDetected == [ledger |-> "java", claims |-> "php"]
MCHasDB    == [ledger |-> TRUE, claims |-> FALSE]

-----------------------------------------------------------------------------
MCValues == {0, 1, 33, 50, 67, 100, 250, 4000}
MCRepos ==
  {[name |-> "repo", detected |-> d, label |-> l,
    risk |-> [percentage |-> 41, level |-> "medium", selectable |-> TRUE],
    languages |-> <<[language |-> "Java", value |-> a], [language |-> "Go", value |-> b],
                    [language |-> "COBOL", value |-> c]>>] :
     d \in {"java", "cobol"}, l \in {"Java", "COBOL"}, a, b, c \in MCValues}

(* A profile lists every language that has a share, the largest first, and *)
(* the shares of sizes add up to 100 but for their rounding.               *)
ASSUME ProfileAddsUp ==
  \A repo \in MCRepos :
    LET shown == Profile!LanguageBreakdown(repo)
        sum   == Profile!FoldLeft(LAMBDA s, l : s + l.percentage, 0, shown)
        bytes == \E i \in DOMAIN repo.languages : repo.languages[i].value > 101
    IN /\ \A i \in 1 .. Len(shown) - 1 : shown[i].percentage >= shown[i + 1].percentage
       /\ \A i \in DOMAIN shown : shown[i].percentage \in 0 .. 100
       /\ bytes => sum \in 99 .. 101

(* Wherever the detected language has a share it is one of the choices,    *)
(* and there is always a choice.                                           *)
ASSUME DetectedIsOffered ==
  \A repo \in MCRepos :
    LET options == Profile!SourceLanguageOptions(repo)
    IN /\ options # <<>>
       /\ (\E i \in DOMAIN repo.languages :
             repo.languages[i].value > 0 /\ Profile!Lower(repo.languages[i].language) = repo.detected)
            => \E i \in DOMAIN options : options[i] = repo.detected

(* However GitHub writes the address of a repository, it is the same one;  *)
(* the address of one of its pages is none.                                *)
ASSUME OneKey ==
  \A scheme \in {<<>>, <<"https://">>}, host \in {<<>>, <<"github.com/">>},
     end \in {<<>>, <<".git">>, <<"/">>} :
    /\ Profile!ParseRepoInput(scheme \o host \o <<"bank", "/", "ledger">> \o end)
         = <<<<"bank">>, <<"ledger">>>>
    /\ Profile!ParseRepoInput(scheme \o host \o <<"bank", "/", "ledger", "/", "tree">> \o end)
         = Profile!NoKey

(* Every run is on one page, going on from the first page reaches them     *)
(* all, and no page is empty after runs were removed.                      *)
ASSUME EveryRunOnOnePage ==
  \A n \in 0 .. 16 :
    LET runs == [i \in 1 .. n |-> i]
        last == Profile!TotalPages(n) - 1
    IN /\ Profile!FlattenSeq([p \in 1 .. last + 1 |-> Profile!PageRuns(runs, p - 1)]) = runs
       /\ \A p \in 0 .. last : Profile!NextPage(p, n) = Profile!Min({p + 1, last})
       /\ \A p \in 0 .. 5 : n > 0 => Profile!PageRuns(runs, p) # <<>>

(* The key "d" always changes what one sees, and twice changes it back.    *)
ASSUME KeyShows ==
  \A t \in Colors!Themes, system \in {"dark", "light"} :
    LET once == Colors!ToggledTheme(t, system)
    IN /\ Colors!AppliedTheme(once, system) # Colors!AppliedTheme(t, system)
       /\ Colors!ToggledTheme(once, system) = Colors!AppliedTheme(t, system)
==============================================================================
