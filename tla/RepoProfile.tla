------------------------------ MODULE RepoProfile ------------------------------
(***************************************************************************)
(* What the home page shows of repositories and runs, as functions of what *)
(* the server said: the name read from a typed URL (lib/api.ts), the       *)
(* language profile, the choices and the menu of suggestions               *)
(* (repo-launcher.tsx) and the pages of recent runs (recent-runs.tsx).     *)
(*                                                                         *)
(* A repository or suggestion is a record [name, detected, label, risk,    *)
(* languages]: detected a source language or "unsupported", risk a record  *)
(* [percentage, level, selectable], languages a sequence of                *)
(* [language, value] in the order of the server's object.                  *)
(***************************************************************************)
EXTENDS Integers, SequencesExt, FiniteSetsExt

SourceLanguages == <<"cobol", "java", "php">>

(* The source language that a label names in lower case, or "other".       *)
Lower(label) ==
  CASE label \in {"COBOL", "cobol"} -> "cobol"
    [] label \in {"Java", "java"}   -> "java"
    [] label \in {"PHP", "php"}     -> "php"
    [] OTHER -> "other"

(* Labels are compared without regard to case.                             *)
SameLanguage(a, b) == a = b \/ (Lower(a) # "other" /\ Lower(a) = Lower(b))

-----------------------------------------------------------------------------
(* A typed URL is a sequence of the tokens "https://", "github.com/", "/", *)
(* ".git" and words.                                                       *)

DropFirst(text, token) == IF text # <<>> /\ Head(text) = token THEN Tail(text) ELSE text
DropLast(text, token)  == IF text # <<>> /\ Last(text) = token THEN Front(text) ELSE text

NoKey == <<>>

(* Owner and name, if one slash is left between two non-empty parts.       *)
ParseRepoInput(text) ==
  LET match == DropLast(DropLast(DropFirst(DropFirst(text, "https://"), "github.com/"), ".git"), "/")
      slash == {i \in DOMAIN match : match[i] \in {"/", "github.com/", "https://"}}
  IN IF Cardinality(slash) = 1 /\ Max(slash) \in 2 .. Len(match) - 1
       THEN LET i == Max(slash)
            IN <<SubSeq(match, 1, i - 1), SubSeq(match, i + 1, Len(match))>>
       ELSE NoKey

(* resolveRepo: "ok", or the reason of the refusal.                        *)
Resolution(text, httpStatus) ==
  CASE ParseRepoInput(text) = NoKey -> "format"
    [] httpStatus = 401             -> "auth"
    [] httpStatus \in 200 .. 299    -> "ok"
    [] OTHER                        -> "access"

(* An older server lists bare names.                                       *)
UnratedSuggestion(name) ==
  [name |-> name, detected |-> "unsupported", label |-> "Unknown", languages |-> <<>>,
   risk |-> [percentage |-> 0, level |-> "blocked", selectable |-> TRUE]]

-----------------------------------------------------------------------------
(* The language profile.                                                   *)

SafePercent(value) == Max({0, Min({100, value})})

(* Math.round((value / total) * 100)                                       *)
RoundedShare(value, total) == (200 * value + total) \div (2 * total)

(* Shares of the whole, whether the values are percentages or sizes, the   *)
(* largest first; without any value the label stands for the repository.   *)
NormalizeLanguageBreakdown(languages, label, percentage) ==
  LET raw   == SelectSeq(languages, LAMBDA l : l.value > 0)
      total == FoldLeft(LAMBDA sum, l : sum + l.value, 0, raw)
      valuesArePercentages == total <= 101 /\ \A i \in DOMAIN raw : raw[i].value <= 100
      share == [i \in DOMAIN raw |->
                  SafePercent(IF valuesArePercentages THEN raw[i].value
                              ELSE RoundedShare(raw[i].value, total))]
      order == SetToSortSeq(DOMAIN raw,
                 LAMBDA i, j : share[i] > share[j] \/ (share[i] = share[j] /\ i < j))
  IN IF raw = <<>> THEN <<[language |-> label, percentage |-> SafePercent(percentage)]>>
     ELSE [k \in DOMAIN order |->
             [language |-> raw[order[k]].language, percentage |-> share[order[k]]]]

LanguageBreakdown(repo) ==
  NormalizeLanguageBreakdown(repo.languages, repo.label, repo.risk.percentage)

Dominant(repo) == Head(LanguageBreakdown(repo))

(* The choices of the source language.                                     *)
SourceLanguageOptions(repo) ==
  LET shown   == LanguageBreakdown(repo)
      present == {Lower(shown[i].language) : i \in DOMAIN shown}
      options == SelectSeq(SourceLanguages, LAMBDA s : s \in present)
  IN IF options # <<>> THEN options
     ELSE IF repo.detected = "unsupported" THEN <<>> ELSE <<repo.detected>>

DetectedLanguagePercent(repo) ==
  LET shown == LanguageBreakdown(repo)
      hits  == {i \in DOMAIN shown : SameLanguage(shown[i].language, repo.label)}
  IN IF hits = {} THEN SafePercent(repo.risk.percentage) ELSE shown[Min(hits)].percentage

(* The card of the three levels that is lit.                               *)
SuccessLevel(level) == IF level = "blocked" THEN "low" ELSE level

(* The percentage that the error about a repository names, if any.         *)
ErrorDetail(reason, repo) ==
  CASE reason = "unsupported" -> <<repo.label>>
    [] reason = "threshold"   -> <<repo.label, DetectedLanguagePercent(repo)>>
    [] OTHER                  -> <<>>

-----------------------------------------------------------------------------
(* The menu of suggestions.                                                *)

(* matching: the names that contain what was typed.                        *)
RepoOptions(suggestions, typed, matching) ==
  IF ~typed THEN suggestions ELSE SelectSeq(suggestions, LAMBDA s : s.name \in matching)

Badges(suggestion) ==
  SelectSeq(LanguageBreakdown(suggestion), LAMBDA l : Lower(l.language) # "other")

MenuRow(suggestion, selectedName) ==
  [name |-> suggestion.name, badges |-> Badges(suggestion),
   disabled |-> ~suggestion.risk.selectable,
   level |-> IF suggestion.risk.level = "blocked" THEN "none" ELSE suggestion.risk.level,
   selected |-> suggestion.name = selectedName]

MenuBody(loading, options, typed) ==
  CASE loading        -> "loading"
    [] options # <<>> -> "rows"
    [] typed          -> "press enter"
    [] OTHER          -> "none found"

-----------------------------------------------------------------------------
(* The recent runs.  The page that was chosen survives a refetch that      *)
(* lists fewer runs.                                                       *)

PageSize == 5

TotalPages(n)        == Max({1, (n + PageSize - 1) \div PageSize})
CurrentPage(page, n) == Min({page, TotalPages(n) - 1})

PageRuns(runs, page) ==
  LET start == CurrentPage(page, Len(runs)) * PageSize
  IN SubSeq(runs, start + 1, Min({start + PageSize, Len(runs)}))

PreviousPage(page, n) == Max({0, CurrentPage(page, n) - 1})
NextPage(page, n)     == Min({TotalPages(n) - 1, CurrentPage(page, n) + 1})

RecentBody(pending, runs) ==
  CASE pending     -> "skeletons"
    [] runs = <<>> -> "no runs yet"
    [] OTHER       -> "rows"
================================================================================
