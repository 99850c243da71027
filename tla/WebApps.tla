------------------------------- MODULE WebApps -------------------------------
(***************************************************************************)
(* The two browser applications: the panel (src/admin-frontend, App.jsx)   *)
(* with its four pages, and the login pages (src/login-ui) with the limit  *)
(* on login attempts.  One browser tab is modelled; tab says what it has   *)
(* on display.  Leaving a page unmounts it: its requests go on at the IdP, *)
(* but nobody waits for their answers, and the next visit begins with      *)
(* whatever tables it finds.                                               *)
(*                                                                         *)
(* The instances are as small as the interleavings allow: two requests in  *)
(* flight, two users (one of them found by the term "x"), pages of one or  *)
(* two rows.  The page of users is there twice, once to search and turn    *)
(* pages and once to create users and reset passwords; so is the one of    *)
(* systems, with two systems and with one that has two versions.           *)
(***************************************************************************)
EXTENDS Naturals, Sequences, FiniteSets

CONSTANTS
    LoginLimit,     \* wrong passwords a window answers (rateLimit.middleware.ts)
    LoginHits,      \* bound: attempts counted in a window
    AuthRequests,   \* bound: requests in flight of the login pages, in either application
    PageRequests,   \* bound: requests in flight of a page of the panel
    None

ASSUME LimitAssumption == LoginLimit \in Nat

VARIABLES tab, view, calls, server, hist

vars     == <<tab, view, calls, server, hist>>
pageVars == <<view, calls, server, hist>>

PanelTab == INSTANCE PanelAuth WITH
    Accounts <- {"ti", "comum"}, Admins <- {"ti"}, MaxCalls <- AuthRequests, MaxSecrets <- 0

SearchTerms == {"", "x"}
SearchTab == INSTANCE UsersPage WITH
    Users <- 1..2, Terms <- SearchTerms, NoTerm <- "", Limits <- {1, 2}, FirstLimit <- 1,
    Found <- [t \in SearchTerms |-> IF t = "" THEN 1..2 ELSE {1}],
    MaxCalls <- PageRequests, MaxSecrets <- 0
UsersTab == INSTANCE UsersPage WITH
    Users <- 1..2, Terms <- {""}, NoTerm <- "", Limits <- {2}, FirstLimit <- 2,
    Found <- [t \in {""} |-> 1..2], MaxCalls <- PageRequests, MaxSecrets <- 2

AccessTab == INSTANCE AccessPage WITH
    Users <- {"ana", "rui"}, Systems <- {"farol"}, Roles <- {"gerente", "comum"},
    MaxAccesses <- 2, MaxCalls <- PageRequests, MaxSecrets <- 0

SystemsTab == INSTANCE SystemsPage WITH
    Slugs <- {"farol", "rh"}, Contents <- {1}, Roles <- {"gerente"},
    MaxCalls <- PageRequests, MaxSecrets <- 1
SavedTab == INSTANCE SystemsPage WITH
    Slugs <- {"farol"}, Contents <- {1, 2}, Roles <- {"gerente"},
    MaxCalls <- PageRequests, MaxSecrets <- 2

AuditTab == INSTANCE AuditPage WITH
    Kinds <- {1, 2}, Filters <- {{1, 2}, {1}}, NoFilter <- {1, 2}, Limits <- {1, 2},
    FirstLimit <- 1, MaxEntries <- 2, MaxCalls <- PageRequests, MaxSecrets <- 0

LoginTab == INSTANCE LoginUi WITH MaxCalls <- AuthRequests, MaxSecrets <- 0
LimiterTab == INSTANCE LoginLimiter WITH
    Limit <- LoginLimit, MaxHits <- LoginHits, MaxCalls <- AuthRequests, MaxSecrets <- 0

-----------------------------------------------------------------------------

PanelPages == {"search", "users", "access", "systems", "saved", "audit"}
Tabs       == PanelPages \cup {"panel", "login", "limiter"}

MountsOf(t) ==
    CASE t = "panel"   -> PanelTab!Mounts
      [] t = "search"  -> SearchTab!Mounts
      [] t = "users"   -> UsersTab!Mounts
      [] t = "access"  -> AccessTab!Mounts
      [] t = "systems" -> SystemsTab!Mounts
      [] t = "saved"   -> SavedTab!Mounts
      [] t = "audit"   -> AuditTab!Mounts
      [] t = "login"   -> LoginTab!Mounts
      [] t = "limiter" -> LimiterTab!Mounts

Init ==
    /\ tab \in {"panel", "login", "limiter"}
    /\ \E m \in MountsOf(tab) :
         view = m.view /\ calls = m.calls /\ server = m.server /\ hist = m.hist

\* The outlet of ProtectedRoute: one of the four pages is mounted.
OpenPage(t) ==
    /\ tab = "panel" /\ PanelTab!Outlet /\ calls = <<>>
    /\ tab' = t
    /\ \E m \in MountsOf(t) :
         view' = m.view /\ calls' = m.calls /\ server' = m.server /\ hist' = m.hist

\* A link of the sidebar or the button Sair; the page is unmounted.
LeavePage ==
    /\ tab \in PanelPages
    /\ tab' = "panel"
    /\ view' = [path |-> "page", user |-> [name |-> "ti", must |-> FALSE],
                loading |-> FALSE, submitting |-> FALSE]
    /\ calls' = <<>>
    /\ server' = [session |-> "ti", must |-> [a \in {"ti", "comum"} |-> FALSE]]
    /\ hist' = [calm |-> TRUE]

Next ==
    \/ \E t \in PanelPages : OpenPage(t)
    \/ LeavePage
    \/ tab = "panel"   /\ PanelTab!Next   /\ UNCHANGED tab
    \/ tab = "search"  /\ SearchTab!Next  /\ UNCHANGED tab
    \/ tab = "users"   /\ UsersTab!Next   /\ UNCHANGED tab
    \/ tab = "access"  /\ AccessTab!Next  /\ UNCHANGED tab
    \/ tab = "systems" /\ SystemsTab!Next /\ UNCHANGED tab
    \/ tab = "saved"   /\ SavedTab!Next   /\ UNCHANGED tab
    \/ tab = "audit"   /\ AuditTab!Next   /\ UNCHANGED tab
    \/ tab = "login"   /\ LoginTab!Next   /\ UNCHANGED tab
    \/ tab = "limiter" /\ LimiterTab!Next /\ UNCHANGED tab

\* The timer of the search field runs out.
SearchFires == tab = "search" /\ SearchTab!SearchFires /\ UNCHANGED tab

Spec == Init /\ [][Next]_vars /\ WF_vars(SearchFires)

-----------------------------------------------------------------------------
(* Requirements *)

TypeOK ==
    /\ tab \in Tabs
    /\ tab = "panel"   => PanelTab!TypeOK
    /\ tab = "search"  => SearchTab!TypeOK
    /\ tab = "users"   => UsersTab!TypeOK
    /\ tab = "access"  => AccessTab!TypeOK
    /\ tab = "systems" => SystemsTab!TypeOK
    /\ tab = "saved"   => SavedTab!TypeOK
    /\ tab = "audit"   => AuditTab!TypeOK
    /\ tab = "login"   => LoginTab!TypeOK
    /\ tab = "limiter" => LimiterTab!TypeOK

\* With nothing under way, and unless chance has decided otherwise (calm), every
\* page of the panel shows what the tables hold for the query, user or system it
\* names, and the panel knows who is logged in (fetchUsers, fetchAccesses,
\* fetchSystems, fetchRoles, fetchLogs and refresh, with all that calls them).
RestShowsTruth ==
    /\ tab = "panel"   => PanelTab!ShowsTheTable
    /\ tab = "search"  => SearchTab!ShowsTheTable
    /\ tab = "users"   => UsersTab!ShowsTheTable
    /\ tab = "access"  => AccessTab!ShowsTheTable
    /\ tab = "systems" => SystemsTab!ShowsTheTable
    /\ tab = "saved"   => SavedTab!ShowsTheTable
    /\ tab = "audit"   => AuditTab!ShowsTheTable

\* A flag that disables a button or hides a table (loading, creating, saving,
\* busyAccessId, rowActionId, submitting, ...) is up only while the request is
\* under way that will take it down: no page stays blocked for good.
FlagsEndWithTheirCalls ==
    /\ tab = "panel"   => PanelTab!FlagsHaveCalls
    /\ tab = "search"  => SearchTab!FlagsHaveCalls
    /\ tab = "users"   => UsersTab!FlagsHaveCalls
    /\ tab = "access"  => AccessTab!FlagsHaveCalls
    /\ tab = "systems" => SystemsTab!FlagsHaveCalls
    /\ tab = "saved"   => SavedTab!FlagsHaveCalls
    /\ tab = "audit"   => AuditTab!FlagsHaveCalls
    /\ tab = "login"   => LoginTab!FlagsHaveCalls

\* "Exibicao unica de um segredo": a temporary password or client secret that is
\* in force was on display under the name of its user or system, unless its answer
\* is under way or was lost; and never under another name.
SecretsReachTheAdmin ==
    /\ tab = "users"   => UsersTab!SecretsShown
    /\ tab = "systems" => SystemsTab!SecretsShown
    /\ tab = "saved"   => SavedTab!SecretsShown

\* The way back to /authorize survives both forms (returnTo.js and its users).
ReturnsToWhereItStarted == tab = "login" => LoginTab!ReturnsToWhereItStarted

\* The limit on wrong passwords holds for overlapping attempts, and across the
\* end of a window (rateLimit.middleware.ts).
WrongAttemptsBounded == tab = "limiter" => LimiterTab!WrongAttemptsBounded

\* What stands in the search field is searched for in the end, whatever else is
\* clicked and however the answers arrive (SearchInput.jsx and handleSearch).
TypedTermIsSearched ==
    \A t \in SearchTerms :
      <>[](tab = "search" /\ view.typed = t)
        => <>[](tab = "search" /\ view.query.search = t)
=============================================================================
