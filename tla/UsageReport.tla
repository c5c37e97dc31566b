----------------------------- MODULE UsageReport -----------------------------
(***************************************************************************)
(* The usage reports (UsageReportService, src/app/services/usage_report.py)*)
(* and the queries they are made of (src/app/repositories/usage.py), while *)
(* the ledger goes on working.                                             *)
(*                                                                         *)
(* A report is put together from several queries, each on a connection of  *)
(* its own: there is no snapshot, and between two of them requests are     *)
(* reserved and finalised.  The report of a user is one section; the       *)
(* report of an admin has a section for each user of the admin and a list  *)
(* of their latest events.                                                 *)
(*                                                                         *)
(* The HTML, the order of rows and the sums over models that get_usage_    *)
(* summary adds are left out: a list of events is a function from ids to   *)
(* rows.  Which users an admin is associated with does not change.         *)
(***************************************************************************)
EXTENDS Quota

CONSTANTS
    AdminUsers,   \* the active users of the admin, in the order of their ids
    RecentLimit   \* recent_event_limit, 25 in the code

ASSUME AdminUsersAssumption == AdminUsers \in Seq(Users)
ASSUME RecentAssumption     == RecentLimit \in Nat

VARIABLE report   \* the report that is being made, or the last one made

reportVars == <<quotaVars, report>>

-----------------------------------------------------------------------------
\* Mutant: LIMIT is left out.
RecentEventsAll(users) ==
    [i \in {j \in Ids : usage_events[j].user_id \in users} |-> usage_events[i]]

\* Mutant: ORDER BY id, not id DESC.
RecentEventsOldest(users) ==
    LET theirs == {i \in Ids : usage_events[i].user_id \in users}
    IN  [i \in {j \in theirs : Cardinality({k \in theirs : k < j}) < RecentLimit}
            |-> usage_events[i]]

\* list_recent_usage_events, list_recent_usage_events_for_users
RecentEvents(users) ==
    LET theirs == {i \in Ids : usage_events[i].user_id \in users}
    IN  [i \in {j \in theirs : Cardinality({k \in theirs : k > j}) < RecentLimit}
            |-> usage_events[i]]

\* get_usage_summary reads the totals, not the events.
Query(what, u) ==
    CASE what = "summary" -> usage_totals[u]
      [] what = "limits"  -> user_limits[u]
      [] what = "events"  -> RecentEvents({u})

\* Mutant: the events are read before the totals.
ReadsReversed == <<"events", "limits", "summary">>

\* The queries of _build_user_report_data, in their order.
Reads == <<"summary", "limits", "events">>

\* render_user_usage_report, or render_admin_usage_report and its query for
\* the admin's users.
StartReport ==
    /\ report.pc = "done"
    /\ \E admin \in BOOLEAN, u \in Users :
          report' = [pc |-> IF admin /\ AdminUsers = <<>> THEN "list" ELSE "section",
                     admin |-> admin,
                     left |-> IF admin THEN AdminUsers ELSE <<u>>,
                     section |-> <<>>, sections |-> <<>>, list |-> <<>>]
    /\ UNCHANGED quotaVars

\* The next query for the section of the first user that is left.  `section`
\* holds the results of the queries so far.
ReadSection ==
    LET u    == Head(report.left)
        what == Reads[Len(report.section) + 1]
    IN  /\ report.pc = "section"
        /\ Len(report.section) < Len(Reads)
        /\ report' = [report EXCEPT !.section =
               Append(@, [what |-> what, result |-> Query(what, u)])]
        /\ UNCHANGED quotaVars

Result(section, what) ==
    section[CHOOSE k \in DOMAIN section : section[k].what = what].result

EndSection ==
    LET u == Head(report.left)
    IN  /\ report.pc = "section"
        /\ Len(report.section) = Len(Reads)
        /\ report' = [report EXCEPT
               !.pc = IF Tail(report.left) # <<>> THEN "section"
                      ELSE IF report.admin THEN "list" ELSE "done",
               !.left = Tail(@),
               !.section = <<>>,
               !.sections = Append(@,
                   [user |-> u, summary |-> Result(report.section, "summary"),
                    limits |-> Result(report.section, "limits"),
                    events |-> Result(report.section, "events")])]
        /\ UNCHANGED quotaVars

\* The admin's list of events, after all sections.
ReadList ==
    /\ report.pc = "list"
    /\ report' = [report EXCEPT !.pc = "done",
                      !.list = RecentEvents({report.sections[k].user :
                                                k \in DOMAIN report.sections})]
    /\ UNCHANGED quotaVars

ReportInit ==
    /\ Init
    /\ report = [pc |-> "done", admin |-> FALSE, left |-> <<>>, section |-> <<>>,
                 sections |-> <<>>, list |-> <<>>]

ReportNext ==
    \/ StartReport \/ ReadSection \/ EndSection \/ ReadList
    \/ Next /\ UNCHANGED report

ReportSpec == ReportInit /\ [][ReportNext]_reportVars

-----------------------------------------------------------------------------
Sections == {report.sections[k] : k \in DOMAIN report.sections}

\* A report shows no user but those it is for, and at most RecentLimit events
\* in each of its lists.
ReportTypeOK ==
    /\ report.pc \in {"section", "list", "done"}
    /\ report.list # <<>> => report.admin
    /\ \A s \in Sections :
          /\ report.admin => \E k \in DOMAIN AdminUsers : AdminUsers[k] = s.user
          /\ s.summary \in [Models -> Total]
          /\ s.limits \in Limits
          /\ Cardinality(DOMAIN s.events) <= RecentLimit
          /\ \A i \in DOMAIN s.events : s.events[i].user_id = s.user
    /\ Cardinality(DOMAIN report.list) <= RecentLimit
    /\ \A i \in DOMAIN report.list :
          \E s \in Sections : s.user = report.list[i].user_id

\* A section never shows totals that the events do not account for: its list,
\* with what is older than a full list, has at least as many successful
\* requests of each model as the summary counts, with at least its tokens.
\* The two are read at different times, and only the order of the reads keeps
\* the section from counting a request it does not list.
SummaryAccountedFor ==
    \A s \in Sections, m \in Models :
        LET shown == {i \in DOMAIN s.events :
                         s.events[i].model = m /\ s.events[i].status = "success"}
            older == {i \in SuccessRows(s.user, m) :
                         /\ Cardinality(DOMAIN s.events) = RecentLimit
                         /\ \A j \in DOMAIN s.events : i < j}
        IN  /\ Cardinality(shown) + Cardinality(older) >= s.summary[m].request_count
            /\ SumFunction([i \in shown |-> s.events[i].total_tokens])
                   + Tokens(older) >= s.summary[m].total_tokens

\* The list of an admin's report goes on where the sections stopped: an event
\* of a section is in the list too, or only newer ones are and the list is
\* full; and an event a section shows as settled is the same in the list.
ListFollowsSections ==
    (report.admin /\ report.pc = "done") =>
        \A s \in Sections : \A i \in DOMAIN s.events :
            IF i \in DOMAIN report.list
            THEN s.events[i].status # "reserved" => report.list[i] = s.events[i]
            ELSE /\ Cardinality(DOMAIN report.list) = RecentLimit
                 /\ \A j \in DOMAIN report.list : j > i
=============================================================================
