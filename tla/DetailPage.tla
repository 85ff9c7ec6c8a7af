------------------------------ MODULE DetailPage ------------------------------
(***************************************************************************)
(* From the form to the page of an integration                             *)
(* (packages/ui/components/SubmitForm.tsx, IntegrationDetail.tsx and       *)
(* app/integrations/[id]/page.tsx): what the page shows while the workflow *)
(* moves the row, and the log tab in it (module LogStream).                *)
(*                                                                         *)
(* The tab and the page around it read the same rows and share nothing     *)
(* else, so a behaviour looks at one of them.  The workflow is reduced to  *)
(* the states it writes; module IntegrationWorkflow has it in full.        *)
(***************************************************************************)
EXTENDS LogStream

CONSTANT MaxTests    \* bound: executions of one integration

ASSUME TestsAssumption == MaxTests \in Nat \ {0}

VARIABLES
    view,       \* what this behaviour looks at: "tab" or "page"
    row,        \* integrations.state
    workflow,   \* the execution, and how many there have been
    page        \* where the user is, what is shown, the request under way

pageVars == <<vars, view, row, workflow, page>>

RowStates    == {"Draft", "Generating", "Tested", "Approved", "Building",
                 "Deployed", "Running", "Degraded"}
Transitional == {"Generating", "Approved", "Building"}

NoWorkflow == [at |-> "closed", tests |-> 0, approved |-> FALSE]
At(place)  == view = "page" /\ page.at = place
Started    == [at |-> "started", tests |-> workflow.tests + 1, approved |-> FALSE]
-----------------------------------------------------------------------------
(* The form *)

(* createIntegration: on to its test.                                      *)
Create ==
    /\ At("form")
    /\ page' = [page EXCEPT !.at = "created"]
    /\ UNCHANGED <<vars, view, row, workflow>>

(* POST .../test answers as soon as the execution is started.  A failure   *)
(* is swallowed: the page is opened either way.                            *)
TestAndOpen ==
    /\ At("created")
    /\ \/ workflow' = Started
       \/ ~calm /\ UNCHANGED workflow
    /\ page' = [page EXCEPT !.at = "loading"]
    /\ UNCHANGED <<vars, view, row>>
-----------------------------------------------------------------------------
(* The page *)

(* The server renders the row into the page.  If it cannot be read the     *)
(* page says not found, and is not refreshed any more.                     *)
Load ==
    /\ At("loading")
    /\ \/ page' = [page EXCEPT !.at = "detail", !.shown = row]
       \/ ~calm /\ page' = [page EXCEPT !.at = "gone"]
    /\ UNCHANGED <<vars, view, row, workflow>>

Reload ==
    /\ At("detail") \/ At("gone")
    /\ page' = [page EXCEPT !.at = "loading", !.refresh = "no"]
    /\ UNCHANGED <<vars, view, row, workflow>>

CanRefresh == At("detail") /\ page.refresh = "no"
Refresh    == page' = [page EXCEPT !.refresh = "sent"]

(* Mutant of Tick: Building is not in the list.                            *)
TickNotBuilding ==
    /\ CanRefresh
    /\ page.shown \in Transitional \ {"Building"}
    /\ Refresh
    /\ UNCHANGED <<vars, view, row, workflow>>

(* The interval that runs while the state shown is a transitional one.     *)
Tick ==
    /\ CanRefresh
    /\ page.shown \in Transitional
    /\ Refresh
    /\ UNCHANGED <<vars, view, row, workflow>>

(* The server answers a refresh with the row as it is now.                 *)
ReadRow ==
    /\ At("detail") /\ page.refresh = "sent"
    /\ \/ page' = [page EXCEPT !.refresh = "read", !.read = row]
       \/ ~calm /\ page' = [page EXCEPT !.at = "gone", !.refresh = "no"]
    /\ UNCHANGED <<vars, view, row, workflow>>

Arrive ==
    /\ At("detail") /\ page.refresh = "read"
    /\ page' = [page EXCEPT !.shown = page.read, !.refresh = "no"]
    /\ UNCHANGED <<vars, view, row, workflow>>

(* A button whose request fails changes nothing but the error it shows;    *)
(* Reject always does, for it sends an empty reason.                       *)
onApprove ==
    /\ CanRefresh /\ page.shown = "Tested"
    /\ workflow.at # "closed"
    /\ workflow' = [workflow EXCEPT !.approved = TRUE]
    /\ Refresh
    /\ UNCHANGED <<vars, view, row>>

(* The workflow logs this signal and does not act on it.                   *)
onDeploy ==
    /\ CanRefresh /\ page.shown = "Approved"
    /\ workflow.at # "closed"
    /\ Refresh
    /\ UNCHANGED <<vars, view, row, workflow>>

(* Creates another integration and goes on with that one.                  *)
onRegenerate ==
    /\ CanRefresh /\ page.shown = "Tested"
    /\ row' = "Draft" /\ workflow' = NoWorkflow
    /\ page' = [page EXCEPT !.at = "created"]
    /\ UNCHANGED <<vars, view>>

Page == \/ Create \/ TestAndOpen \/ Load \/ Reload \/ Tick \/ ReadRow \/ Arrive
        \/ onApprove \/ onDeploy \/ onRegenerate
-----------------------------------------------------------------------------
(* The row, as the workflow and then the runner write it.                  *)

(* Somebody calls POST .../test; one execution is open at a time.          *)
Test ==
    /\ view = "page" /\ page.at \notin {"form", "created"}
    /\ workflow.at = "closed" /\ workflow.tests < MaxTests
    /\ workflow' = Started
    /\ UNCHANGED <<vars, view, row, page>>

Arrows == {<<"Generating", "Tested">>, <<"Tested", "Approved">>,
           <<"Approved", "Building">>, <<"Building", "Deployed">>}

(* An execution writes Generating over whatever is there, then walks on.   *)
Walk ==
    /\ view = "page"
    /\ \E s \in RowStates :
        /\ \/ workflow.at = "started" /\ s = "Generating"
           \/ /\ workflow.at = "walking" /\ <<row, s>> \in Arrows
              /\ s = "Approved" => workflow.approved
        /\ row' = s
        /\ workflow' = [workflow EXCEPT !.at = IF s = "Deployed" THEN "closed" ELSE "walking"]
    /\ UNCHANGED <<vars, view, page>>

(* An execution that fails, is rejected or runs out of time ends with      *)
(* Draft, or where it was if that write fails too.                         *)
Fail ==
    /\ view = "page" /\ workflow.at # "closed"
    /\ row' \in {"Draft", row}
    /\ workflow' = [workflow EXCEPT !.at = "closed"]
    /\ UNCHANGED <<vars, view, page>>

Fire ==
    /\ view = "page" /\ row \in {"Deployed", "Running", "Degraded"}
    /\ row' \in {"Running", "Degraded"}
    /\ UNCHANGED <<vars, view, workflow, page>>

Rows == Test \/ Walk \/ Fail \/ Fire
-----------------------------------------------------------------------------
(* In a behaviour that looks at the page the tab is not mounted.           *)
Tab == /\ \/ view = "tab" /\ Next
          \/ Settle
       /\ UNCHANGED <<view, row, workflow, page>>

PageInit ==
    /\ view \in {"tab", "page"}
    /\ active \in IF view = "tab" THEN BOOLEAN ELSE {FALSE}
    /\ rows = Nobody
    /\ streams = [s \in Streams |-> [Fresh EXCEPT !.pc = "free"]]
    /\ sent = [s \in Streams |-> Nothing]
    /\ ui = [mounted |-> view = "tab", conn |-> "connecting",
             es |-> IF view = "tab" THEN "seeding" ELSE "none", stream |-> NoStream]
    /\ calm = FALSE
    /\ row = "Draft"
    /\ workflow = NoWorkflow
    /\ page = [at |-> "form", shown |-> "Draft", refresh |-> "no", read |-> "Draft"]

PageNext == Tab \/ Page \/ Rows

PageSpec == PageInit /\ [][PageNext]_pageVars

(* The browser's timer, the requests and the server go on.                 *)
PageFairSpec ==
    /\ PageSpec /\ Fairness
    /\ WF_pageVars(Load) /\ WF_pageVars(Tick) /\ WF_pageVars(ReadRow) /\ WF_pageVars(Arrive)
-----------------------------------------------------------------------------
PageTypeOK ==
    /\ TypeOK
    /\ view = "page" => ~ui.mounted
    /\ row \in RowStates
    /\ workflow \in [at : {"closed", "started", "walking"}, tests : 0 .. MaxTests,
                     approved : BOOLEAN]
    /\ page \in [at : {"form", "created", "loading", "detail", "gone"},
                 shown : RowStates, refresh : {"no", "sent", "read"}, read : RowStates]

(* The page is not left behind in a transitional state: whichever row the  *)
(* workflow and the runner leave, and whatever was answered late or out of *)
(* date, a page that shows Generating, Approved or Building comes to show  *)
(* the row.  Of a page that shows another state this does not hold: nobody *)
(* refreshes it (IntegrationDetail.tsx:75-83).                             *)
PollingCatchesUp ==
    \A s \in RowStates : <>[](row = s) =>
        <>[](page.at = "detail" /\ page.shown \in Transitional => page.shown = s)
=============================================================================
