------------------------------- MODULE MCStores -----------------------------
(***************************************************************************)
(* What the Runtime keeps in files and who writes them, each on its own    *)
(* small instance: the signed-in account, settings and providers,          *)
(* attachments, and a file of the workspace that tools change. A behaviour *)
(* is about one of them; the others stay as they are.                      *)
(***************************************************************************)
EXTENDS Account

CONSTANTS
    Providers, Updates, Adds, Removes, Refreshes, Groups, Uploads, Drops, Turns,
    Threads, Contents, Empty, Wants, EditCalls, EditJobs

VARIABLE part   \* the component a behaviour is about
VARIABLES settingsDisk, settingsMemory, settingsAccount, settingsRevision,
          settingsAnnounced, settingsLock, settingsPc, settingsKnown, settingsAbout,
          settingsFound, settingsStale, settingsSaver
VARIABLES attachmentsContent, attachmentsThread, attachmentsWants, attachmentsRows,
          attachmentsBlobs, attachmentsTold, attachmentsSessions, attachmentsFiles,
          attachmentsManifest, attachmentsEpoch, attachmentsWorker, attachmentsPc,
          attachmentsGen, attachmentsSeen, attachmentsUp, attachmentsTorn
VARIABLES editsJob, editsVersions, editsPc, editsBase, editsText, editsLock,
          editsAborts, editsTemps, editsKilled

InSettings == INSTANCE Settings WITH disk <- settingsDisk, memory <- settingsMemory,
    account <- settingsAccount, revision <- settingsRevision,
    announced <- settingsAnnounced, lock <- settingsLock, pc <- settingsPc,
    known <- settingsKnown, about <- settingsAbout, found <- settingsFound,
    stale <- settingsStale, saver <- settingsSaver
InAttachments == INSTANCE Attachments WITH content <- attachmentsContent,
    thread <- attachmentsThread, wants <- attachmentsWants, rows <- attachmentsRows,
    blobs <- attachmentsBlobs, told <- attachmentsTold, sessions <- attachmentsSessions,
    files <- attachmentsFiles, manifest <- attachmentsManifest,
    epoch <- attachmentsEpoch, worker <- attachmentsWorker, pc <- attachmentsPc,
    gen <- attachmentsGen, seen <- attachmentsSeen, up <- attachmentsUp,
    torn <- attachmentsTorn
InFileEdits == INSTANCE FileEdits WITH job <- editsJob, versions <- editsVersions,
    pc <- editsPc, base <- editsBase, text <- editsText, lock <- editsLock,
    aborts <- editsAborts, temps <- editsTemps, killed <- editsKilled

settingsPart == <<settingsDisk, settingsMemory, settingsAccount, settingsRevision,
    settingsAnnounced, settingsLock, settingsPc, settingsKnown, settingsAbout,
    settingsFound, settingsStale, settingsSaver>>

attachmentsPart == <<attachmentsContent, attachmentsThread, attachmentsWants,
    attachmentsRows, attachmentsBlobs, attachmentsTold, attachmentsSessions,
    attachmentsFiles, attachmentsManifest, attachmentsEpoch, attachmentsWorker,
    attachmentsPc, attachmentsGen, attachmentsSeen, attachmentsUp, attachmentsTorn>>

editsPart == <<editsJob, editsVersions, editsPc, editsBase, editsText, editsLock,
    editsAborts, editsTemps, editsKilled>>

Texts ==
    UNION {[1 .. n -> {"a", "cr", "lf"}] : n \in 0 .. 2} \cup
    {<<"a", "a", "a">>, <<"lf", "a", "a">>, <<"lf", "cr", "lf">>, <<"a", "lf", "a", "lf">>,
     <<"bom", "a", "cr", "lf", "a">>}

Olds == {<<>>, <<"a">>, <<"lf">>, <<"b">>, <<"a", "a">>, <<"a", "lf">>, <<"cr", "lf">>}

\* One edit, or two, of every text; each call at the same text, with an abort or
\* with a write from outside.
MCEditJobs ==
    LET edit(es) == [kind |-> "edit", edits |-> es]
        ofA == [old |-> <<"a">>, new |-> <<"x">>]
        ofB == [old |-> <<"b">>, new |-> <<"y">>]
        two == [old : {<<"a">>, <<"lf">>, <<"a", "a">>}, new : {<<"b", "lf">>}]
        edits == {<<e>> : e \in [old : Olds, new : {<<>>, <<"a", "lf">>}]} \cup (two \X two)
        alone == {[c \in EditCalls |-> IF c = "edit" THEN edit(es) ELSE None] : es \in edits}
        all == [c \in EditCalls |->
                   IF c = "edit" THEN edit(<<ofA>>)
                   ELSE IF c = "edit2" THEN edit(<<ofB>>)
                   ELSE [kind |-> "write", text |-> <<"b", "a">>]]
        same == [c \in EditCalls |-> "turn"]
    IN  [file : Texts, does : alone, context : {same}, outside : {None}, calm : {TRUE}] \cup
        {[file |-> <<"a", "b">>, does |-> all, context |-> same, outside |-> None, calm |-> FALSE],
         [file |-> <<"a", "b">>, does |-> all, context |-> [same EXCEPT !["edit2"] = "other"],
          outside |-> <<"a">>, calm |-> TRUE]}

ATurn == CHOOSE t \in Turns : TRUE
Plain == [u \in Uploads |-> "x"]

\* Two attachments of one content, and a turn names both; or it names one that is
\* empty.  The other turn names the first.
AttachmentsMeet ==
    /\ \A t \in Turns \ {ATurn} : attachmentsWants[t] = {"u"}
    /\ attachmentsContent =
           IF attachmentsWants[ATurn] = {"u2"} THEN [Plain EXCEPT !["u2"] = "empty"] ELSE Plain

StoresInit ==
    /\ part \in {"account", "settings", "attachments", "edits"}
    /\ Init
    /\ part # "account" => service = [c \in Calls |-> Main]
    /\ InSettings!Init
    /\ part # "settings" => settingsDisk.default = None /\ settingsDisk.added = [p \in Providers |-> None]
    /\ InAttachments!Init
    /\ AttachmentsMeet
    /\ (part = "attachments") = (attachmentsWants # [t \in Turns |-> {"u"}])
    /\ InFileEdits!Init
    /\ part # "edits" => editsJob = CHOOSE j \in EditJobs : ~j.calm

OthersStay ==
    /\ UNCHANGED part
    /\ part # "account" => UNCHANGED accountVars
    /\ part # "settings" => UNCHANGED settingsPart
    /\ part # "attachments" => UNCHANGED attachmentsPart
    /\ part # "edits" => UNCHANGED editsPart

StoresNext ==
    /\ \/ part = "account" /\ Next
       \/ part = "settings" /\ InSettings!Next
       \/ part = "attachments" /\ InAttachments!Next
       \/ part = "edits" /\ InFileEdits!Next
    /\ OthersStay

StoresVars == <<part, accountVars, settingsPart, attachmentsPart, editsPart>>

\* The event loop and the worker threads go on with what is under way.
StoresAdvance ==
    /\ \/ part = "account" /\ Advance
       \/ part = "settings" /\ InSettings!Advance
       \/ part = "attachments" /\ InAttachments!Step
       \/ part = "edits" /\ InFileEdits!Step
    /\ OthersStay

StoresSpec ==
    /\ StoresInit /\ [][StoresNext]_StoresVars
    /\ WF_StoresVars(StoresAdvance)

----------------------------------------------------------------------------
\* The other parts stay in their initial states, so each property is asked only of
\* the behaviours about its part.

\* A client replaces what it saw, the default model exists, models are those of
\* the provider they are under, memory follows the file, and the last change is
\* announced and has reached the account.
SettingsSafe == part = "settings" => InSettings!SettingsSafe

\* Blobs match rows, manifests list what is there, accepted turns have their
\* attachments, and refused ones leave nothing, with the exceptions that Attachments
\* names (empty attachments among them).  Edits change what they name and
\* nothing else, calls of a turn do not undo each other, and what a call says of
\* itself is so.
FilesSafe ==
    /\ part = "attachments" => InAttachments!AttachmentsSafe
    /\ part = "edits" => InFileEdits!FileEditsSafe

\* Every call comes to an end: the lock of a service, of the settings, of the
\* attachments or of a file is given back on every way out, a failure, a
\* cancellation or a lost answer included.
CallsEnd == <>[](AllOver /\ InSettings!AllOver /\ InAttachments!AllOver /\ InFileEdits!AllOver)
=============================================================================
