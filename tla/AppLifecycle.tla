---------------------------- MODULE AppLifecycle ----------------------------
(***************************************************************************)
(* The registry of apps and the life of an app: class                      *)
(* FirebaseNamespaceInternals of src/firebase-namespace.ts and class       *)
(* FirebaseApp of src/firebase-app.ts.                                     *)
(*                                                                         *)
(* An app is deleted in two steps: delete() unregisters it, stops its      *)
(* token refresh and calls delete() of every service it has, and only when *)
(* all of those have answered is it marked deleted.  Between the two the   *)
(* app can still be used, its name can be taken by a new app, and delete() *)
(* can be called again.                                                    *)
(*                                                                         *)
(* Calls that throw before they change anything (an invalid or duplicate   *)
(* name, invalid options, an unknown app, a deleted app, a 'delete' hook   *)
(* that throws) leave the state as it is and are not actions.  A 'create'  *)
(* hook that throws leaves its app registered, as InitializeApp does.      *)
(***************************************************************************)
EXTENDS FiniteSets

CONSTANTS
    Apps,       \* bound: FirebaseApp objects that may be created
    Names,      \* app names
    Services,   \* services an app may create
    Rejecting,  \* services whose INTERNAL.delete() may reject or throw
    Deleters,   \* bound: calls of delete()
    NoApp       \* marker

ASSUME AppsAssumption ==
    /\ NoApp \notin Apps
    /\ Rejecting \subseteq Services

VARIABLES
    apps,       \* apps_ : name -> registered app
    app,        \* the FirebaseApp objects
    service,    \* the service objects of each app, in services_ or not
    deleter     \* the calls of delete()

appVars == <<apps, app, service, deleter>>

\* "called": delete() has been called.  refreshing: INTERNAL is not deleted.
AppRecord == [created : BOOLEAN, called : BOOLEAN, refreshing : BOOLEAN,
              isDeleted : BOOLEAN, name : Names, services : SUBSET Services]

ServiceStates == {"none", "open", "deleting", "closed", "failed"}

Deleter == [st : {"idle", "waiting", "done", "failed", "thrown"},
            app : Apps \cup {NoApp}, waitsFor : SUBSET Services]

AppTypes ==
    /\ apps \in [Names -> Apps \cup {NoApp}]
    /\ app \in [Apps -> AppRecord]
    /\ service \in [Apps -> [Services -> ServiceStates]]
    /\ deleter \in [Deleters -> Deleter]

\* The type of every variable; apps_ holds an app under its own name.
AppTypeOK ==
    /\ AppTypes
    /\ \A n \in Names : apps[n] # NoApp => app[apps[n]].name = n

AppInit ==
    /\ apps = [n \in Names |-> NoApp]
    /\ app \in [Apps -> [created : {FALSE}, called : {FALSE},
                         refreshing : {FALSE}, isDeleted : {FALSE},
                         name : Names, services : {{}}]]
    /\ service = [a \in Apps |-> [s \in Services |-> "none"]]
    /\ deleter = [d \in Deleters |->
                     [st |-> "idle", app |-> NoApp, waitsFor |-> {}]]

-----------------------------------------------------------------------------
\* Mutant: a name that is taken is not refused.
InitializeApp_Duplicate(a) ==
    /\ ~app[a].created
    /\ app' = [app EXCEPT ![a].created = TRUE, ![a].refreshing = TRUE]
    /\ apps' = [apps EXCEPT ![app[a].name] = a]
    /\ UNCHANGED <<service, deleter>>

\* Mutant: the app is registered under the default name, whatever its own.
InitializeApp_Default(a) ==
    /\ ~app[a].created
    /\ apps[app[a].name] = NoApp
    /\ app' = [app EXCEPT ![a].created = TRUE, ![a].refreshing = TRUE]
    /\ apps' = [apps EXCEPT ![CHOOSE n \in Names : TRUE] = a]
    /\ UNCHANGED <<service, deleter>>

\* initializeApp(options, name): a new object, under a name that is free.  The
\* name an app will have is chosen by Init.
InitializeApp(a) ==
    /\ ~app[a].created
    /\ apps[app[a].name] = NoApp
    /\ app' = [app EXCEPT ![a].created = TRUE, ![a].refreshing = TRUE]
    /\ apps' = [apps EXCEPT ![app[a].name] = a]
    /\ UNCHANGED <<service, deleter>>

\* Mutant: no checkDestroyed_ before the service is created.
GetService_Deleted(a, s) ==
    /\ app[a].created
    /\ s \notin app[a].services
    /\ app' = [app EXCEPT ![a].services = @ \cup {s}]
    /\ service' = [service EXCEPT ![a][s] = "open"]
    /\ UNCHANGED <<apps, deleter>>

\* ensureService_ and getService_: the service is created on first use.
GetService(a, s) ==
    /\ app[a].created /\ ~app[a].isDeleted
    /\ s \notin app[a].services
    /\ app' = [app EXCEPT ![a].services = @ \cup {s}]
    /\ service' = [service EXCEPT ![a][s] = "open"]
    /\ UNCHANGED <<apps, deleter>>

-----------------------------------------------------------------------------
(* delete(). *)

CanDelete(d, a) ==
    /\ deleter[d].st = "idle"
    /\ app[a].created /\ ~app[a].isDeleted
    /\ apps[app[a].name] # NoApp

\* removeApp(name_), whichever app has that name now, then INTERNAL.delete().
Unregister(a) ==
    /\ app' = [app EXCEPT ![a].called = TRUE, ![a].refreshing = FALSE]
    /\ apps' = [apps EXCEPT ![app[a].name] = NoApp]

\* INTERNAL.delete() of the services in S.
Closing(a, S) ==
    [service EXCEPT ![a] = [s \in Services |->
        IF s \in S /\ @[s] # "closed" THEN "deleting" ELSE @[s]]]

DeleteApp(d, a) ==
    /\ CanDelete(d, a)
    /\ Unregister(a)
    /\ service' = Closing(a, app[a].services)
    /\ deleter' = [deleter EXCEPT ![d] =
           [st |-> "waiting", app |-> a, waitsFor |-> app[a].services]]

\* INTERNAL.delete() of service s throws: delete() does, and the services that
\* come after s are not asked.
DeleteThrows(d, a, s) ==
    /\ CanDelete(d, a)
    /\ s \in app[a].services \cap Rejecting
    /\ Unregister(a)
    /\ \E before \in SUBSET (app[a].services \ {s}) :
           service' = Closing(a, before)
    /\ deleter' = [deleter EXCEPT ![d] =
           [st |-> "thrown", app |-> a, waitsFor |-> {}]]

\* The promise of a service's INTERNAL.delete() is fulfilled or rejected.
ServiceCloses(a, s) ==
    /\ service[a][s] = "deleting"
    /\ \/ service' = [service EXCEPT ![a][s] = "closed"]
       \/ /\ s \in Rejecting
          /\ service' = [service EXCEPT ![a][s] = "failed"]
    /\ UNCHANGED <<apps, app, deleter>>

\* Promise.all(...).then(...)
DeleteCompletes(d) ==
    LET a == deleter[d].app IN
    /\ deleter[d].st = "waiting"
    /\ \A s \in deleter[d].waitsFor : service[a][s] = "closed"
    /\ app' = [app EXCEPT ![a].services = {}, ![a].isDeleted = TRUE]
    /\ deleter' = [deleter EXCEPT ![d].st = "done"]
    /\ UNCHANGED <<apps, service>>

\* Mutant: one rejection does not reject delete().
DeleteFails_All(d) ==
    /\ deleter[d].st = "waiting"
    /\ deleter[d].waitsFor # {}
    /\ \A s \in deleter[d].waitsFor : service[deleter[d].app][s] = "failed"
    /\ deleter' = [deleter EXCEPT ![d].st = "failed"]
    /\ UNCHANGED <<apps, app, service>>

\* Promise.all(...) is rejected: nothing more happens to the app.
DeleteFails(d) ==
    /\ deleter[d].st = "waiting"
    /\ \E s \in deleter[d].waitsFor : service[deleter[d].app][s] = "failed"
    /\ deleter' = [deleter EXCEPT ![d].st = "failed"]
    /\ UNCHANGED <<apps, app, service>>

-----------------------------------------------------------------------------
AppNext ==
    \/ \E a \in Apps : InitializeApp(a)
    \/ \E a \in Apps, s \in Services : GetService(a, s) \/ ServiceCloses(a, s)
    \/ \E d \in Deleters, a \in Apps : DeleteApp(d, a)
    \/ \E d \in Deleters, a \in Apps, s \in Services : DeleteThrows(d, a, s)
    \/ \E d \in Deleters : DeleteCompletes(d) \/ DeleteFails(d)

AppSpec == AppInit /\ [][AppNext]_appVars

\* Services answer delete(): every one of the SDK returns a settled promise.
AppFairness ==
    /\ \A a \in Apps, s \in Services : WF_appVars(ServiceCloses(a, s))
    /\ \A d \in Deleters : WF_appVars(DeleteCompletes(d) \/ DeleteFails(d))

AppFairSpec == AppSpec /\ AppFairness

-----------------------------------------------------------------------------
(* Properties. *)

\* An app whose delete() got as far as unregistering it is never found in the
\* registry again, whatever apps take its name (apps_ of the namespace).
DeletedNotRegistered ==
    \A n \in Names : apps[n] # NoApp =>
        app[apps[n]].created /\ ~app[apps[n]].called /\ app[apps[n]].name = n

\* A fulfilled delete() leaves an app that holds no service, creates no new one
\* and refreshes no token, also when another delete() of it overlapped and when
\* services were created meanwhile (checkDestroyed_ of ensureService_, delete).
DeletedIsEmpty ==
    \A d \in Deleters : deleter[d].st = "done" =>
        LET a == app[deleter[d].app]
        IN  a.isDeleted /\ a.services = {} /\ ~a.refreshing

\* A registered app is never displaced: its name is freed only by a delete()
\* of an app of that name (the duplicate check of initializeApp).
NoSilentReplacement ==
    [][\A n \in Names : apps[n] # NoApp /\ apps[n]' # apps[n] =>
          /\ apps[n]' = NoApp
          /\ \E d \in Deleters : deleter[d].st = "idle"
                /\ deleter[d]'.st \in {"waiting", "thrown"}
                /\ app[deleter[d]'.app].name = n]_appVars

\* Every delete() that did not throw settles.
DeleteSettles ==
    \A d \in Deleters :
        deleter[d].st = "waiting" ~> deleter[d].st \in {"done", "failed"}

\* delete() "frees the resources of all associated services" (src/index.d.ts): a
\* service of a deleted app has been closed, one created meanwhile included.  The code
\* drops that one unclosed.
FreesAllServices ==
    \A a \in Apps, s \in Services :
        app[a].isDeleted => service[a][s] \in {"none", "closed"}

\* The namespace's apps are all the apps that nobody has deleted (the comment
\* on the getter apps).
AppsAreTheNonDeleted ==
    \A a \in Apps : app[a].created /\ ~app[a].called => apps[app[a].name] = a
=============================================================================
