----------------------------- MODULE OfflineShell -----------------------------
(***************************************************************************)
(* What the service worker (client/public/sw.js) keeps in the browser and     *)
(* serves, while builds are deployed under it, instances of two of them answer  *)
(* for a while and at times none does (the static files of server/src/index.ts). *)
(*                                                                         *)
(* A build is its page, the hashed files that page loads, and static files of   *)
(* fixed names, which change with every build.                                *)
(***************************************************************************)
EXTENDS Naturals

CONSTANTS
    Builds,         \* 1..n, deployed in this order
    FilesOf(_),     \* the hashed files of a build
    Precached,      \* the static files of SHELL_URLS, without "/"
    Runtime         \* the other static files

VARIABLES
    instances,  \* the builds of which an instance answers; {} while the platform is down
    deployed,   \* the newest build
    installed,  \* whether the worker has been installed
    shell,      \* the cache SHELL: contents by URL, Missing where it has none
    assets,     \* the cache ASSETS
    puts,       \* pages on their way into SHELL
    received    \* what the page was last given, for which URL, and whether it said 200

shellVars == <<instances, deployed, installed, shell, assets, puts, received>>

Root == "/"
Hashes == UNION {FilesOf(b) : b \in Builds}
Files == Hashes \cup Precached \cup Runtime

\* The page has no file name of its own, and there is a first build.
ASSUME ShellAssumption == Root \notin Files /\ Builds \subseteq Nat /\ 1 \in Builds
Missing == [of |-> "nothing", build |-> 0]
\* A hashed file is the same in every build that has it.
Content(url, b) == [of |-> url, build |-> IF url \in Hashes THEN 0 ELSE b]

\* express.static, then the page for whatever else is asked, which is no 200 elsewhere
\* than at the root; the platform answers for a server that is not there.
AnswersFor(url) ==
    {IF url \in Hashes \ FilesOf(b) THEN [body |-> Content(Root, b), ok |-> FALSE]
     ELSE [body |-> Content(url, b), ok |-> TRUE] : b \in instances}
    \cup (IF instances = {} THEN {[body |-> [of |-> "gateway", build |-> 0], ok |-> FALSE]} ELSE {})

\* caches.match: SHELL was opened first, and is asked first.
Match(url) ==
    IF url \in {Root} \cup Precached /\ shell[url] # Missing THEN shell[url]
    ELSE IF url \in Files THEN assets[url] ELSE Missing

-----------------------------------------------------------------------------
(* The worker *)

\* install: all of SHELL_URLS or none; a failure does not block activation.
InstallWorker ==
    /\ ~installed /\ installed' = TRUE
    /\ \/ \E answer \in [{Root} \cup Precached -> UNION {AnswersFor(url) : url \in {Root} \cup Precached}] :
             /\ \A url \in DOMAIN answer : answer[url] \in AnswersFor(url) /\ answer[url].ok
             /\ shell' = [url \in DOMAIN answer |-> answer[url].body]
       \/ UNCHANGED shell
    /\ UNCHANGED <<instances, deployed, assets, puts, received>>

Gives(url, body, ok) == received' = [url |-> url, body |-> body, ok |-> ok]

\* A navigation goes to the network; its answer, whatever it says, becomes the shell.
NavigateOnline ==
    /\ installed /\ puts = {}   \* bound: one page at a time is on its way into SHELL
    /\ \E answer \in AnswersFor(Root) :
          Gives(Root, answer.body, answer.ok) /\ puts' = puts \cup {answer.body}
    /\ UNCHANGED <<instances, deployed, installed, shell, assets>>

PagePut ==
    \E page \in puts :
        /\ puts' = puts \ {page} /\ shell' = [shell EXCEPT ![Root] = page]
        /\ UNCHANGED <<instances, deployed, installed, assets, received>>

NavigateOffline ==
    /\ installed
    /\ Gives(Root, Match(Root), Match(Root) # Missing)
    /\ UNCHANGED <<instances, deployed, installed, shell, assets, puts>>

\* Mutant: an answer is kept whatever it says.
KeepsAny(url, answer) == assets' = [assets EXCEPT ![url] = answer.body]

\* What came is kept if it said 200.
Keeps(url, answer) == assets' = IF answer.ok THEN [assets EXCEPT ![url] = answer.body] ELSE assets

\* Under /assets/ a hit is not asked for again.
LoadHashed(url) ==
    /\ installed /\ UNCHANGED <<instances, deployed, installed, shell, puts>>
    /\ \/ /\ Match(url) # Missing
          /\ Gives(url, Match(url), TRUE) /\ UNCHANGED assets
       \/ /\ Match(url) = Missing
          /\ \E answer \in AnswersFor(url) : Gives(url, answer.body, answer.ok) /\ Keeps(url, answer)
       \/ /\ Match(url) = Missing   \* offline: a 504 the page can handle
          /\ Gives(url, Missing, FALSE) /\ UNCHANGED assets

\* Other files: from the cache, and the network's answer is kept behind it.
LoadStatic(url) ==
    /\ installed /\ UNCHANGED <<instances, deployed, installed, shell, puts>>
    /\ \E answer \in AnswersFor(url) :
          /\ IF Match(url) # Missing THEN Gives(url, Match(url), TRUE) ELSE Gives(url, answer.body, answer.ok)
          /\ Keeps(url, answer)

LoadStaticOffline(url) ==
    /\ installed /\ Match(url) # Missing
    /\ Gives(url, Match(url), TRUE)
    /\ UNCHANGED <<instances, deployed, installed, shell, assets, puts>>

-----------------------------------------------------------------------------
(* Deployments *)

Deploy ==
    /\ deployed + 1 \in Builds
    /\ deployed' = deployed + 1 /\ instances' = instances \cup {deployed + 1}
    /\ UNCHANGED <<installed, shell, assets, puts, received>>

OldInstancesStop ==
    /\ instances # {deployed} /\ instances' = {deployed}
    /\ UNCHANGED <<deployed, installed, shell, assets, puts, received>>

PlatformDown ==
    /\ instances # {} /\ instances' = {}
    /\ UNCHANGED <<deployed, installed, shell, assets, puts, received>>

ShellInit ==
    /\ instances = {1} /\ deployed = 1 /\ installed = FALSE
    /\ shell = [url \in {Root} \cup Precached |-> Missing]
    /\ assets = [url \in Files |-> Missing]
    /\ puts = {} /\ received = [url |-> Root, body |-> Content(Root, 1), ok |-> TRUE]

ShellNext ==
    \/ InstallWorker \/ NavigateOnline \/ PagePut \/ NavigateOffline
    \/ \E url \in Hashes : LoadHashed(url)
    \/ \E url \in Precached \cup Runtime : LoadStatic(url) \/ LoadStaticOffline(url)
    \/ Deploy \/ OldInstancesStop \/ PlatformDown

ShellSpec == ShellInit /\ [][ShellNext]_shellVars

-----------------------------------------------------------------------------
(* Properties *)

ShellTypeOK ==
    LET Contents(url) == {Missing} \cup {Content(url, b) : b \in Builds}
    IN  /\ instances \subseteq 1..deployed /\ deployed \in Builds /\ installed \in BOOLEAN
        /\ DOMAIN shell = {Root} \cup Precached /\ DOMAIN assets = Files
        /\ \A url \in Precached : shell[url] \in Contents(url)
        /\ received.ok \in BOOLEAN

\* "Build output is content-hashed, so a hit is always correct": a file the page was
\* given with a 200 is that file and no other, although an instance of another build
\* answers for a file it does not have with its page, and the platform with a page of
\* its own; so no cache ever holds one under the name of another.
HitIsCorrect ==
    /\ received.ok /\ received.url \in Files => received.body.of = received.url
    /\ \A url \in Files : assets[url] # Missing => assets[url].of = url
=============================================================================
