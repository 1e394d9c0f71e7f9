----------------------------- MODULE EnrollPage -----------------------------
(***************************************************************************)
(* The enrollment screen, and the portal's side of an enrollment.          *)
(*                                                                         *)
(* An operator picks a person, opens the camera, confirms the person's     *)
(* consent and starts a capture, which submits its photos by itself.  A    *)
(* person with a worker's row is enrolled anew, under the revision of the  *)
(* identity the screen has read; one without gets a row.  The portal       *)
(* checks, has the photos encoded, which takes time, and saves.            *)
(* Meanwhile the role may be revoked and granted again, the page may be    *)
(* left, others edit or remove workers, and answers are lost.  A revoked   *)
(* request goes on at the portal.                                          *)
(*                                                                         *)
(* A photo is of the person named on the screen while it is taken.  A      *)
(* request reaches the portal within the unit of time in which it is sent. *)
(* Left out: people entered by hand, names and ids in use (a refusal),     *)
(* clocks that disagree (an expired consent), and quality of photos.       *)
(***************************************************************************)
EXTENDS Integers, Sequences

CONSTANTS
    Workers,          \* people who have a row at first
    Recruits,         \* people of the company's roster who have none
    Nobody,
    ConsentLife,      \* BIOMETRIC_CONSENT_MAX_AGE_MS
    Required,         \* CAPTURES_REQUIRED
    MaxTime,
    MaxConsents,
    MaxEdits          \* changes by others, of identities and of the role

EnrollPageAssumption ==
    /\ Workers \cap Recruits = {}
    /\ Nobody \notin Workers \cup Recruits
    /\ ConsentLife \in Nat
    /\ Required \in Nat \ {0}
    /\ MaxTime \in Nat

People == Workers \cup Recruits

VARIABLES
    hour,
    identity,         \* version of each person's identity, 0 without active row
    faces,            \* what is stored of each person
    edits,            \* versions handed out beyond the first
    allowed,          \* the operator's role, as the page knows it
    step,
    target,           \* the person on the screen
    revision,         \* the identity the page has read
    loading,          \* a read of it is under way
    consent,
    consents,         \* how many were confirmed
    opening,          \* requests for the camera: "current", "retired"
    stream,
    photos,           \* whom the captured photos show
    submitted,        \* number of the request whose answer the page waits for
    submissions,      \* the requests at the portal
    enrolled          \* history: the saves, with the identity each one met

server == <<identity, faces, edits, submissions, enrolled>>
camera == <<opening, stream, photos>>
person == <<target, revision, loading>>
agreed == <<consent, consents>>
vars == <<hour, server, allowed, step, person, agreed, camera, submitted>>

NoTarget == [who |-> Nobody, row |-> FALSE, url |-> FALSE]
Unread == [of |-> Nobody, version |-> 0]
NoConsent == [of |-> Nobody, saw |-> 0, at |-> 0, number |-> 0]
NoFace == [photos |-> <<>>, consent |-> NoConsent, at |-> 0]

Init ==
    /\ hour = 0
    /\ identity = [p \in People |-> IF p \in Workers THEN 1 ELSE 0]
    /\ faces = [p \in People |-> NoFace]
    /\ edits = 0
    /\ allowed = TRUE
    /\ step = "name"
    /\ target = NoTarget
    /\ revision = Unread
    /\ loading = FALSE
    /\ consent = NoConsent
    /\ consents = 0
    /\ opening = {}
    /\ stream = FALSE
    /\ photos = <<>>
    /\ submitted = 0
    /\ submissions = {}
    /\ enrolled = {}

-----------------------------------------------------------------------------
(* The person.                                                             *)

\* The effect that follows the choice of a worker: the consent and the revision
\* are dropped, and the worker is read again.
Choose(t) ==
    /\ target' = t
    /\ revision' = Unread
    /\ loading' = t.row
    /\ consent' = NoConsent
    /\ UNCHANGED consents

\* From the directory, which may be of before a row was made.
selectEmployee(p) ==
    /\ allowed
    /\ step = "name"
    /\ target = NoTarget
    /\ \E row \in BOOLEAN :
        /\ IF row THEN identity[p] # 0 ELSE p \in Recruits
        /\ Choose([who |-> p, row |-> row, url |-> FALSE])
    /\ UNCHANGED <<hour, server, allowed, step, camera, submitted>>

\* "Change": the consent falls only with a worker's row.
Unselect ==
    /\ step = "name"
    /\ target # NoTarget
    /\ ~target.url
    /\ target' = NoTarget
    /\ revision' = IF target.row THEN Unread ELSE revision
    /\ loading' = FALSE
    /\ consent' = IF target.row THEN NoConsent ELSE consent
    /\ UNCHANGED <<hour, server, allowed, step, consents, camera, submitted>>

\* The worker is read, or is not active any more.
loadWorker ==
    /\ loading
    /\ loading' = FALSE
    /\ IF identity[target.who] # 0
       THEN /\ revision' = [of |-> target.who, version |-> identity[target.who]]
            /\ UNCHANGED step
       ELSE /\ step' = "error"
            /\ UNCHANGED revision
    /\ UNCHANGED <<hour, server, allowed, target, agreed, camera, submitted>>

IdentityRead == target.row => revision.of = target.who

-----------------------------------------------------------------------------
(* The camera.                                                             *)

Retired == IF opening = {} THEN {} ELSE {"retired"}

\* The capture's timer ends with the stream.
stopCamera ==
    /\ opening' = Retired
    /\ stream' = FALSE

startCamera ==
    /\ allowed
    /\ step = "name"
    /\ target # NoTarget
    /\ "current" \notin opening
    /\ IdentityRead
    /\ consent' = NoConsent
    /\ opening' = opening \cup {"current"}
    /\ UNCHANGED <<hour, server, allowed, step, person, consents, stream, photos,
                   submitted>>

\* A camera nobody waits for is released at once.
CameraGranted(o) ==
    /\ o \in opening
    /\ opening' = opening \ {o}
    /\ IF o = "current" /\ allowed
       THEN stream' = TRUE /\ step' = "camera"
       ELSE UNCHANGED <<stream, step>>
    /\ UNCHANGED <<hour, server, allowed, person, agreed, photos, submitted>>

CameraDenied ==
    /\ "current" \in opening
    /\ opening' = opening \ {"current"}
    /\ step' = "error"
    /\ UNCHANGED <<hour, server, allowed, person, agreed, stream, photos,
                   submitted>>

Back ==
    /\ step = "camera"
    /\ stopCamera
    /\ step' = "name"
    /\ UNCHANGED <<hour, server, allowed, person, agreed, photos, submitted>>

-----------------------------------------------------------------------------
(* Consent and capture.                                                    *)

\* The box is checked, or unchecked.
ConfirmConsent ==
    /\ step = "camera"
    /\ IF consent # NoConsent
       THEN consent' = NoConsent /\ UNCHANGED consents
       ELSE /\ consents < MaxConsents
            /\ consents' = consents + 1
            /\ consent' = [of |-> target.who, at |-> hour, number |-> consents + 1,
                           saw |-> IF target.row THEN revision.version ELSE 0]
    /\ UNCHANGED <<hour, server, allowed, step, person, camera, submitted>>

isRecentBiometricConsentAge(age) == age <= ConsentLife

ConsentHolds ==
    consent # NoConsent /\ isRecentBiometricConsentAge(hour - consent.at)

startCapturing ==
    /\ allowed
    /\ step = "camera"
    /\ stream
    /\ consent # NoConsent
    /\ IF ConsentHolds
       THEN /\ step' = "capturing"
            /\ photos' = <<>>
            /\ UNCHANGED <<consent, opening, stream>>
       ELSE /\ consent' = NoConsent
            /\ stopCamera
            /\ step' = "error"
            /\ UNCHANGED photos
    /\ UNCHANGED <<hour, server, allowed, person, consents, submitted>>

\* What a re-enrollment under this address may also change: an administrator's
\* edits of the name, the id or the department.
Edits == IF target.url THEN BOOLEAN ELSE {FALSE}

\* The request, or an error before it is sent.
submitEnrollment(captured) ==
    IF IdentityRead /\ ConsentHolds
    THEN /\ \E edited \in Edits :
                submissions' = submissions \cup
                    {[number |-> consents, to |-> target.who, row |-> target.row,
                      edited |-> edited, expected |-> revision.version,
                      photos |-> captured, consent |-> consent,
                      age |-> hour - consent.at, since |-> 0,
                      stage |-> "sent"]}
         /\ submitted' = consents
         /\ step' = "processing"
         /\ UNCHANGED consent
    ELSE /\ step' = "error"
         /\ consent' = IF IdentityRead THEN NoConsent ELSE consent
         /\ UNCHANGED <<submissions, submitted>>

doCapture ==
    /\ allowed
    /\ step = "capturing"
    /\ stream
    /\ LET captured == Append(photos, target.who) IN
        /\ photos' = captured
        /\ IF Len(captured) = Required
           THEN stopCamera /\ submitEnrollment(captured)
           ELSE UNCHANGED <<opening, stream, step, consent, submissions, submitted>>
    /\ UNCHANGED <<hour, identity, faces, edits, enrolled, allowed, person, consents>>

\* Six attempts without enough images.
CaptureFails ==
    /\ step = "capturing"
    /\ stopCamera
    /\ step' = "error"
    /\ UNCHANGED <<hour, server, allowed, person, agreed, photos, submitted>>

-----------------------------------------------------------------------------
(* The portal.                                                             *)

\* A slip: the revision is compared before the encoding only.
StillActive(r) == IF r.row THEN identity[r.to] # 0 ELSE identity[r.to] = 0

\* A worker's identity is still the one that was read; a person without a row
\* has none by now, or an inactive one.
IdentityStands(r) ==
    IF r.row THEN identity[r.to] # 0 /\ identity[r.to] = r.expected
             ELSE identity[r.to] = 0

\* A slip: the consent counts from the arrival of the request.
ConsentAtArrival(r) == hour

\* When the consent was given, by the portal's clock.
ConsentTime(r) == hour - r.age

Accept(r) ==
    /\ r \in submissions
    /\ r.stage = "sent"
    /\ r.to # Nobody
    /\ isRecentBiometricConsentAge(r.age)
    /\ IdentityStands(r)
    /\ submissions' = (submissions \ {r}) \cup
                    {[r EXCEPT !.stage = "encoding", !.since = ConsentTime(r)]}
    /\ UNCHANGED <<hour, identity, faces, edits, enrolled, allowed, step, person,
                   agreed, camera, submitted>>

Save(r) ==
    /\ r \in submissions
    /\ r.stage = "encoding"
    /\ isRecentBiometricConsentAge(hour - r.since)
    /\ IdentityStands(r)
    /\ (r.edited \/ ~r.row) => edits < MaxEdits
    /\ IF r.edited \/ ~r.row
       THEN /\ edits' = edits + 1
            /\ identity' = [identity EXCEPT ![r.to] = edits + 2]
       ELSE UNCHANGED <<edits, identity>>
    /\ faces' = [faces EXCEPT ![r.to] =
                    [photos |-> r.photos, consent |-> r.consent, at |-> hour]]
    /\ enrolled' = enrolled \cup {[consent |-> r.consent, row |-> r.row,
                                 met |-> identity[r.to]]}
    /\ submissions' = (submissions \ {r}) \cup {[r EXCEPT !.stage = "saved"]}
    /\ UNCHANGED <<hour, allowed, step, person, agreed, camera, submitted>>

\* A slip: any answer counts while the role is held.
WhileAllowed(r) == allowed

\* The controller of the request is not aborted, nor the role's grant gone.
isCurrent(r) == allowed /\ submitted = r.number

\* The request is refused, or it or its answer is lost, or it was saved.
Answer(r) ==
    /\ r \in submissions
    /\ submissions' = submissions \ {r}
    /\ IF isCurrent(r)
       THEN /\ step' \in {s \in {"error", "done"} : s = "done" => r.stage = "saved"}
            /\ stopCamera
            /\ submitted' = 0
       ELSE UNCHANGED <<step, opening, stream, submitted>>
    /\ UNCHANGED <<hour, identity, faces, edits, enrolled, allowed, person, agreed,
                   photos>>

-----------------------------------------------------------------------------
(* What ends an enrollment.                                                *)

\* Everything the page holds is dropped.
Drop ==
    /\ stopCamera
    /\ submitted' = 0
    /\ photos' = <<>>
    /\ step' = "name"

RoleRevoked ==
    /\ allowed
    /\ edits < MaxEdits
    /\ edits' = edits + 1
    /\ allowed' = FALSE
    /\ Drop
    /\ Choose([target EXCEPT !.who = IF target.url THEN @ ELSE Nobody,
                             !.row = FALSE])
    /\ UNCHANGED <<hour, identity, faces, submissions, enrolled>>

RoleGranted ==
    /\ ~allowed
    /\ allowed' = TRUE
    /\ Choose([target EXCEPT !.row = target.url])
    /\ UNCHANGED <<hour, server, step, camera, submitted>>

\* The page of another worker, or the plain page, is a page of its own.
Navigate ==
    /\ \E p \in People \cup {Nobody} :
        /\ p # Nobody => identity[p] # 0
        /\ p # target.who \/ ~target.url
        /\ Choose([who |-> p, row |-> p # Nobody /\ allowed, url |-> p # Nobody])
    /\ Drop
    /\ UNCHANGED <<hour, server, allowed>>

enrollNext ==
    /\ step = "done"
    /\ Drop
    /\ Choose(NoTarget)
    /\ UNCHANGED <<hour, server, allowed>>

\* The camera is not touched, nor the consent of a person without a row.
TryAgain ==
    /\ step = "error"
    /\ step' = "name"
    /\ photos' = <<>>
    /\ IF target.row THEN Choose(target) ELSE UNCHANGED <<person, agreed>>
    /\ UNCHANGED <<hour, server, allowed, opening, stream, submitted>>

-----------------------------------------------------------------------------
(* Others.                                                                 *)

EditElsewhere(p) ==
    /\ edits < MaxEdits
    /\ identity[p] # 0
    /\ edits' = edits + 1
    /\ \E version \in {0, edits + 2} :
            identity' = [identity EXCEPT ![p] = version]
    /\ UNCHANGED <<hour, faces, submissions, enrolled, allowed, step, person, agreed,
                   camera, submitted>>

Tick ==
    /\ hour < MaxTime
    /\ \A r \in submissions : r.stage # "sent"
    /\ hour' = hour + 1
    /\ UNCHANGED <<server, allowed, step, person, agreed, camera, submitted>>

-----------------------------------------------------------------------------
Operate ==
    \/ \E p \in People : selectEmployee(p)
    \/ Unselect
    \/ loadWorker
    \/ startCamera
    \/ \E o \in opening : CameraGranted(o)
    \/ CameraDenied
    \/ Back
    \/ ConfirmConsent
    \/ startCapturing
    \/ doCapture
    \/ CaptureFails
    \/ Navigate
    \/ enrollNext
    \/ TryAgain

Next ==
    \/ Operate
    \/ \E r \in submissions : Accept(r) \/ Save(r) \/ Answer(r)
    \/ RoleRevoked
    \/ RoleGranted
    \/ \E p \in People : EditElsewhere(p)
    \/ Tick

Spec == Init /\ [][Next]_vars

-----------------------------------------------------------------------------
\* A stored face is the one of the person it is stored for, who had agreed to it
\* on the screen that showed them, and no longer before than a consent lives;
\* whatever was picked, left, revoked or delayed in between.
FaceOfConsented ==
    \A p \in People : faces[p] # NoFace =>
        /\ faces[p].photos = [i \in 1..Required |-> p]
        /\ faces[p].consent.of = p
        /\ isRecentBiometricConsentAge(faces[p].at - faces[p].consent.at)

\* The page reports an enrollment as done only if it was saved, under the consent
\* just given by the person it shows.
DoneIsSaved ==
    step = "done" =>
        /\ \E e \in enrolled : e.consent = consent
        /\ consent.of = target.who

\* A worker enrolled anew still is who the operator saw when the consent was
\* given: an enrollment never goes over an edit made meanwhile.
EnrolledAsSeen ==
    \A e \in enrolled : e.row /\ e.consent.saw # 0 => e.consent.saw = e.met
=============================================================================
