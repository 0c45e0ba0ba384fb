----------------------------- MODULE ContainerForm -----------------------------
(***************************************************************************)
(* The form that creates a container: choosing an image, loading its       *)
(* metadata from the registry into the form, asking for resources, and     *)
(* submitting.  The fieldset is disabled while metadata load; everything   *)
(* else may interleave with the two requests and with the registry.        *)
(*                                                                         *)
(* Services and environment variables are told apart only by where they    *)
(* come from: an image's metadata or the user.  Of the resources one is    *)
(* kept, which is the default or lowered by the user (approved at once).   *)
(***************************************************************************)
EXTENDS Naturals, FiniteSets

CONSTANTS
  BuiltIn,      \* images of the template list
  Customs,      \* images that can be typed
  Bare,         \* images without an entrypoint
  FormHostnames,        \* hostnames
  NoImage,
  MaxInputs,    \* bound: what the user does
  MaxMisses,    \* bound: requests that fail
  RETRIES       \* further attempts at the registry; 2 in the code

Images == BuiltIn \cup Customs
Templates == BuiltIn \cup {"", "custom"}
ASSUME FormImages == NoImage \notin Images /\ Bare \subseteq Images /\ BuiltIn \cap {"", "custom"} = {}
ASSUME FormBounds == MaxInputs \in Nat /\ MaxMisses \in Nat /\ RETRIES \in Nat

VARIABLES
  fields,       \* the fields: template, custom, where entries and entrypoint come from
  focused,    \* the cursor is in the custom field
  lastAuto,   \* lastAutoFetchedImage
  load,       \* the metadata request
  unloaded,   \* history: no metadata have been loaded since the image was last changed
  typed,      \* hostname in the field
  shown,      \* hostname in the resources section, 500 ms behind
  effective,  \* the manager: hostname -> approved value
  cached,     \* the query cache: hostname -> value, or "none"
  refetch,    \* hostname -> a refetch is under way, and what it has read
  failed,     \* history: hostnames whose last fetch has failed
  ask,        \* the resource request
  unshown,    \* history: hostnames whose request was answered without a new fetch
  sent,       \* what the form has submitted, and whether that is under way
  inputs, misses

formVars == <<fields, focused, lastAuto, load, unloaded, typed, shown, effective,
              cached, refetch, failed, ask, unshown, sent, inputs, misses>>
imageVars == <<fields, focused, lastAuto, load, unloaded>>
resourceVars == <<typed, shown, effective, cached, refetch, failed, ask, unshown>>

ByHand == "user"
NoLoad == [pc |-> "idle", image |-> NoImage, tries |-> 0]
NoAsk == [pc |-> "idle", name |-> "", value |-> "default"]
NotSent == [pc |-> "no", image |-> NoImage, entries |-> {}, entrypoint |-> "", unloaded |-> FALSE]

Loading == load.pc # "idle"
Input == inputs < MaxInputs /\ inputs' = inputs + 1
Miss == misses < MaxMisses /\ misses' = misses + 1

\* The page is there, and a click is possible: the cursor is in no field.
StillOpen == sent.pc # "created"
Enabled == StillOpen /\ ~Loading /\ ~focused

Image == IF fields.template = "custom" THEN fields.custom
         ELSE IF fields.template = "" THEN NoImage ELSE fields.template

-----------------------------------------------------------------------------
(* The image *)

Fetch(img) == load' = [NoLoad EXCEPT !.pc = "manifest", !.image = img]

\* A built-in template's metadata load at once; those of a custom one when its field is left.
ChooseTemplate(t) ==
  /\ Enabled /\ Input
  /\ fields' = [fields EXCEPT !.template = t]
  /\ IF t \in BuiltIn THEN Fetch(t) ELSE UNCHANGED load
  /\ unloaded' = TRUE
  /\ UNCHANGED <<focused, lastAuto, sent, misses>>
  /\ UNCHANGED resourceVars

TypeCustom(img) ==
  /\ Enabled \/ (StillOpen /\ focused)
  /\ Input
  /\ fields.template = "custom"
  /\ fields' = [fields EXCEPT !.custom = img]
  /\ focused' = TRUE
  /\ unloaded' = (unloaded \/ img # fields.custom)
  /\ UNCHANGED <<lastAuto, load, sent, misses>>
  /\ UNCHANGED resourceVars

\* handleCustomImageBlur: nothing is fetched for what was fetched here before.
BlurCustom ==
  /\ focused
  /\ focused' = FALSE
  /\ IF fields.custom \in {NoImage, lastAuto} THEN UNCHANGED <<lastAuto, load>>
     ELSE lastAuto' = fields.custom /\ Fetch(fields.custom)
  /\ UNCHANGED <<fields, unloaded, sent, inputs, misses>>
  /\ UNCHANGED resourceVars

FetchMetadata ==
  /\ Enabled /\ Input
  /\ Image # NoImage
  /\ lastAuto' = Image
  /\ Fetch(Image)
  /\ UNCHANGED <<fields, focused, unloaded, sent, misses>>
  /\ UNCHANGED resourceVars

\* Entries added, and an entrypoint typed, by hand.
AddEntry ==
  /\ Enabled /\ Input
  /\ fields' = [fields EXCEPT !.entries = @ \cup {ByHand}]
  /\ UNCHANGED <<focused, lastAuto, load, unloaded, sent, misses>>
  /\ UNCHANGED resourceVars

RemoveEntries(source) ==
  /\ Enabled /\ Input
  /\ source \in fields.entries
  /\ fields' = [fields EXCEPT !.entries = @ \ {source}]
  /\ UNCHANGED <<focused, lastAuto, load, unloaded, sent, misses>>
  /\ UNCHANGED resourceVars

TypeEntrypoint ==
  /\ Enabled /\ Input
  /\ fields' = [fields EXCEPT !.entrypoint = ByHand]
  /\ UNCHANGED <<focused, lastAuto, load, unloaded, sent, misses>>
  /\ UNCHANGED resourceVars

-----------------------------------------------------------------------------
(* The registry, as GET /metadata reads it *)

\* The manifest by its tag; what it refers to (the manifest of the architecture, the
\* config blob) by digest.
ReadManifest ==
  /\ load.pc = "manifest"
  /\ load' = [load EXCEPT !.pc = "config"]
  /\ UNCHANGED <<fields, focused, lastAuto, unloaded, sent, inputs, misses>>
  /\ UNCHANGED resourceVars

ReadConfig ==
  /\ load.pc = "config"
  /\ load' = [load EXCEPT !.pc = "answered"]
  /\ UNCHANGED <<fields, focused, lastAuto, unloaded, sent, inputs, misses>>
  /\ UNCHANGED resourceVars

\* withRetry: a timeout, a lost connection or a 5xx starts again; anything else, and
\* the last attempt, is the error.
RegistryFails ==
  /\ load.pc \in {"manifest", "config"}
  /\ Miss
  /\ \/ load.tries < RETRIES /\ load' = [load EXCEPT !.pc = "manifest", !.tries = @ + 1]
     \/ load' = [load EXCEPT !.pc = "refused"]
  /\ UNCHANGED <<fields, focused, lastAuto, unloaded, sent, inputs>>
  /\ UNCHANGED resourceVars

\* Mutant of MetadataLoaded: the entries of an earlier load stay.
LoadedOnTop == [fields EXCEPT !.entries = @ \cup {load.image}]

\* onSuccess: all entries are replaced, the entrypoint only if the image has one.
MetadataLoaded ==
  [fields EXCEPT !.entries = {load.image},
               !.entrypoint = IF load.image \in Bare THEN @ ELSE load.image]

MetadataArrive ==
  /\ load.pc = "answered"
  /\ fields' = MetadataLoaded
  /\ load' = NoLoad
  /\ unloaded' = FALSE
  /\ UNCHANGED <<focused, lastAuto, sent, inputs, misses>>
  /\ UNCHANGED resourceVars

\* onError: a message.
MetadataFail ==
  /\ load.pc = "refused" \/ (load.pc = "answered" /\ misses < MaxMisses)
  /\ misses' = IF load.pc = "refused" THEN misses ELSE misses + 1
  /\ load' = NoLoad
  /\ UNCHANGED <<fields, focused, lastAuto, unloaded, sent, inputs>>
  /\ UNCHANGED resourceVars

-----------------------------------------------------------------------------
(* Resources *)

TypeHostname(name) ==
  /\ Enabled /\ Input
  /\ typed # name
  /\ typed' = name
  /\ UNCHANGED <<shown, effective, cached, refetch, failed, ask, unshown, sent, misses>>
  /\ UNCHANGED imageVars

Refetch(name) == refetch' = [refetch EXCEPT ![name] = "asked"]

\* isLoading: a fetch without a value to show meanwhile.
FirstFetch(name) == cached[name] = "none" /\ refetch[name] # "no"

\* The debounced hostname: its value is fetched if the cache has none, or an old
\* one, and never for an empty hostname.
Settle ==
  /\ StillOpen /\ shown # typed
  /\ shown' = typed
  /\ \/ typed = "" /\ UNCHANGED refetch
     \/ typed # "" /\ refetch[typed] = "no" /\ Refetch(typed)
     \/ typed # "" /\ ~(refetch[typed] = "no" /\ cached[typed] = "none") /\ UNCHANGED refetch
  /\ UNCHANGED <<typed, effective, cached, failed, ask, unshown, sent, inputs, misses>>
  /\ UNCHANGED imageVars

ReadEffective(name) ==
  /\ refetch[name] = "asked"
  /\ refetch' = [refetch EXCEPT ![name] = effective[name]]
  /\ UNCHANGED <<typed, shown, effective, cached, failed, ask, unshown, sent, inputs, misses>>
  /\ UNCHANGED imageVars

EffectiveArrives(name) ==
  /\ refetch[name] \in {"default", "lowered"}
  /\ cached' = [cached EXCEPT ![name] = refetch[name]]
  /\ refetch' = [refetch EXCEPT ![name] = "no"]
  /\ failed' = failed \ {name}
  /\ UNCHANGED <<typed, shown, effective, ask, unshown, sent, inputs, misses>>
  /\ UNCHANGED imageVars

\* The fetch fails, before or after the manager has read: the client tries again (its
\* attempts are not counted) or gives up and keeps the value it has, if any.
EffectiveFails(name) ==
  /\ refetch[name] # "no"
  /\ Miss
  /\ \/ Refetch(name) /\ UNCHANGED failed
     \/ refetch' = [refetch EXCEPT ![name] = "no"] /\ failed' = failed \cup {name}
  /\ UNCHANGED <<typed, shown, effective, cached, ask, unshown, sent, inputs>>
  /\ UNCHANGED imageVars

\* The request is for the hostname the section shows, once its value is there or its
\* first fetch has failed, when the defaults are shown.
RequestResource(value) ==
  /\ Enabled /\ Input
  /\ ask.pc = "idle" /\ shown # "" /\ ~FirstFetch(shown)
  /\ ask' = [pc |-> "asked", name |-> shown, value |-> value]
  /\ UNCHANGED <<typed, shown, effective, cached, refetch, failed, unshown, sent, misses>>
  /\ UNCHANGED imageVars

\* POST /resource-requests: a value not above the default is approved on the spot.
GrantResource ==
  /\ ask.pc = "asked"
  /\ effective' = [effective EXCEPT ![ask.name] = ask.value]
  /\ ask' = [ask EXCEPT !.pc = "granted"]
  /\ UNCHANGED <<typed, shown, cached, refetch, failed, unshown, sent, inputs, misses>>
  /\ UNCHANGED imageVars

\* Mutant of EffectiveStale: a fetch that is under way is left to finish.
InvalidatedLazily(name) == IF refetch[name] = "no" THEN "asked" ELSE refetch[name]

\* invalidateQueries on a query that is shown: a fetch under way starts again, unless
\* it is the first.
EffectiveStale(name) == IF FirstFetch(name) THEN refetch[name] ELSE "asked"

\* onSuccess invalidates the value of the hostname that is shown by then.
ResourceAnswered ==
  /\ ask.pc = "granted"
  /\ ask' = NoAsk
  /\ IF shown # "" THEN refetch' = [refetch EXCEPT ![shown] = EffectiveStale(shown)]
     ELSE UNCHANGED refetch
  /\ unshown' = IF shown = ask.name /\ ~FirstFetch(shown) THEN unshown ELSE unshown \cup {ask.name}
  /\ UNCHANGED <<typed, shown, effective, cached, failed, sent, inputs, misses>>
  /\ UNCHANGED imageVars

\* onError, also if the request was granted and its answer is lost.
ResourceRefused ==
  /\ ask.pc \in {"asked", "granted"}
  /\ Miss
  /\ ask' = NoAsk
  /\ unshown' = IF ask.pc = "granted" THEN unshown \cup {ask.name} ELSE unshown
  /\ UNCHANGED <<typed, shown, effective, cached, refetch, failed, sent, inputs>>
  /\ UNCHANGED imageVars

-----------------------------------------------------------------------------
(* Submitting *)

\* The button, or Enter in a field, which does not leave the field.
Submit ==
  /\ StillOpen /\ ~Loading /\ Input
  /\ sent.pc # "sent"
  /\ typed # "" /\ Image # NoImage
  /\ sent' = [pc |-> "sent", image |-> Image, entries |-> fields.entries,
              entrypoint |-> fields.entrypoint, unloaded |-> unloaded]
  /\ UNCHANGED <<misses>>
  /\ UNCHANGED imageVars /\ UNCHANGED resourceVars

SubmitAnswered ==
  /\ sent.pc = "sent"
  /\ \/ sent' = [sent EXCEPT !.pc = "created"] /\ UNCHANGED misses
     \/ sent' = NotSent /\ Miss
  /\ UNCHANGED <<inputs>>
  /\ UNCHANGED imageVars /\ UNCHANGED resourceVars

-----------------------------------------------------------------------------

FormInit ==
  /\ fields = [template |-> "", custom |-> NoImage, entries |-> {}, entrypoint |-> ""]
  /\ focused = FALSE /\ lastAuto = NoImage /\ load = NoLoad /\ unloaded = FALSE
  /\ typed = "" /\ shown = ""
  /\ effective = [n \in FormHostnames |-> "default"]
  /\ cached = [n \in FormHostnames |-> "none"] /\ refetch = [n \in FormHostnames |-> "no"]
  /\ failed = {} /\ ask = NoAsk /\ unshown = {} /\ sent = NotSent
  /\ inputs = 0 /\ misses = 0

FormNext ==
  \/ \E t \in Templates : ChooseTemplate(t)
  \/ \E i \in Customs : TypeCustom(i)
  \/ BlurCustom \/ FetchMetadata \/ AddEntry \/ TypeEntrypoint
  \/ \E s \in fields.entries : RemoveEntries(s)
  \/ ReadManifest \/ ReadConfig \/ RegistryFails \/ MetadataArrive \/ MetadataFail
  \/ \E n \in FormHostnames \cup {""} : TypeHostname(n)
  \/ \E n \in FormHostnames : ReadEffective(n) \/ EffectiveArrives(n) \/ EffectiveFails(n)
  \/ Settle
  \/ \E v \in {"default", "lowered"} : RequestResource(v)
  \/ GrantResource \/ ResourceAnswered \/ ResourceRefused
  \/ Submit \/ SubmitAnswered

FormSpec == FormInit /\ [][FormNext]_formVars

-----------------------------------------------------------------------------
(* Properties *)

FormFields ==
  [template : Templates, custom : Images \cup {NoImage},
   entries : SUBSET (Images \cup {ByHand}), entrypoint : Images \cup {ByHand, ""}]
MetadataLoad ==
  [pc : {"idle", "manifest", "config", "answered", "refused"},
   image : Images \cup {NoImage}, tries : 0 .. RETRIES]
FormValues == {"default", "lowered"}
ResourceAsk == [pc : {"idle", "asked", "granted"}, name : FormHostnames \cup {""}, value : FormValues]
Submission ==
  [pc : {"no", "sent", "created"}, image : Images \cup {NoImage},
   entries : SUBSET (Images \cup {ByHand}), entrypoint : Images \cup {ByHand, ""}, unloaded : BOOLEAN]

FormTypeOK ==
  /\ fields \in FormFields /\ load \in MetadataLoad /\ ask \in ResourceAsk /\ sent \in Submission
  /\ focused \in BOOLEAN /\ unloaded \in BOOLEAN /\ lastAuto \in Images \cup {NoImage}
  /\ typed \in FormHostnames \cup {""} /\ shown \in FormHostnames \cup {""}
  /\ effective \in [FormHostnames -> FormValues]
  /\ cached \in [FormHostnames -> FormValues \cup {"none"}]
  /\ refetch \in [FormHostnames -> FormValues \cup {"no", "asked"}]
  /\ failed \subseteq FormHostnames /\ unshown \subseteq FormHostnames
  /\ inputs \in 0 .. MaxInputs /\ misses \in 0 .. MaxMisses

\* What a container is created with and the user has not entered belongs to its image,
\* however images were chosen and typed and loads interleaved, unless no metadata have
\* been loaded since the image was last changed (the request failed, or the custom field
\* was not left or held what was fetched before).  An image without an entrypoint
\* inherits the last one.
FormMatchesImage ==
  (sent.pc # "no" /\ ~sent.unloaded) =>
     /\ sent.entries \subseteq {sent.image, ByHand}
     /\ sent.image \in Bare \/ sent.entrypoint \in {sent.image, ByHand}

\* The resources shown for a hostname are those its requests have obtained, once nothing
\* is under way, unless the last fetch has failed (what was there, or the defaults, are
\* shown then), or a request was answered while no new fetch could follow: the answer was
\* lost, the hostname had been edited, or its first fetch was under way (again).
OwnRequestIsShown ==
  \A n \in FormHostnames :
    (ask.pc = "idle" /\ refetch[n] = "no" /\ cached[n] # "none" /\ n \notin failed \cup unshown)
       => cached[n] = effective[n]

\* What the form shows and sends is what the image and the requests have given it.
FormHolds == FormMatchesImage /\ OwnRequestIsShown

=============================================================================
