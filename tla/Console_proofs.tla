---------------------------- MODULE Console_proofs ----------------------------
(***************************************************************************)
(* What a manager sees and saves through the console, for all values of    *)
(* the constants:                                                          *)
(*   ContainerForm      what is submitted and was not typed belongs to the *)
(*                      image, and a value shown is what was obtained;     *)
(*   ContainerPages     pages take back nothing the user has typed and     *)
(*                      hide nothing he has done;                          *)
(*   AdminForms         an administrator's edit stays until somebody else  *)
(*                      writes that field;                                 *)
(*   ContainerServices  requests that add and remove services at the same  *)
(*                      time leave DNS records that follow the hostnames,  *)
(*                      and are refused only for what they asked.          *)
(***************************************************************************)
EXTENDS ContainerForm, ContainerPages, AdminForms, ContainerServices,
        FiniteSetTheorems, SequenceTheorems, WellFoundedInduction, TLAPS

-----------------------------------------------------------------------------
(* The form that creates a container *)

(* The invariant *)

\* The form waits for the metadata of the image it shows; its field is left by then.
LoadsItsImage ==
  /\ focused => fields.template = "custom" /\ ~Loading
  /\ Loading => load.image = Image /\ Image # NoImage

\* What metadata have been loaded belong to the image that is shown.
FieldsMatch ==
  ~unloaded =>
    /\ fields.entries \subseteq {Image, ByHand}
    /\ Image = NoImage \/ Image \in Bare \/ fields.entrypoint \in {Image, ByHand}

\* A request is for a hostname that has been shown.
AsksForKnown == ask.pc # "idle" => ask.name \in FormHostnames \ {""}

\* Until the request for a hostname is granted, and after its answer, what a fetch has read
\* is what there is, and what the cache has too, unless it is being fetched or that failed.
Unanswered(n) == ask.pc = "granted" /\ ask.name = n
ValueIsRight(n) ==
  /\ refetch[n] \in FormValues => refetch[n] = effective[n]
  /\ refetch[n] = "no" /\ cached[n] # "none" /\ n \notin failed => cached[n] = effective[n]
ValuesAreRight == \A n \in FormHostnames \ unshown : ~Unanswered(n) => ValueIsRight(n)

FormInv ==
  FormTypeOK /\ LoadsItsImage /\ FieldsMatch /\ FormMatchesImage /\ AsksForKnown /\ ValuesAreRight

(* Types *)

LEMMA TheFormValues == FormValues = {"default", "lowered"} /\ "no" \notin FormValues /\ "none" \notin FormValues
                /\ "asked" \notin FormValues
BY DEF FormValues

LEMMA EmptyForms == NoLoad \in MetadataLoad /\ NoAsk \in ResourceAsk /\ NotSent \in Submission
<1>1. NoLoad \in MetadataLoad
  <2>1. 0 \in 0 .. RETRIES
    BY FormBounds
  <2> QED BY <2>1 DEF NoLoad, MetadataLoad
<1>2. NoAsk \in ResourceAsk
  BY DEF NoAsk, ResourceAsk, FormValues
<1>3. NotSent \in Submission
  <2> DEFINE C == Images \cup {NoImage}
             E == SUBSET (Images \cup {ByHand})
             P == Images \cup {ByHand, ""}
             none == {}
  <2>1. NoImage \in C /\ none \in E /\ "" \in P
    OBVIOUS
  <2>2. NotSent = [pc |-> "no", image |-> NoImage, entries |-> none, entrypoint |-> "", unloaded |-> FALSE]
    BY DEF NotSent
  <2>3. Submission = [pc : {"no", "sent", "created"}, image : C, entries : E, entrypoint : P, unloaded : BOOLEAN]
    BY DEF Submission
  <2> HIDE DEF C, E, P, none
  <2> QED BY <2>1, <2>2, <2>3
<1> QED BY <1>1, <1>2, <1>3

\* A record of images, entries and an entrypoint is one of the fields.
LEMMA FieldsMade ==
  ASSUME NEW T, NEW C, NEW E, NEW P, NEW f \in [template : T, custom : C, entries : E, entrypoint : P]
  PROVE  /\ f.template \in T /\ f.custom \in C /\ f.entries \in E /\ f.entrypoint \in P
         /\ \A t \in T : [f EXCEPT !.template = t] \in [template : T, custom : C, entries : E, entrypoint : P]
         /\ \A c \in C : [f EXCEPT !.custom = c] \in [template : T, custom : C, entries : E, entrypoint : P]
         /\ \A e \in E : [f EXCEPT !.entries = e] \in [template : T, custom : C, entries : E, entrypoint : P]
         /\ \A p \in P : [f EXCEPT !.entrypoint = p] \in [template : T, custom : C, entries : E, entrypoint : P]
         /\ \A e \in E, p \in P :
              [f EXCEPT !.entries = e, !.entrypoint = p] \in [template : T, custom : C, entries : E, entrypoint : P]
OBVIOUS

LEMMA FieldTypes ==
  ASSUME FormTypeOK
  PROVE  /\ fields.template \in Templates /\ fields.custom \in Images \cup {NoImage}
         /\ fields.entries \in SUBSET (Images \cup {ByHand}) /\ fields.entrypoint \in Images \cup {ByHand, ""}
         /\ \A t \in Templates : [fields EXCEPT !.template = t] \in FormFields
         /\ \A c \in Images \cup {NoImage} : [fields EXCEPT !.custom = c] \in FormFields
         /\ \A e \in SUBSET (Images \cup {ByHand}) : [fields EXCEPT !.entries = e] \in FormFields
         /\ \A p \in Images \cup {ByHand, ""} : [fields EXCEPT !.entrypoint = p] \in FormFields
         /\ \A e \in SUBSET (Images \cup {ByHand}), p \in Images \cup {ByHand, ""} :
              [fields EXCEPT !.entries = e, !.entrypoint = p] \in FormFields
<1> DEFINE T == Templates
           C == Images \cup {NoImage}
           E == SUBSET (Images \cup {ByHand})
           P == Images \cup {ByHand, ""}
<1>1. FormFields = [template : T, custom : C, entries : E, entrypoint : P]
  BY DEF FormFields
<1>2. fields \in [template : T, custom : C, entries : E, entrypoint : P]
  BY <1>1 DEF FormTypeOK
<1> HIDE DEF T, C, E, P
<1>3. /\ fields.template \in T /\ fields.custom \in C /\ fields.entries \in E /\ fields.entrypoint \in P
      /\ \A t \in T : [fields EXCEPT !.template = t] \in FormFields
      /\ \A c \in C : [fields EXCEPT !.custom = c] \in FormFields
      /\ \A e \in E : [fields EXCEPT !.entries = e] \in FormFields
      /\ \A p \in P : [fields EXCEPT !.entrypoint = p] \in FormFields
      /\ \A e \in E, p \in P : [fields EXCEPT !.entries = e, !.entrypoint = p] \in FormFields
  BY <1>1, <1>2, FieldsMade
<1> QED BY <1>3 DEF T, C, E, P

LEMMA FormTypeInit == FormInit => FormTypeOK
<1> SUFFICES ASSUME FormInit PROVE FormTypeOK
  OBVIOUS
<1>1. fields \in FormFields
  <2> DEFINE C == Images \cup {NoImage}
             E == SUBSET (Images \cup {ByHand})
             P == Images \cup {ByHand, ""}
             none == {}
  <2>1. "" \in Templates /\ NoImage \in C /\ none \in E /\ "" \in P
    BY DEF Templates
  <2>2. fields = [template |-> "", custom |-> NoImage, entries |-> none, entrypoint |-> ""]
    BY DEF FormInit
  <2>3. FormFields = [template : Templates, custom : C, entries : E, entrypoint : P]
    BY DEF FormFields
  <2> HIDE DEF C, E, P, none
  <2> QED BY <2>1, <2>2, <2>3
<1>2. inputs \in 0 .. MaxInputs /\ misses \in 0 .. MaxMisses
  <2>1. inputs = 0 /\ misses = 0
    BY DEF FormInit
  <2> QED BY ONLY <2>1, FormBounds
<1>3. "default" \in FormValues /\ failed \subseteq FormHostnames /\ unshown \subseteq FormHostnames
  BY TheFormValues DEF FormInit
<1> QED BY <1>1, <1>2, <1>3, EmptyForms DEF FormInit, FormTypeOK

LEMMA FormImageType == FormTypeOK => Image \in Images \cup {NoImage}
<1> SUFFICES ASSUME FormTypeOK PROVE Image \in Images \cup {NoImage}
  OBVIOUS
<1> QED BY FieldTypes DEF Image, Templates, Images

LEMMA FetchType ==
  ASSUME NEW img \in Images, Fetch(img)
  PROVE  load' \in MetadataLoad /\ load'.pc = "manifest" /\ load'.image = img
<1>1. 0 \in 0 .. RETRIES
  BY FormBounds
<1> QED BY <1>1 DEF Fetch, NoLoad, MetadataLoad

LEMMA FormTypeStep == FormTypeOK /\ LoadsItsImage /\ AsksForKnown /\ [FormNext]_formVars => FormTypeOK'
<1> SUFFICES ASSUME FormTypeOK, LoadsItsImage, AsksForKnown, [FormNext]_formVars PROVE FormTypeOK'
  OBVIOUS
<1> USE FormImages
<1>0. /\ Input => inputs' \in 0 .. MaxInputs
      /\ Miss => misses' \in 0 .. MaxMisses
      /\ misses < MaxMisses => misses + 1 \in 0 .. MaxMisses
  <2>1. inputs \in 0 .. MaxInputs /\ misses \in 0 .. MaxMisses
    BY DEF FormTypeOK
  <2> QED BY ONLY <2>1, FormBounds DEF Input, Miss
<1>1. ASSUME NEW t \in Templates, ChooseTemplate(t) PROVE FormTypeOK'
  <2>1. fields' \in FormFields
    BY <1>1, FieldTypes DEF ChooseTemplate
  <2>3. load' \in MetadataLoad
    <3>1. CASE t \in BuiltIn
      <4>1. t \in Images /\ Fetch(t)
        BY <1>1, <3>1 DEF ChooseTemplate, Images
      <4> QED BY <4>1, FetchType
    <3>2. CASE t \notin BuiltIn
      BY <1>1, <3>2 DEF ChooseTemplate, FormTypeOK
    <3> QED BY <3>1, <3>2
  <2> QED BY <1>0, <1>1, <2>1, <2>3 DEF ChooseTemplate, FormTypeOK, resourceVars
<1>2. ASSUME NEW i \in Customs, TypeCustom(i) PROVE FormTypeOK'
  <2>1. fields' \in FormFields
    BY <1>2, FieldTypes DEF TypeCustom, Images
  <2> QED BY <1>0, <1>2, <2>1 DEF TypeCustom, FormTypeOK, resourceVars
<1>3. CASE BlurCustom
  <2>1. fields.custom \in Images \cup {NoImage}
    BY FieldTypes
  <2>2. (load' = load /\ lastAuto' = lastAuto)
        \/ (Fetch(fields.custom) /\ fields.custom \in Images /\ lastAuto' = fields.custom)
    BY <1>3, <2>1 DEF BlurCustom
  <2>3. load' \in MetadataLoad
    BY <2>2, FetchType DEF FormTypeOK
  <2> QED BY <1>0, <1>3, <2>2, <2>3 DEF BlurCustom, FormTypeOK, resourceVars
<1>4. CASE FetchMetadata
  <2>1. Image \in Images
    BY <1>4, FormImageType DEF FetchMetadata
  <2>2. load' \in MetadataLoad
    BY <1>4, <2>1, FetchType DEF FetchMetadata
  <2> QED BY <1>0, <1>4, <2>1, <2>2 DEF FetchMetadata, FormTypeOK, resourceVars
<1>5. CASE AddEntry
  <2>1. fields' \in FormFields
    BY <1>5, FieldTypes DEF AddEntry
  <2> QED BY <1>0, <1>5, <2>1 DEF AddEntry, FormTypeOK, resourceVars
<1>6. CASE TypeEntrypoint
  <2>1. fields' \in FormFields
    BY <1>6, FieldTypes DEF TypeEntrypoint
  <2> QED BY <1>0, <1>6, <2>1 DEF TypeEntrypoint, FormTypeOK, resourceVars
<1>7. ASSUME NEW s \in fields.entries, RemoveEntries(s) PROVE FormTypeOK'
  <2>1. fields' \in FormFields
    BY <1>7, FieldTypes DEF RemoveEntries
  <2> QED BY <1>0, <1>7, <2>1 DEF RemoveEntries, FormTypeOK, resourceVars
<1>8. CASE ReadManifest \/ ReadConfig
  <2>1. load' \in MetadataLoad
    BY <1>8 DEF ReadManifest, ReadConfig, FormTypeOK, MetadataLoad
  <2> QED BY <1>0, <1>8, <2>1 DEF ReadManifest, ReadConfig, FormTypeOK, resourceVars
<1>9. CASE RegistryFails
  <2>1. load \in MetadataLoad /\ (load.tries < RETRIES => load.tries + 1 \in 0 .. RETRIES)
    <3>1. load \in MetadataLoad /\ load.tries \in 0 .. RETRIES
      BY DEF FormTypeOK, MetadataLoad
    <3> QED BY ONLY <3>1, FormBounds
  <2>2. load' \in MetadataLoad
    BY <1>9, <2>1 DEF RegistryFails, MetadataLoad
  <2> QED BY <1>0, <1>9, <2>2 DEF RegistryFails, FormTypeOK, resourceVars
<1>10. CASE MetadataArrive
  <2>1. load.image \in Images
    BY <1>10, FormImageType DEF LoadsItsImage, Loading, MetadataArrive
  <2>2. fields' \in FormFields
    <3>1. {load.image} \in SUBSET (Images \cup {ByHand})
      BY <2>1
    <3>2. (IF load.image \in Bare THEN fields.entrypoint ELSE load.image) \in Images \cup {ByHand, ""}
      BY <2>1, FieldTypes
    <3> QED BY <1>10, <3>1, <3>2, FieldTypes DEF MetadataArrive, MetadataLoaded
  <2> QED BY <1>0, <1>10, <2>2, EmptyForms DEF MetadataArrive, FormTypeOK, resourceVars
<1>11. CASE MetadataFail
  BY <1>0, <1>11, EmptyForms DEF MetadataFail, FormTypeOK, resourceVars
<1>12. ASSUME NEW n \in FormHostnames \cup {""}, TypeHostname(n) PROVE FormTypeOK'
  BY <1>0, <1>12 DEF TypeHostname, FormTypeOK, imageVars
<1>13. ASSUME NEW n \in FormHostnames, ReadEffective(n) \/ EffectiveArrives(n) \/ EffectiveFails(n) PROVE FormTypeOK'
  <2>1. effective[n] \in FormValues
    BY DEF FormTypeOK
  <2> QED BY <1>0, <1>13, <2>1, TheFormValues DEF ReadEffective, EffectiveArrives, EffectiveFails, Refetch, FormTypeOK, imageVars
<1>14. CASE Settle
  BY <1>14 DEF Settle, Refetch, FormTypeOK, imageVars
<1>15. ASSUME NEW v \in {"default", "lowered"}, RequestResource(v) PROVE FormTypeOK'
  <2>1. ask' \in ResourceAsk
    BY <1>15, TheFormValues DEF RequestResource, ResourceAsk, FormTypeOK
  <2> QED BY <1>0, <1>15, <2>1 DEF RequestResource, FormTypeOK, imageVars
<1>16. CASE GrantResource
  <2>1. ask' \in ResourceAsk /\ ask.value \in FormValues
    BY <1>16 DEF GrantResource, ResourceAsk, FormTypeOK
  <2> QED BY <1>0, <1>16, <2>1 DEF GrantResource, FormTypeOK, imageVars
<1>17. CASE ResourceAnswered
  <2>1. shown # "" => shown \in FormHostnames /\ EffectiveStale(shown) \in FormValues \cup {"no", "asked"}
    BY DEF FormTypeOK, EffectiveStale
  <2>3. unshown' \subseteq FormHostnames
    BY <1>17 DEF ResourceAnswered, FormTypeOK, AsksForKnown
  <2> QED BY <1>0, <1>17, <2>1, <2>3, EmptyForms DEF ResourceAnswered, FormTypeOK, imageVars
<1>18. CASE ResourceRefused
  <2>1. unshown' \subseteq FormHostnames
    BY <1>18 DEF ResourceRefused, FormTypeOK, AsksForKnown
  <2> QED BY <1>0, <1>18, <2>1, EmptyForms DEF ResourceRefused, FormTypeOK, imageVars
<1>19. CASE Submit
  <2>1. sent' \in Submission
    <3> DEFINE C == Images \cup {NoImage}
               E == SUBSET (Images \cup {ByHand})
               P == Images \cup {ByHand, ""}
               e == fields.entries
               p == fields.entrypoint
    <3>1. sent' = [pc |-> "sent", image |-> Image, entries |-> e, entrypoint |-> p, unloaded |-> unloaded]
      BY <1>19 DEF Submit
    <3>2. Image \in C /\ e \in E /\ p \in P /\ unloaded \in BOOLEAN
      BY FieldTypes, FormImageType DEF FormTypeOK
    <3>3. Submission = [pc : {"no", "sent", "created"}, image : C, entries : E, entrypoint : P, unloaded : BOOLEAN]
      BY DEF Submission
    <3> HIDE DEF C, E, P, e, p
    <3> QED BY <3>1, <3>2, <3>3
  <2> QED BY <1>0, <1>19, <2>1 DEF Submit, FormTypeOK, imageVars, resourceVars
<1>20. CASE SubmitAnswered
  <2>1. sent' \in Submission
    <3> DEFINE C == Images \cup {NoImage}
               E == SUBSET (Images \cup {ByHand})
               P == Images \cup {ByHand, ""}
    <3>1. Submission = [pc : {"no", "sent", "created"}, image : C, entries : E, entrypoint : P, unloaded : BOOLEAN]
      BY DEF Submission
    <3>2. sent \in Submission /\ sent' \in {[sent EXCEPT !.pc = "created"], NotSent}
      BY <1>20 DEF SubmitAnswered, FormTypeOK
    <3> HIDE DEF C, E, P
    <3> QED BY <3>1, <3>2, EmptyForms
  <2> QED BY <1>0, <1>20, <2>1 DEF SubmitAnswered, FormTypeOK, imageVars, resourceVars
<1>21. CASE UNCHANGED formVars
  BY <1>21 DEF formVars, FormTypeOK
<1> QED BY <1>1, <1>2, <1>3, <1>4, <1>5, <1>6, <1>7, <1>8, <1>9, <1>10, <1>11, <1>12, <1>13, <1>14,
    <1>15, <1>16, <1>17, <1>18, <1>19, <1>20, <1>21 DEF FormNext

(* The image *)

\* The steps of the user and of the registry leave the resources alone, and the others the image.
LEMMA ImageOrResources ==
  ASSUME [FormNext]_formVars
  PROVE  \/ /\ UNCHANGED resourceVars
            /\ \/ \E t \in Templates : ChooseTemplate(t)
               \/ \E i \in Customs : TypeCustom(i)
               \/ BlurCustom \/ FetchMetadata \/ AddEntry \/ TypeEntrypoint
               \/ \E s \in fields.entries : RemoveEntries(s)
               \/ ReadManifest \/ ReadConfig \/ RegistryFails \/ MetadataArrive \/ MetadataFail
         \/ /\ UNCHANGED imageVars /\ UNCHANGED sent
            /\ \/ \E n \in FormHostnames \cup {""} : TypeHostname(n)
               \/ \E n \in FormHostnames : ReadEffective(n) \/ EffectiveArrives(n) \/ EffectiveFails(n)
               \/ Settle
               \/ \E v \in {"default", "lowered"} : RequestResource(v)
               \/ GrantResource \/ ResourceAnswered \/ ResourceRefused
         \/ UNCHANGED imageVars /\ UNCHANGED resourceVars /\ (Submit \/ SubmitAnswered \/ UNCHANGED sent)
BY DEF FormNext, ChooseTemplate, TypeCustom, BlurCustom, FetchMetadata, AddEntry, TypeEntrypoint,
   RemoveEntries, ReadManifest, ReadConfig, RegistryFails, MetadataArrive, MetadataFail, TypeHostname,
   ReadEffective, EffectiveArrives, EffectiveFails, Settle, RequestResource, GrantResource, ResourceAnswered, ResourceRefused,
   Submit, SubmitAnswered, formVars, imageVars, resourceVars

LEMMA SameImage == UNCHANGED imageVars => (LoadsItsImage => LoadsItsImage') /\ (FieldsMatch => FieldsMatch')
<1> SUFFICES ASSUME UNCHANGED imageVars
             PROVE  (LoadsItsImage => LoadsItsImage') /\ (FieldsMatch => FieldsMatch')
  OBVIOUS
<1>1. UNCHANGED <<fields, focused, load, unloaded>> /\ Image' = Image
  BY DEF imageVars, Image
<1> QED BY <1>1 DEF LoadsItsImage, FieldsMatch, Loading

LEMMA ImageStep ==
  ASSUME FormTypeOK, LoadsItsImage, FieldsMatch, [FormNext]_formVars
  PROVE  LoadsItsImage' /\ FieldsMatch'
<1> USE FormImages
<1>0. Image \in Images \cup {NoImage} /\ fields \in FormFields /\ load.image \in Images \cup {NoImage}
      /\ fields.custom \in Images \cup {NoImage}
  BY FormImageType, FieldTypes DEF FormTypeOK, MetadataLoad
<1>0a. \A t \in Templates : [fields EXCEPT !.template = t].template = t /\ [fields EXCEPT !.template = t].custom = fields.custom
  BY <1>0 DEF FormFields
<1>0b. \A i : [fields EXCEPT !.custom = i].template = fields.template /\ [fields EXCEPT !.custom = i].custom = i
        /\ [fields EXCEPT !.custom = i].entries = fields.entries
        /\ [fields EXCEPT !.custom = i].entrypoint = fields.entrypoint
  BY <1>0 DEF FormFields
<1>1. ASSUME NEW t \in Templates, ChooseTemplate(t) PROVE LoadsItsImage' /\ FieldsMatch'
  <2>1. CASE t \in BuiltIn
    <3>1. Fetch(t) /\ t \in Images /\ ~focused' /\ unloaded'
      BY <1>1, <2>1 DEF ChooseTemplate, Enabled, Images
    <3>2. Image' = t
      BY <1>1, <2>1, <1>0a DEF ChooseTemplate, Image
    <3> QED BY <3>1, <3>2, FetchType DEF LoadsItsImage, FieldsMatch, Loading
  <2>2. CASE t \notin BuiltIn
    BY <1>1, <2>2 DEF ChooseTemplate, Enabled, LoadsItsImage, FieldsMatch, Loading
  <2> QED BY <2>1, <2>2
<1>2. ASSUME NEW i \in Customs, TypeCustom(i) PROVE LoadsItsImage' /\ FieldsMatch'
  <2>1. fields.template = "custom" /\ fields' = [fields EXCEPT !.custom = i] /\ load' = load /\ ~Loading
    BY <1>2 DEF TypeCustom, Enabled, LoadsItsImage
  <2>2. fields'.template = "custom" /\ Image' = i /\ Image = fields.custom
    BY <2>1, <1>0b DEF Image
  <2>3. FieldsMatch'
    BY <1>2, <1>0b, <2>1, <2>2 DEF TypeCustom, FieldsMatch
  <2> QED BY <2>1, <2>2, <2>3 DEF LoadsItsImage, Loading
<1>3. CASE BlurCustom
  <2>1. fields.template = "custom" /\ fields' = fields /\ Image = fields.custom /\ Image' = Image /\ ~focused' /\ ~Loading
    BY <1>3 DEF BlurCustom, LoadsItsImage, Image
  <2>2. load' = load \/ (Fetch(Image) /\ Image \in Images)
    <3>1. CASE fields.custom \in {NoImage, lastAuto}
      BY <1>3, <3>1 DEF BlurCustom
    <3>2. CASE fields.custom \notin {NoImage, lastAuto}
      BY <1>0, <1>3, <2>1, <3>2 DEF BlurCustom
    <3> QED BY <3>1, <3>2
  <2>3. FieldsMatch'
    BY <1>3, <2>1 DEF BlurCustom, FieldsMatch
  <2> QED BY <2>1, <2>2, <2>3, FetchType DEF LoadsItsImage, Loading
<1>4. CASE FetchMetadata
  <2>1. Fetch(Image) /\ Image \in Images /\ Image' = Image /\ ~focused'
    BY <1>0, <1>4 DEF FetchMetadata, Image, Enabled
  <2>2. FieldsMatch'
    BY <1>4, <2>1 DEF FetchMetadata, FieldsMatch
  <2> QED BY <2>1, <2>2, FetchType DEF LoadsItsImage
<1>5. CASE AddEntry \/ TypeEntrypoint \/ \E s \in fields.entries : RemoveEntries(s)
  <2>1. /\ fields'.template = fields.template /\ fields'.custom = fields.custom
        /\ fields'.entries \subseteq fields.entries \cup {ByHand}
        /\ fields'.entrypoint \in {fields.entrypoint, ByHand}
        /\ UNCHANGED <<load, focused, unloaded>> /\ ~Loading /\ ~focused
    BY <1>0, <1>5 DEF AddEntry, TypeEntrypoint, RemoveEntries, FormFields, Enabled
  <2>2. Image' = Image
    BY <2>1 DEF Image
  <2> QED BY <2>1, <2>2 DEF LoadsItsImage, FieldsMatch, Loading
<1>6. CASE ReadManifest \/ ReadConfig \/ RegistryFails
  <2>1. load'.image = load.image /\ Loading /\ UNCHANGED <<fields, focused, unloaded>>
    BY <1>6 DEF ReadManifest, ReadConfig, RegistryFails, Loading, FormTypeOK, MetadataLoad
  <2>2. Image' = Image
    BY <2>1 DEF Image
  <2> QED BY <2>1, <2>2 DEF LoadsItsImage, FieldsMatch
<1>7. CASE MetadataArrive
  <2>1. Loading /\ load.image = Image /\ load' = NoLoad /\ ~focused' /\ fields' = MetadataLoaded
    BY <1>7 DEF MetadataArrive, Loading, LoadsItsImage
  <2>2. /\ fields'.template = fields.template /\ fields'.custom = fields.custom
        /\ fields'.entries = {Image} /\ (Image \in Bare \/ fields'.entrypoint = Image)
    BY <1>0, <2>1 DEF MetadataLoaded, FormFields
  <2>3. Image' = Image
    BY <2>2 DEF Image
  <2> QED BY <2>1, <2>2, <2>3 DEF LoadsItsImage, FieldsMatch, Loading, NoLoad
<1>8. CASE MetadataFail
  <2>1. load' = NoLoad /\ UNCHANGED <<fields, focused, unloaded>> /\ ~focused
    BY <1>8 DEF MetadataFail, LoadsItsImage, Loading
  <2>2. Image' = Image
    BY <2>1 DEF Image
  <2> QED BY <2>1, <2>2 DEF LoadsItsImage, FieldsMatch, Loading, NoLoad
<1> QED BY <1>1, <1>2, <1>3, <1>4, <1>5, <1>6, <1>7, <1>8, ImageOrResources, SameImage

LEMMA SentStep ==
  ASSUME FormTypeOK, FieldsMatch, FormMatchesImage, [FormNext]_formVars
  PROVE  FormMatchesImage'
<1>1. CASE Submit
  <2>1. sent' = [pc |-> "sent", image |-> Image, entries |-> fields.entries,
                 entrypoint |-> fields.entrypoint, unloaded |-> unloaded] /\ Image # NoImage
    BY <1>1 DEF Submit
  <2>2. /\ sent'.image = Image /\ sent'.entries = fields.entries
        /\ sent'.entrypoint = fields.entrypoint /\ sent'.unloaded = unloaded
    BY ONLY <2>1
  <2> QED BY <2>1, <2>2 DEF FieldsMatch, FormMatchesImage
<1>2. CASE SubmitAnswered
  <2>1. sent' = NotSent \/ (/\ sent'.image = sent.image /\ sent'.entries = sent.entries
                            /\ sent'.entrypoint = sent.entrypoint /\ sent'.unloaded = sent.unloaded
                            /\ sent.pc = "sent")
    BY <1>2 DEF SubmitAnswered, FormTypeOK, Submission
  <2>2. CASE sent' = NotSent
    BY <2>2 DEF FormMatchesImage, NotSent
  <2>3. CASE sent' # NotSent
    BY <2>1, <2>3 DEF FormMatchesImage
  <2> QED BY <2>2, <2>3
<1>3. CASE UNCHANGED sent
  BY <1>3 DEF FormMatchesImage
<1>4. Submit \/ SubmitAnswered \/ UNCHANGED sent
  BY DEF FormNext, ChooseTemplate, TypeCustom, BlurCustom, FetchMetadata, AddEntry, TypeEntrypoint,
   RemoveEntries, ReadManifest, ReadConfig, RegistryFails, MetadataArrive, MetadataFail, TypeHostname,
   ReadEffective, EffectiveArrives, EffectiveFails, Settle, RequestResource, GrantResource, ResourceAnswered, ResourceRefused,
   formVars
<1> QED BY <1>1, <1>2, <1>3, <1>4

(* The resources *)

LEMMA ResourceStep ==
  ASSUME FormTypeOK, AsksForKnown, ValuesAreRight, [FormNext]_formVars
  PROVE  AsksForKnown' /\ ValuesAreRight'
<1> USE TheFormValues DEF AsksForKnown, ValuesAreRight, ValueIsRight, Unanswered
<1>0. /\ effective \in [FormHostnames -> FormValues]
      /\ cached \in [FormHostnames -> FormValues \cup {"none"}]
      /\ refetch \in [FormHostnames -> FormValues \cup {"no", "asked"}]
      /\ shown \in FormHostnames \cup {""} /\ typed \in FormHostnames \cup {""}
  BY DEF FormTypeOK
<1>0a. ask \in ResourceAsk
  BY DEF FormTypeOK
<1>1. CASE UNCHANGED resourceVars
  BY <1>1 DEF resourceVars
<1>2. ASSUME NEW n \in FormHostnames \cup {""}, TypeHostname(n) PROVE AsksForKnown' /\ ValuesAreRight'
  BY <1>2 DEF TypeHostname
<1>3. ASSUME NEW n \in FormHostnames, ReadEffective(n) PROVE AsksForKnown' /\ ValuesAreRight'
  BY <1>0, <1>3 DEF ReadEffective
<1>4. ASSUME NEW n \in FormHostnames, EffectiveArrives(n) PROVE AsksForKnown' /\ ValuesAreRight'
  BY <1>0, <1>4 DEF EffectiveArrives
<1>4a. ASSUME NEW n \in FormHostnames, EffectiveFails(n) PROVE AsksForKnown' /\ ValuesAreRight'
  BY <1>0, <1>4a DEF EffectiveFails, Refetch
<1>5. CASE Settle
  BY <1>0, <1>5 DEF Settle, Refetch
<1>6. ASSUME NEW v \in {"default", "lowered"}, RequestResource(v) PROVE AsksForKnown' /\ ValuesAreRight'
  <2>1. ask'.pc = "asked" /\ ask'.name = shown
    BY <1>6 DEF RequestResource
  <2> QED BY <1>0, <1>6, <2>1 DEF RequestResource
<1>7. CASE GrantResource
  <2>1. ask'.pc = "granted" /\ ask'.name = ask.name
    BY <1>0a, <1>7 DEF GrantResource, ResourceAsk
  <2> QED BY <1>0, <1>7, <2>1 DEF GrantResource
<1>8. CASE ResourceAnswered
  <2>1. ask'.pc = "idle" /\ ask.pc = "granted"
    BY <1>8 DEF ResourceAnswered, NoAsk
  <2>2. CASE shown = ask.name /\ ~FirstFetch(shown)
    <3>1. ask.name \in FormHostnames /\ shown # ""
      BY <1>8, <2>1, <2>2 DEF ResourceAnswered
    <3>2. refetch' = [refetch EXCEPT ![shown] = "asked"] /\ UNCHANGED <<effective, cached, failed, unshown>>
      BY <1>8, <2>2, <3>1 DEF ResourceAnswered, EffectiveStale
    <3> QED BY <1>0, <2>1, <2>2, <3>1, <3>2
  <2>3. CASE ~(shown = ask.name /\ ~FirstFetch(shown))
    <3>1. /\ refetch' = refetch \/ (shown \in FormHostnames /\ refetch' = [refetch EXCEPT ![shown] = EffectiveStale(shown)])
          /\ UNCHANGED <<effective, cached, failed>> /\ unshown' = unshown \cup {ask.name}
      BY <1>0, <1>8, <2>3 DEF ResourceAnswered
    <3>2. EffectiveStale(shown) \in {refetch[shown], "asked"}
      BY DEF EffectiveStale
    <3>3. \A n \in FormHostnames : refetch'[n] \in {refetch[n], "asked"}
      BY <1>0, <3>1, <3>2
    <3> QED BY <1>0, <2>1, <3>1, <3>3
  <2> QED BY <2>2, <2>3
<1>9. CASE ResourceRefused
  <2>1. ask'.pc = "idle"
    BY <1>9 DEF ResourceRefused, NoAsk
  <2> QED BY <1>0, <1>9, <2>1 DEF ResourceRefused
<1> QED BY <1>1, <1>2, <1>3, <1>4, <1>4a, <1>5, <1>6, <1>7, <1>8, <1>9, ImageOrResources

LEMMA FormInvAlways == (FormInit => FormInv) /\ (FormInv /\ [FormNext]_formVars => FormInv')
<1>1. FormInit => FormInv
  <2> SUFFICES ASSUME FormInit PROVE FormInv
    OBVIOUS
  <2>1. LoadsItsImage /\ FieldsMatch
    BY DEF FormInit, LoadsItsImage, FieldsMatch, Loading, NoLoad, Image
  <2>2. FormMatchesImage /\ AsksForKnown
    BY DEF FormInit, NotSent, NoAsk, FormMatchesImage, AsksForKnown
  <2>3. ValuesAreRight
    BY TheFormValues DEF FormInit, ValuesAreRight, ValueIsRight
  <2> QED BY <2>1, <2>2, <2>3, FormTypeInit DEF FormInv
<1>2. FormInv /\ [FormNext]_formVars => FormInv'
  BY FormTypeStep, ImageStep, SentStep, ResourceStep DEF FormInv
<1> QED BY <1>1, <1>2

\* The form that creates a container (ContainerFormPage.tsx, ResourcesSection.tsx, GET /metadata):
\* whatever images are chosen, typed and loaded, and however requests for resources, their
\* answers, fetches that fail and the registry's answers interleave, what is submitted and
\* was not entered belongs to the image, and a value that is shown is what the requests have
\* obtained, but for the cases that OwnRequestIsShown names.
THEOREM FormIsHonest == FormSpec => []FormHolds
<1>1. FormInv => FormHolds
  <2> SUFFICES ASSUME FormInv PROVE OwnRequestIsShown
    BY DEF FormInv, FormHolds
  <2> QED BY DEF FormInv, ValuesAreRight, ValueIsRight, Unanswered, OwnRequestIsShown
<1> QED BY <1>1, FormInvAlways, PTL DEF FormSpec

-----------------------------------------------------------------------------
(* Container pages *)

(* Types *)

LEMMA AnswerType == ASSUME PagesTypeOK, NEW q \in Queries PROVE Answer(q) \in PageData
<1>1. Listed(q) \subseteq Containers
  BY DEF PagesTypeOK, Listed, Visible
<1>2. \A c \in Containers : Row(c) \in [id : Containers, says : Nat, shared : BOOLEAN]
  BY DEF PagesTypeOK, Row
<1> QED BY <1>1, <1>2 DEF Answer, PageData

LEMMA DataTypes == Nothing \in PageData /\ Empty \in PageQuery
BY DEF Nothing, Empty, PageData, PageQuery

LEMMA OpenedType == ASSUME NEW from \in [Queries -> PageQuery], NEW p PROVE Opened(from, p) \in [Queries -> PageQuery]
<1>1. \A q \in Queries : from[q] \in PageQuery
  OBVIOUS
<1>2. \A e \in PageQuery : Begun(e) \in PageQuery
  BY DEF Begun, PageQuery
<1> QED BY <1>1, <1>2 DEF Opened

LEMMA InvalidatedType == ASSUME PagesTypeOK, NEW Q PROVE Invalidated(Q) \in [Queries -> PageQuery]
<1>1. \A q \in Queries : cache[q] \in PageQuery
  BY DEF PagesTypeOK
<1>2. \A e \in PageQuery : Begun(e) \in PageQuery /\ [e EXCEPT !.stale = TRUE] \in PageQuery
  BY DEF Begun, PageQuery
<1> QED BY <1>1, <1>2 DEF Invalidated

LEMMA PagesTypeInit == PagesInit => PagesTypeOK
<1> SUFFICES ASSUME PagesInit PROVE PagesTypeOK
  OBVIOUS
<1>1. [q \in Queries |-> Empty] \in [Queries -> PageQuery]
  BY DataTypes
<1>2. cache \in [Queries -> PageQuery]
  BY <1>1, OpenedType DEF PagesInit
<1> QED BY <1>2, PagesDisjoint DEF PagesInit, PagesTypeOK, NoForm, NoCall, Queries, Lists, Containers

LEMMA PagesTypeStep == PagesTypeOK /\ [PagesNext]_pageVars => PagesTypeOK'
<1> SUFFICES ASSUME PagesTypeOK, [PagesNext]_pageVars PROVE PagesTypeOK'
  OBVIOUS
<1> USE DEF PagesTypeOK
<1>0. /\ \A q \in Queries : cache[q] \in PageQuery
      /\ \A q \in Queries : \A p \in PageQuery : cache' = [cache EXCEPT ![q] = p] => cache' \in [Queries -> PageQuery]
      /\ Containers \subseteq Queries
  BY DEF Queries
<1>1. ASSUME NEW q \in Queries, Age(q) PROVE PagesTypeOK'
  <2>1. cache' = [cache EXCEPT ![q].stale = TRUE]
    BY <1>1 DEF Age
  <2>2. \A e \in PageQuery : [e EXCEPT !.stale = TRUE] \in PageQuery
    BY DEF PageQuery
  <2>3. cache' \in [Queries -> PageQuery]
    BY <1>0, <2>1, <2>2
  <2> QED BY <1>1, <2>3 DEF Age, Other
<1>2. ASSUME NEW q \in Queries, Reconnect(q) PROVE PagesTypeOK'
  <2>1. cache' = [cache EXCEPT ![q].fetch = "asked"] /\ [cache[q] EXCEPT !.fetch = "asked"] \in PageQuery
    BY <1>0, <1>2 DEF Reconnect, PageQuery
  <2> QED BY <1>2, <2>1 DEF Reconnect
<1>3. ASSUME NEW q \in Queries, Read(q) PROVE PagesTypeOK'
  <2> DEFINE a == Answer(q)
  <2>1. cache' = [cache EXCEPT ![q].fetch = "read", ![q].answer = a] /\ a \in PageData
    BY <1>3, AnswerType DEF Read
  <2> HIDE DEF a
  <2>2. [cache[q] EXCEPT !.fetch = "read", !.answer = a] \in PageQuery
    BY <1>0, <2>1 DEF PageQuery
  <2>3. cache' \in [Queries -> PageQuery]
    BY <2>1, <2>2
  <2> QED BY <1>3, <2>3 DEF Read
<1>4. ASSUME NEW q \in Queries, Arrive(q) PROVE PagesTypeOK'
  <2> DEFINE error == q \in Containers /\ cache[q].answer.rows = {}
             p == [data |-> IF error THEN cache[q].data ELSE cache[q].answer, stale |-> error,
                   fetch |-> "no", answer |-> Nothing]
  <2>1. cache' = [cache EXCEPT ![q] = p]
    BY <1>4 DEF Arrive
  <2>2. p \in PageQuery
    BY <1>0, DataTypes DEF PageQuery
  <2> HIDE DEF p
  <2> QED BY <1>0, <1>4, <2>1, <2>2 DEF Arrive
<1>4a. ASSUME NEW q \in Queries, QueryFails(q) PROVE PagesTypeOK'
  <2>1. PICK next \in {"asked", "no"} : cache' = [cache EXCEPT ![q].fetch = next, ![q].answer = Nothing]
    BY <1>4a DEF QueryFails
  <2>2. [cache[q] EXCEPT !.fetch = next, !.answer = Nothing] \in PageQuery
    BY <1>0, DataTypes DEF PageQuery
  <2>3. cache' \in [Queries -> PageQuery]
    BY <2>1, <2>2
  <2> QED BY <1>4a, <2>3 DEF QueryFails, Other
<1>5. ASSUME NEW p \in Queries \cup {"new"}, Open(p) PROVE PagesTypeOK'
  BY <1>5, OpenedType DEF Open, Act, NoForm
<1>6. CASE InitForm
  <2>1. at \in Queries /\ \A row \in cache[at].data.rows : row.says \in Nat
    BY <1>0, <1>6 DEF InitForm, PageQuery, PageData
  <2> QED BY <1>6, <2>1 DEF InitForm
<1>7. CASE Type
  <2>1. edit' = [edit EXCEPT !.says = fresh + 1, !.typed = fresh + 1] /\ fresh' = fresh + 1 /\ acts' = acts + 1
        /\ UNCHANGED <<admin, there, says, shared, cache, at, call, behind, others>>
    BY <1>7 DEF Type, Act
  <2>2. edit \in [init : BOOLEAN, says : Nat, typed : Nat] /\ fresh + 1 \in Nat /\ acts + 1 \in Nat
    OBVIOUS
  <2> DEFINE n == fresh + 1
  <2>3. edit' = [edit EXCEPT !.says = n, !.typed = n] /\ n \in Nat
    BY <2>1, <2>2
  <2> HIDE DEF n
  <2>4. edit' \in [init : BOOLEAN, says : Nat, typed : Nat]
    BY <2>2, <2>3
  <2> QED BY <2>1, <2>2, <2>4
<1>8. ASSUME NEW op \in {"save", "create", "share", "delete"}, NEW c \in Containers, Ask(op, c) PROVE PagesTypeOK'
  BY <1>0, <1>8 DEF Ask, Act
<1>9. CASE Apply
  <2>1. /\ UNCHANGED <<admin, cache, at, edit, behind, acts, others>>
        /\ call' \in [op : {"none", "save", "create", "share", "delete"}, of : Queries, says : Nat, done : BOOLEAN]
        /\ call.of \in Containers /\ call'.of = call.of /\ call'.op = call.op
    BY <1>9 DEF Apply
  <2>2. CASE call.op \in {"save", "share", "delete"}
    <3>1. call.of \in there
      BY <1>9, <2>2 DEF Apply, MayManage
    <3>2. /\ \/ there' = there /\ shared' \in {shared, shared \ {call.of}, shared \cup {call.of}}
             \/ there' = there \ {call.of} /\ shared' = shared \ {call.of}
          /\ says' = says \/ says' = [says EXCEPT ![call.of] = call.says]
          /\ fresh' = fresh
      <4>1. CASE call.op = "save"
        BY <1>9, <4>1 DEF Apply
      <4>2. CASE call.op = "share"
        BY <1>9, <4>2 DEF Apply
      <4>3. CASE call.op = "delete"
        BY <1>9, <4>3 DEF Apply
      <4> QED BY <2>2, <4>1, <4>2, <4>3
    <3>3. there' \subseteq Containers /\ shared' \subseteq there'
      BY <3>1, <3>2
    <3>4. says' \in [Containers -> Nat] /\ fresh' \in Nat
      BY <3>2
    <3> QED BY <2>1, <3>3, <3>4
  <2>3. CASE call.op = "create"
    <3>1. there' = there \cup {call.of} /\ UNCHANGED shared
          /\ says' = [says EXCEPT ![call.of] = fresh + 1] /\ fresh' = fresh + 1
      BY <1>9, <2>3 DEF Apply
    <3> QED BY <2>1, <3>1
  <2> QED BY <1>9, <2>2, <2>3 DEF Apply
<1>10. CASE Answered
  <2>1. cache' \in [Queries -> PageQuery]
    BY <1>10, InvalidatedType, OpenedType DEF Answered
  <2>2. edit' \in [init : BOOLEAN, says : Nat, typed : Nat] /\ call' = NoCall
    BY <1>10 DEF Answered, NoForm
  <2>3. at' \in Queries \cup {"new", "job"}
    BY <1>10 DEF Answered, Queries, Lists
  <2>4. behind' \subseteq Queries
    BY <1>10 DEF Answered, Overtaken, Queries, Lists
  <2>5. UNCHANGED <<admin, there, says, shared, fresh, acts, others>>
    BY <1>10 DEF Answered
  <2> QED BY <2>1, <2>2, <2>3, <2>4, <2>5 DEF NoCall, Queries, Lists
<1>11. CASE Refused
  <2>1. /\ UNCHANGED <<admin, there, says, shared, cache, at, edit, fresh, acts>> /\ call' = NoCall
        /\ behind' \in {behind, Queries} /\ others' \in {others, others + 1}
    BY <1>11 DEF Refused, Other
  <2> QED BY <2>1 DEF NoCall, Queries, Lists
<1>12. ASSUME NEW c \in Containers, Elsewhere(c) PROVE PagesTypeOK'
  BY <1>12 DEF Elsewhere, Other
<1>13. CASE UNCHANGED pageVars
  BY <1>13 DEF pageVars
<1> HIDE DEF PagesTypeOK
<1> QED BY <1>1, <1>2, <1>3, <1>4, <1>4a, <1>5, <1>6, <1>7, <1>8, <1>9, <1>10, <1>11, <1>12, <1>13 DEF PagesNext

(* The invariant *)

\* A form that has not been filled has nothing typed in it.
Typing == (~edit.init => edit.typed = 0) /\ UnsavedEditsSurvive

\* A query has what there is, where its data count: the answer that is on its way, and
\* the data of a query that is shown, or is not going to be fetched when it is.
UpToDate(q) ==
  /\ cache[q].fetch = "read" => cache[q].answer = Answer(q)
  /\ cache[q].data.got /\ cache[q].fetch = "no" /\ (~cache[q].stale \/ q = at) => cache[q].data = Answer(q)

\* A call that is done, and not yet answered, has left the cache behind.
Acting == call.op # "none" /\ call.done
ListsUpToDate == ~Acting => \A q \in Lists \ behind : UpToDate(q)

PagesInv == PagesTypeOK /\ Typing /\ ListsUpToDate

LEMMA PagesInvInit == PagesInit => PagesInv
<1> SUFFICES ASSUME PagesInit PROVE PagesInv
  OBVIOUS
<1>1. Typing
  BY DEF PagesInit, NoForm, Typing, UnsavedEditsSurvive
<1>2. \A q \in Lists : ~cache[q].data.got /\ cache[q].fetch # "read"
  BY DEF PagesInit, Opened, Begun, Empty, Nothing, Queries
<1>3. ListsUpToDate
  BY <1>2 DEF ListsUpToDate, UpToDate
<1> QED BY <1>1, <1>3, PagesTypeInit DEF PagesInv

LEMMA TypingStep == PagesInv /\ [PagesNext]_pageVars => Typing'
<1> SUFFICES ASSUME PagesInv, [PagesNext]_pageVars PROVE Typing'
  OBVIOUS
<1> USE DEF PagesInv, Typing, UnsavedEditsSurvive
<1>1. CASE UNCHANGED edit
  BY <1>1
<1>2. CASE edit' = NoForm
  BY <1>2 DEF NoForm
<1>3. CASE InitForm
  <2>1. PICK n : edit' = [edit EXCEPT !.init = TRUE, !.says = n] /\ edit.typed = 0
    BY <1>3 DEF InitForm
  <2> QED BY <2>1 DEF PagesTypeOK
<1>4. CASE Type
  <2>1. PICK n : edit' = [edit EXCEPT !.says = n, !.typed = n] /\ edit.init
    BY <1>4 DEF Type
  <2> QED BY <2>1 DEF PagesTypeOK
<1> QED BY <1>1, <1>2, <1>3, <1>4 DEF PagesNext, pageVars, Age, Reconnect, Read, Arrive, QueryFails, Open, Ask, Apply,
                                      Answered, Refused, Elsewhere

\* What a query is to show depends on the rows alone.
LEMMA AnswerStays ==
  ASSUME UNCHANGED <<admin, there, says, shared>>, NEW q
  PROVE  Answer(q)' = Answer(q)
BY DEF Answer, Row, Listed, Visible

\* A page that opens asks for what is stale, and for nothing else.
LEMMA OpenedIs ==
  ASSUME NEW from, NEW p, NEW q \in Queries
  PROVE  \/ Opened(from, p)[q] = from[q] /\ ~(q \in Used(p) /\ from[q].stale /\ from[q].fetch = "no")
         \/ /\ q \in Used(p) /\ from[q].stale /\ from[q].fetch = "no"
            /\ Opened(from, p)[q] = [from[q] EXCEPT !.fetch = "asked"]
BY DEF Opened, Begun

LEMMA ListsStep == PagesInv /\ [PagesNext]_pageVars => ListsUpToDate'
<1> SUFFICES ASSUME PagesInv, [PagesNext]_pageVars, ~Acting', NEW q \in Lists, q \notin behind' PROVE UpToDate(q)'
  BY DEF ListsUpToDate
<1> USE DEF PagesInv
<1>0. q \in Queries /\ q \notin Containers /\ cache[q] \in PageQuery
  BY PagesDisjoint DEF Queries, Lists, Containers, PagesTypeOK
<1>1. ASSUME UNCHANGED <<admin, there, says, shared, call, behind, at>>, cache'[q] = cache[q] PROVE UpToDate(q)'
  <2>1. UpToDate(q) /\ Answer(q)' = Answer(q)
    BY <1>1, AnswerStays DEF ListsUpToDate, Acting
  <2> QED BY <1>1, <2>1 DEF UpToDate
<1>2. ASSUME NEW r \in Queries, Age(r) PROVE UpToDate(q)'
  <2>1. UpToDate(q) /\ Answer(q)' = Answer(q)
    BY <1>2, AnswerStays DEF ListsUpToDate, Acting, Age
  <2>2. /\ cache'[q].fetch = cache[q].fetch /\ cache'[q].answer = cache[q].answer /\ cache'[q].data = cache[q].data
        /\ cache[q].stale => cache'[q].stale
    BY <1>0, <1>2 DEF Age, PagesTypeOK, PageQuery
  <2>3. at' = at
    BY <1>2 DEF Age
  <2> QED BY <2>1, <2>2, <2>3 DEF UpToDate
<1>3. ASSUME NEW r \in Queries, Reconnect(r) PROVE UpToDate(q)'
  <2>1. CASE r # q
    BY <1>0, <1>1, <1>3, <2>1 DEF Reconnect, PagesTypeOK
  <2>2. CASE r = q
    <3>1. cache'[q].fetch = "asked"
      BY <1>0, <1>3, <2>2 DEF Reconnect, PagesTypeOK, PageQuery
    <3> QED BY <3>1 DEF UpToDate
  <2> QED BY <2>1, <2>2
<1>4. ASSUME NEW r \in Queries, Read(r) PROVE UpToDate(q)'
  <2>1. CASE r # q
    <3>1. UpToDate(q) /\ Answer(q)' = Answer(q)
      BY <1>4, <2>1, AnswerStays DEF ListsUpToDate, Acting, Read
    <3>2. cache'[q] = cache[q] /\ at' = at
      BY <1>0, <1>4, <2>1 DEF Read, PagesTypeOK
    <3> QED BY <3>1, <3>2 DEF UpToDate
  <2>2. CASE r = q
    <3> DEFINE a == Answer(q)
    <3>1. cache' = [cache EXCEPT ![q].fetch = "read", ![q].answer = a] /\ Answer(q)' = a
      BY <1>4, <2>2, AnswerStays DEF Read
    <3> HIDE DEF a
    <3>2. cache'[q].fetch = "read" /\ cache'[q].answer = a
      BY <1>0, <3>1 DEF PagesTypeOK, PageQuery
    <3> QED BY <3>1, <3>2 DEF UpToDate
  <2> QED BY <2>1, <2>2
<1>5. ASSUME NEW r \in Queries, Arrive(r) PROVE UpToDate(q)'
  <2>1. CASE r # q
    BY <1>0, <1>1, <1>5, <2>1 DEF Arrive, PagesTypeOK
  <2>2. CASE r = q
    <3>1. cache'[q] = [data |-> cache[q].answer, stale |-> FALSE, fetch |-> "no", answer |-> Nothing] /\ cache[q].fetch = "read"
      BY <1>0, <1>5, <2>2 DEF Arrive, PagesTypeOK
    <3>2. UpToDate(q) /\ Answer(q)' = Answer(q)
      BY <1>5, AnswerStays DEF ListsUpToDate, Acting, Arrive
    <3> QED BY <3>1, <3>2 DEF UpToDate
  <2> QED BY <2>1, <2>2
<1>5a. ASSUME NEW r \in Queries, QueryFails(r) PROVE UpToDate(q)'
  <2>1. PICK next \in {"asked", "no"} :
          /\ cache' = [cache EXCEPT ![r].fetch = next, ![r].answer = Nothing]
          /\ behind' = IF next = "no" THEN behind \cup {r} ELSE behind
    BY <1>5a DEF QueryFails
  <2>2. CASE r # q
    <3>1. UpToDate(q) /\ Answer(q)' = Answer(q)
      BY <1>5a, <2>1, AnswerStays DEF ListsUpToDate, Acting, QueryFails
    <3>2. cache'[q] = cache[q] /\ at' = at
      BY <1>0, <1>5a, <2>1, <2>2 DEF QueryFails, PagesTypeOK
    <3> QED BY <3>1, <3>2 DEF UpToDate
  <2>3. CASE r = q
    <3>1. next = "asked"
      BY <2>1, <2>3
    <3>2. cache'[q].fetch = "asked"
      BY <1>0, <2>1, <2>3, <3>1 DEF PagesTypeOK, PageQuery
    <3> QED BY <3>2 DEF UpToDate
  <2> QED BY <2>2, <2>3
\* Another page: what it shows and is stale is asked for.
<1>6. ASSUME NEW from, cache' = Opened(from, at'), UNCHANGED <<admin, there, says, shared>>, from[q] \in PageQuery,
             from[q].fetch = "read" => from[q].answer = Answer(q),
             from[q].data.got /\ from[q].fetch = "no" /\ ~from[q].stale => from[q].data = Answer(q)
      PROVE  UpToDate(q)'
  <2>1. Answer(q)' = Answer(q) /\ (q = at' => q \in Used(at'))
    BY <1>0, <1>6, AnswerStays DEF Used, Lists
  <2>2. CASE cache'[q] = from[q] /\ ~(q \in Used(at') /\ from[q].stale /\ from[q].fetch = "no")
    BY <1>6, <2>1, <2>2 DEF UpToDate
  <2>3. CASE cache'[q].fetch = "asked"
    BY <2>3 DEF UpToDate
  <2>4. \/ cache'[q] = from[q] /\ ~(q \in Used(at') /\ from[q].stale /\ from[q].fetch = "no")
        \/ cache'[q] = [from[q] EXCEPT !.fetch = "asked"]
    BY <1>0, <1>6, OpenedIs
  <2>5. [from[q] EXCEPT !.fetch = "asked"].fetch = "asked"
    BY <1>6 DEF PageQuery
  <2> QED BY <2>2, <2>3, <2>4, <2>5
<1>7. ASSUME NEW p \in Queries \cup {"new"}, Open(p) PROVE UpToDate(q)'
  <2>1. UpToDate(q) /\ cache' = Opened(cache, at') /\ UNCHANGED <<admin, there, says, shared>>
    BY <1>7 DEF ListsUpToDate, Acting, Open
  <2> QED BY <1>0, <1>6, <2>1 DEF UpToDate
<1>8. CASE InitForm \/ Type
  BY <1>1, <1>8 DEF InitForm, Type
<1>9. ASSUME NEW op \in {"save", "create", "share", "delete"}, NEW c \in Containers, Ask(op, c) PROVE UpToDate(q)'
  <2>1. UpToDate(q) /\ Answer(q)' = Answer(q) /\ UNCHANGED <<cache, at>>
    BY <1>9, AnswerStays DEF ListsUpToDate, Acting, Ask
  <2> QED BY <2>1 DEF UpToDate
<1>10. CASE Apply
  BY <1>10 DEF Apply, Acting, PagesTypeOK
\* What the call has changed is asked for again, or is known to be behind.
<1>11. CASE Answered
  <2> DEFINE Q == Told(call.op, call.of)
             from == Invalidated(Q)
  <2>1. /\ UNCHANGED <<admin, there, says, shared>> /\ q \notin behind /\ q \notin Overtaken(Queries)
        /\ call.op \in {"save", "create"} => q # "mine"
        /\ cache' = IF at' = at THEN from ELSE Opened(from, at')
        /\ call.op \in {"save", "create", "share", "delete"}
    BY <1>11 DEF Answered, PagesTypeOK
  <2>2. q \in Q
    BY <2>1 DEF Told, Lists
  <2>3. /\ from[q].stale /\ from[q] \in PageQuery
        /\ from[q].fetch # "read"
        /\ q \in Used(at) => from[q].fetch = "asked"
    <3> DEFINE e == [cache[q] EXCEPT !.stale = TRUE]
    <3>1. e.stale /\ e.fetch = cache[q].fetch /\ e.data = cache[q].data /\ e \in PageQuery
      BY <1>0 DEF PageQuery
    <3>2. from[q] = IF q \in Used(at) THEN Begun(e) ELSE e
      BY <1>0, <2>2 DEF Invalidated
    <3>3. cache[q].fetch = "read" => q \in Used(at) /\ cache[q].data.got
      BY <1>0, <2>1 DEF Overtaken
    <3> HIDE DEF e, from
    <3>4. Begun(e) \in PageQuery /\ Begun(e).stale /\ Begun(e).fetch = IF e.fetch # "no" /\ ~e.data.got THEN e.fetch ELSE "asked"
      BY <3>1 DEF Begun, PageQuery
    <3>5. CASE q \in Used(at)
      BY <3>1, <3>2, <3>3, <3>4, <3>5 DEF PageQuery
    <3>6. CASE q \notin Used(at)
      BY <3>1, <3>2, <3>3, <3>6
    <3> QED BY <3>5, <3>6
  <2> HIDE DEF Q, from
  <2>4. CASE at' = at
    <3>1. q = at => q \in Used(at)
      BY DEF Used, Lists, Queries
    <3> QED BY <2>1, <2>3, <2>4, <3>1 DEF UpToDate
  <2>5. CASE at' # at
    BY <1>6, <2>1, <2>3, <2>5
  <2> QED BY <2>4, <2>5
<1>12. CASE Refused
  <2>1. ~call.done /\ UNCHANGED <<admin, there, says, shared, cache, at, behind>>
    BY <1>0, <1>12 DEF Refused
  <2>2. UpToDate(q) /\ Answer(q)' = Answer(q)
    BY <2>1, AnswerStays DEF ListsUpToDate, Acting
  <2> QED BY <2>1, <2>2 DEF UpToDate
<1>13. ASSUME NEW c \in Containers, Elsewhere(c) PROVE FALSE
  BY <1>0, <1>13 DEF Elsewhere
<1>14. CASE UNCHANGED pageVars
  BY <1>1, <1>14 DEF pageVars
<1> HIDE DEF PagesInv
<1> QED BY <1>2, <1>3, <1>4, <1>5, <1>5a, <1>7, <1>8, <1>9, <1>10, <1>11, <1>12, <1>13, <1>14 DEF PagesNext

LEMMA PagesInvMeans == PagesInv => PagesHold
<1> SUFFICES ASSUME PagesInv PROVE ListIsCurrent /\ UnsavedEditsSurvive
  BY DEF PagesHold
<1>1. ListIsCurrent
  BY DEF PagesInv, ListsUpToDate, UpToDate, Acting, ListIsCurrent
<1> QED BY <1>1 DEF PagesInv, Typing

\* For any containers and any number of changes by the user and by others: a form keeps
\* what is typed until it is saved or left, and a list shows all that the user has done.
THEOREM PagesAreCurrent == PagesSpec => []PagesHold
<1>1. PagesInv /\ [PagesNext]_pageVars => PagesInv'
  BY PagesTypeStep, TypingStep, ListsStep DEF PagesInv
<1>2. PagesSpec => []PagesInv
  BY <1>1, PagesInvInit, PTL DEF PagesSpec
<1> QED BY <1>2, PagesInvMeans, PTL

-----------------------------------------------------------------------------
(* Forms *)

(* The invariant *)

Some(page_typed) == \E f \in Fields : page_typed[f] # 0

\* What the form and its save rest on: a form without data waits for none that could
\* overwrite it, and a save begins in an open form.
FormIsUsed ==
  /\ page.open /\ Some(page.typed) => IF memo.data.got THEN TRUE ELSE memo.fetch = "no" /\ ~Form.stays
  /\ mine.on => page.open /\ (memo.data.got \/ (memo.fetch = "no" /\ ~Form.stays))
  /\ \A f \in Fields : page.typed[f] # 0 => f \in Inputs

\* While nobody has written the row, its query's data are the row; the form shows them
\* where nothing is typed.
DataAreRow ==
  /\ ~moved => /\ memo.data.got => memo.data.row = Shown
               /\ memo.fetch = "read" => memo.answer = Shown
  /\ page.open => \A f \in Fields : page.typed[f] = 0 => page.row[f] = memo.data.row[f]
  /\ memo.data.row["secret"] = 0 /\ memo.answer["secret"] = 0

\* What is kept is in the row, in data that are not stale, and in what a save writes
\* again; a secret is in the row alone.
KeptStays ==
  \A f \in Fields : kept[f] # 0 =>
    /\ stored[f] = kept[f]
    /\ f # "secret" /\ memo.fetch = "read" => memo.answer[f] = kept[f]
    /\ f # "secret" /\ memo.data.got /\ ~memo.stale => memo.data.row[f] = kept[f]
    /\ mine.on => mine.row[f] = kept[f] \/ (f = "secret" /\ mine.row[f] = 0)

\* A save that meets no other has written what it has not still to write.
SaveGoesOn ==
  mine.on /\ ~mine.met => \A f \in mine.typed :
    mine.row[f] # 0 /\ ((\E i \in DOMAIN mine.left : f \in mine.left[i]) \/ stored[f] = mine.row[f])

AdminInv == AdminTypeOK /\ FormIsUsed /\ DataAreRow /\ KeptStays /\ SaveGoesOn /\ TypedSurvives

LEMMA NoneTyped ==
  /\ NoValues \in FieldValues /\ \A f \in Fields : NoValues[f] = 0
  /\ Closed \in [open : BOOLEAN, row : FieldValues, typed : FieldValues] /\ ~Closed.open /\ Closed.typed = NoValues
  /\ Closed.row = NoValues
  /\ NoPut \in PutRequest /\ ~NoPut.on
<1>1. NoValues \in FieldValues /\ \A f \in Fields : NoValues[f] = 0
  BY DEF NoValues, FieldValues
<1> QED BY <1>1 DEF Closed, NoPut, PutRequest

LEMMA AdminInvInit == AdminInit => AdminInv
<1> SUFFICES ASSUME AdminInit PROVE AdminInv
  OBVIOUS
<1> USE NoneTyped
<1>1. AdminTypeOK
  BY FormsAndBounds DEF AdminInit, AdminTypeOK, RowQuery, NoData
<1>2. FormIsUsed /\ DataAreRow
  BY DEF AdminInit, FormIsUsed, DataAreRow, NoData, Fields
<1>3. KeptStays /\ SaveGoesOn /\ TypedSurvives
  BY DEF AdminInit, KeptStays, SaveGoesOn, TypedSurvives
<1> QED BY <1>1, <1>2, <1>3 DEF AdminInv

\* The statements of a form's PUT write all its inputs.
LEMMA HandlerWrites ==
  ASSUME which \in Forms
  PROVE  /\ Handler \in Seq(SUBSET Fields) /\ Handler # <<>> /\ Inputs \subseteq Fields
         /\ \A f \in Inputs : \E i \in DOMAIN Handler : f \in Handler[i]
<1> DEFINE Writes(s, I) == s \in Seq(SUBSET Fields) /\ s # <<>> /\ \A f \in I : \E i \in DOMAIN s : f \in s[i]
<1>1. \A S \in SUBSET Fields : Writes(<<S>>, S)
  <2>1. \A S : DOMAIN <<S>> = {1} /\ <<S>>[1] = S /\ <<S>> # <<>>
    OBVIOUS
  <2>2. \A S \in SUBSET Fields : <<S>> \in Seq(SUBSET Fields)
    OBVIOUS
  <2> QED BY <2>1, <2>2
<1>2. \A S, T \in SUBSET Fields : Writes(<<S, T>>, S \cup T)
  <2>1. \A S, T : DOMAIN <<S, T>> = {1, 2} /\ <<S, T>>[1] = S /\ <<S, T>>[2] = T /\ <<S, T>> # <<>>
    OBVIOUS
  <2>2. \A S, T \in SUBSET Fields : <<S, T>> \in Seq(SUBSET Fields)
    OBVIOUS
  <2> QED BY <2>1, <2>2
<1> HIDE DEF Writes
<1>3. {"a", "b", "secret"} = Fields /\ {"a", "b"} \subseteq Fields /\ {"a", "secret"} \cup {"b"} = Fields
      /\ {"a"} \cup {"b"} = {"a", "b"}
  BY DEF Fields
<1>4. /\ Writes(NodePut, NodeInputs) /\ Writes(DomainPut, DomainInputs)
      /\ Writes(SitePut, SiteInputs) /\ Writes(GroupPut, GroupInputs)
  BY <1>1, <1>3 DEF NodePut, DomainPut, NodeInputs, DomainInputs, SitePut, GroupPut, SiteInputs, GroupInputs
<1>5. Writes(UserPut, UserInputs) /\ Writes(SettingsPut, SettingsInputs)
  <2>1. {"a", "secret"} \in SUBSET Fields /\ {"b"} \in SUBSET Fields /\ {"a"} \in SUBSET Fields
    BY DEF Fields
  <2> QED BY <1>2, <1>3, <2>1 DEF UserPut, UserInputs, SettingsPut, SettingsInputs
<1>6. Writes(Handler, Inputs)
  BY <1>4, <1>5, FormsAndBounds DEF Handler, Inputs
<1>7. Inputs \subseteq Fields
  BY FormsAndBounds, <1>3 DEF Inputs, NodeInputs, DomainInputs, SiteInputs, GroupInputs, UserInputs, SettingsInputs
<1> QED BY <1>6, <1>7 DEF Writes

LEMMA StoredType ==
  ASSUME stored \in FieldValues, NEW parts, NEW r \in FieldValues
  PROVE  Stored(parts, r) \in FieldValues
BY DEF Stored, FieldValues

LEMMA AdminTypeStep == AdminTypeOK /\ [AdminNext]_adminVars => AdminTypeOK'
<1> SUFFICES ASSUME AdminTypeOK, [AdminNext]_adminVars PROVE AdminTypeOK'
  OBVIOUS
<1> USE DEF AdminTypeOK
<1>0. /\ NoValues \in FieldValues /\ Shown \in FieldValues
      /\ Closed \in [open : BOOLEAN, row : FieldValues, typed : FieldValues] /\ NoPut \in PutRequest
  BY NoneTyped DEF FieldValues, Shown
<1>1. CASE ReadRow
  <2>1. memo' = [memo EXCEPT !.fetch = "read", !.answer = Shown]
    BY <1>1 DEF ReadRow
  <2>2. memo' \in RowQuery
    BY <1>0, <2>1 DEF RowQuery
  <2> QED BY <1>1, <2>2 DEF ReadRow
<1>2. CASE RowArrives
  <2>1. memo' \in RowQuery
    BY <1>0, <1>2 DEF RowArrives, RowQuery
  <2>2. page' = page \/ \E written \in FieldValues : page' = [page EXCEPT !.row = memo.answer, !.typed = written]
    BY <1>0, <1>2 DEF RowArrives
  <2>3. page' \in [open : BOOLEAN, row : FieldValues, typed : FieldValues]
    BY <2>2 DEF RowQuery
  <2>4. moved' \in BOOLEAN /\ UNCHANGED <<which, stored, mine, theirs, kept, number, visits, upsets>>
    BY <1>2 DEF RowArrives
  <2> QED BY <2>1, <2>3, <2>4
<1>3. CASE RowFails \/ RowAges
  <2>1. memo' = [memo EXCEPT !.fetch = "no", !.stale = TRUE, !.answer = NoValues] \/ memo' = [memo EXCEPT !.stale = TRUE]
    BY <1>3 DEF RowFails, RowAges
  <2>2. memo' \in RowQuery
    BY <1>0, <2>1 DEF RowQuery
  <2> QED BY <1>3, <2>2 DEF RowFails, RowAges, Upset
<1>4. CASE Visit
  <2>1. page' = [Closed EXCEPT !.open = TRUE, !.row = memo.data.row]
    BY <1>4 DEF Visit
  <2>2. page' \in [open : BOOLEAN, row : FieldValues, typed : FieldValues]
    BY <1>0, <2>1 DEF RowQuery
  <2>3. memo' \in RowQuery
    BY <1>4 DEF Visit, Fetched, RowQuery
  <2> QED BY <1>4, <2>2, <2>3 DEF Visit
<1>5. ASSUME NEW f \in Fields, TypeField(f) PROVE AdminTypeOK'
  <2> DEFINE n == number + 1
  <2>1. page' = [page EXCEPT !.row[f] = n, !.typed[f] = n] /\ number' = n /\ n \in Nat
    BY <1>5 DEF TypeField
  <2> HIDE DEF n
  <2>2. page' \in [open : BOOLEAN, row : FieldValues, typed : FieldValues]
    BY <2>1 DEF FieldValues
  <2> QED BY <1>5, <2>1, <2>2 DEF TypeField
<1>6. CASE LeavePage
  BY <1>0, <1>6 DEF LeavePage
<1>7. CASE SaveRow
  <2>1. mine' = [on |-> TRUE, row |-> page.row, left |-> Handler, met |-> theirs.on,
                 typed |-> {f \in Fields : page.typed[f] # 0}]
    BY <1>7 DEF SaveRow
  <2>2. mine' \in PutRequest
    BY <2>1, HandlerWrites DEF PutRequest
  <2>3. kept' \in FieldValues
    BY <1>0, <1>7 DEF SaveRow, FieldValues
  <2> QED BY <1>7, <2>2, <2>3 DEF SaveRow
<1>8. CASE Write
  <2>1. mine' = [mine EXCEPT !.left = Tail(mine.left)] /\ mine.left \in Seq(SUBSET Fields) /\ mine.left # <<>>
    BY <1>8 DEF Write, PutRequest
  <2>2. Tail(mine.left) \in Seq(SUBSET Fields)
    BY <2>1
  <2>3. mine' \in PutRequest
    BY <2>1, <2>2 DEF PutRequest
  <2>4. stored' \in FieldValues
    BY <1>8, StoredType DEF Write, PutRequest
  <2> QED BY <1>8, <2>3, <2>4 DEF Write
<1>9. CASE Saved
  <2>1. memo' \in RowQuery
    BY <1>0, <1>9 DEF Saved, Stale, RowQuery
  <2>2. kept' \in FieldValues
    BY <1>9 DEF Saved, FieldValues, PutRequest
  <2>3. page' \in [open : BOOLEAN, row : FieldValues, typed : FieldValues]
    BY <1>0, <1>9 DEF Saved
  <2> QED BY <1>0, <1>9, <2>1, <2>2, <2>3 DEF Saved
<1>10. CASE SaveFails
  BY <1>0, <1>10 DEF SaveFails, Upset
<1>11. ASSUME NEW new \in BOOLEAN, TheySave(new) PROVE AdminTypeOK'
  <2> DEFINE r == [f \in Fields |-> IF f = "a" \/ new THEN MaxEdits + upsets' ELSE 0]
  <2>1. r \in FieldValues /\ upsets' \in Nat
    BY <1>11, FormsAndBounds DEF TheySave, Upset, FieldValues
  <2>2. theirs' = [NoPut EXCEPT !.on = TRUE, !.left = Handler, !.row = r] /\ mine' = [mine EXCEPT !.met = TRUE]
    BY <1>11 DEF TheySave
  <2> HIDE DEF r
  <2>3. theirs' \in PutRequest
    BY <1>0, <2>1, <2>2, HandlerWrites DEF PutRequest
  <2>5. theirs'.left # <<>>
    BY <1>0, <2>2, HandlerWrites DEF PutRequest
  <2>4. mine' \in PutRequest
    BY <2>2 DEF PutRequest
  <2> QED BY <1>11, <2>1, <2>3, <2>4, <2>5 DEF TheySave
<1>12. CASE TheyWrite
  <2>1. mine' \in PutRequest
    BY <1>12 DEF TheyWrite, PutRequest
  <2>2. stored' \in FieldValues
    BY <1>12, StoredType DEF TheyWrite, PutRequest
  <2>3. theirs' \in PutRequest /\ (theirs'.on => theirs'.left # <<>>)
    <3> DEFINE rest == Tail(theirs.left)
    <3>1. theirs.left \in Seq(SUBSET Fields) /\ theirs.left # <<>>
      BY <1>12 DEF TheyWrite, PutRequest
    <3>2. rest \in Seq(SUBSET Fields) /\ (Len(theirs.left) # 1 => rest # <<>>)
      <4>1. \A t \in Seq(SUBSET Fields) : t # <<>> /\ Len(t) # 1 => Len(Tail(t)) # 0
        OBVIOUS
      <4>2. rest \in Seq(SUBSET Fields)
        BY <3>1
      <4>3. Len(<<>>) = 0
        OBVIOUS
      <4> QED BY <3>1, <4>1, <4>2, <4>3
    <3>3. theirs' = NoPut \/ (Len(theirs.left) # 1 /\ theirs' = [theirs EXCEPT !.left = rest])
      BY <1>12 DEF TheyWrite
    <3> HIDE DEF rest
    <3>4. CASE theirs' = NoPut
      BY <1>0, <3>4, NoneTyped
    <3>5. CASE Len(theirs.left) # 1 /\ theirs' = [theirs EXCEPT !.left = rest]
      <4>1. theirs \in PutRequest /\ rest \in Seq(SUBSET Fields) /\ rest # <<>>
        BY <3>2, <3>5
      <4> HIDE DEF AdminTypeOK
      <4>2. theirs'.left = rest /\ theirs' \in PutRequest
        BY <3>5, <4>1 DEF PutRequest
      <4> QED BY <4>1, <4>2
    <3> QED BY <3>3, <3>4, <3>5
  <2> QED BY <1>0, <1>12, <2>1, <2>2, <2>3 DEF TheyWrite
<1>13. CASE UNCHANGED adminVars
  BY <1>13 DEF adminVars
<1> HIDE DEF AdminTypeOK
<1> QED BY <1>1, <1>2, <1>3, <1>4, <1>5, <1>6, <1>7, <1>8, <1>9, <1>10, <1>11, <1>12, <1>13 DEF AdminNext

\* Every form is of one kind: it stays, or it is left when it is saved.
LEMMA FormKind == which \in Forms => Form.stays \in BOOLEAN
BY FormsAndBounds DEF Form, NodeForm, DomainForm, UserForm, SiteForm, GroupForm, SettingsForm

LEMMA FormIsUsedStep == AdminInv /\ [AdminNext]_adminVars => FormIsUsed'
<1> SUFFICES ASSUME AdminInv, [AdminNext]_adminVars PROVE FormIsUsed'
  OBVIOUS
<1> USE DEF AdminInv
<1>0. which' = which /\ Form' = Form /\ Inputs' = Inputs /\ Form.stays \in BOOLEAN
  <2>1. which' = which
    BY DEF AdminNext, adminVars, ReadRow, RowArrives, RowFails, RowAges, Visit, LeavePage, SaveRow, Write, Saved,
           SaveFails, TypeField, TheySave, TheyWrite
  <2> QED BY <2>1, FormKind DEF Form, Inputs, AdminTypeOK
<1>1. CASE UNCHANGED <<page, mine>> /\ (memo'.data.got = memo.data.got)
           /\ (memo'.fetch = "no" \/ memo'.fetch = memo.fetch \/ memo.fetch # "no")
  BY <1>0, <1>1 DEF FormIsUsed, Some
<1>2. CASE ReadRow \/ RowFails \/ RowAges
  <2>1. UNCHANGED <<page, mine>> /\ memo'.data = memo.data
        /\ (memo'.fetch = "no" \/ memo'.fetch = memo.fetch \/ memo.fetch # "no")
    BY <1>2 DEF ReadRow, RowFails, RowAges, AdminTypeOK, RowQuery
  <2> QED BY <1>1, <2>1
<1>3. CASE RowArrives
  <2>1. /\ memo'.data.got /\ UNCHANGED mine /\ page'.open = page.open
        /\ page'.typed = page.typed \/ page'.typed = NoValues
    BY <1>3 DEF RowArrives, AdminTypeOK
  <2> QED BY <1>0, <2>1, NoneTyped DEF FormIsUsed, Some
<1>4. CASE Visit
  <2>1. page'.typed = NoValues /\ UNCHANGED mine /\ ~mine.on
    BY <1>4, NoneTyped DEF Visit, FormIsUsed
  <2> QED BY <1>0, <2>1, NoneTyped DEF FormIsUsed, Some
<1>5. ASSUME NEW f \in Fields, TypeField(f) PROVE FormIsUsed'
  <2>1. /\ UNCHANGED <<memo, mine>> /\ page'.open = page.open /\ Usable /\ f \in Inputs
        /\ \A g \in Fields : g # f => page'.typed[g] = page.typed[g]
    BY <1>5 DEF TypeField, AdminTypeOK, FieldValues
  <2> QED BY <1>0, <2>1 DEF FormIsUsed, Some, Usable
<1>6. CASE LeavePage
  <2>1. page' = Closed /\ ~mine.on /\ UNCHANGED mine
    BY <1>6 DEF LeavePage
  <2> QED BY <2>1, NoneTyped DEF FormIsUsed
<1>7. CASE SaveRow
  <2>1. UNCHANGED <<page, memo>> /\ Usable
    BY <1>7 DEF SaveRow
  <2> QED BY <1>0, <2>1 DEF FormIsUsed, Usable, Some
<1>8. CASE Write \/ (\E new \in BOOLEAN : TheySave(new)) \/ TheyWrite
  <2>1. UNCHANGED <<page, memo>> /\ mine'.on = mine.on
    BY <1>8 DEF Write, TheySave, TheyWrite, AdminTypeOK, PutRequest
  <2> QED BY <1>0, <2>1 DEF FormIsUsed, Some
<1>9. CASE Saved
  <2>1. ~mine'.on /\ mine.on /\ page' = (IF Form.stays THEN page ELSE Closed)
    BY <1>9, NoneTyped DEF Saved
  <2>2. memo'.data = memo.data
    BY <1>9 DEF Saved, Stale, AdminTypeOK, RowQuery
  <2> QED BY <1>0, <2>1, <2>2, NoneTyped DEF FormIsUsed, Some
<1>10. CASE SaveFails
  <2>1. ~mine'.on /\ UNCHANGED <<page, memo>>
    BY <1>10, NoneTyped DEF SaveFails
  <2> QED BY <1>0, <2>1 DEF FormIsUsed, Some
<1>11. CASE UNCHANGED adminVars
  BY <1>1, <1>11 DEF adminVars
<1> HIDE DEF AdminInv
<1> QED BY <1>2, <1>3, <1>4, <1>5, <1>6, <1>7, <1>8, <1>9, <1>10, <1>11 DEF AdminNext

LEMMA DataAreRowStep == AdminInv /\ [AdminNext]_adminVars => DataAreRow'
<1> SUFFICES ASSUME AdminInv, [AdminNext]_adminVars PROVE DataAreRow'
  OBVIOUS
<1> USE DEF AdminInv
<1>0. Shown["secret"] = 0 /\ NoValues["secret"] = 0
  BY DEF Shown, AdminTypeOK, FieldValues, Fields, NoValues
<1>1. CASE ReadRow
  <2>1. UNCHANGED <<page, moved>> /\ memo'.data = memo.data /\ memo'.answer = Shown /\ Shown' = Shown
    BY <1>1 DEF ReadRow, AdminTypeOK, RowQuery, Shown
  <2> QED BY <1>0, <2>1 DEF DataAreRow
<1>2. CASE RowArrives
  <2>1. /\ memo'.data.row = memo.answer /\ memo'.fetch = "no" /\ memo'.answer = NoValues /\ Shown' = Shown
        /\ moved' = (moved /\ memo.answer # Shown) /\ memo.fetch = "read"
    BY <1>2 DEF RowArrives, Shown
  <2>2. ASSUME page'.open, NEW f \in Fields, page'.typed[f] = 0 PROVE page'.row[f] = memo.answer[f]
    <3>1. CASE Reset(memo.data, memo.answer)
      BY <1>2, <3>1 DEF RowArrives, AdminTypeOK
    <3>2. CASE ~Reset(memo.data, memo.answer)
      BY <1>2, <2>2, <3>2 DEF RowArrives, Reset, DataAreRow
    <3> QED BY <3>1, <3>2
  <2> QED BY <1>0, <2>1, <2>2 DEF DataAreRow
<1>3. CASE RowFails \/ RowAges
  <2>1. /\ memo'.data = memo.data /\ UNCHANGED <<page, moved, stored>>
        /\ \/ memo'.fetch = "no" /\ memo'.answer = NoValues
           \/ memo'.fetch = memo.fetch /\ memo'.answer = memo.answer
    BY <1>3 DEF RowFails, RowAges, AdminTypeOK, RowQuery
  <2> QED BY <1>0, <2>1 DEF DataAreRow, Shown
<1>4. CASE Visit
  <2>1. /\ memo'.data = memo.data /\ memo'.answer = memo.answer /\ (memo'.fetch = "read" => memo.fetch = "read")
        /\ page'.row = memo.data.row /\ UNCHANGED <<moved, stored>>
    BY <1>4, NoneTyped DEF Visit, Fetched, AdminTypeOK, RowQuery
  <2> QED BY <2>1 DEF DataAreRow, Shown
<1>5. ASSUME NEW f \in Fields, TypeField(f) PROVE DataAreRow'
  <2>1. /\ UNCHANGED <<memo, moved, stored>> /\ page'.typed[f] # 0 /\ page.open
        /\ \A g \in Fields : g # f => page'.typed[g] = page.typed[g] /\ page'.row[g] = page.row[g]
    BY <1>5 DEF TypeField, AdminTypeOK, FieldValues, Usable
  <2> QED BY <2>1 DEF DataAreRow, Shown
<1>6. CASE LeavePage
  <2>1. UNCHANGED <<memo, moved, stored>> /\ ~page'.open
    BY <1>6, NoneTyped DEF LeavePage
  <2> QED BY <2>1 DEF DataAreRow, Shown
<1>7. CASE SaveRow \/ SaveFails \/ (\E new \in BOOLEAN : TheySave(new)) \/ UNCHANGED adminVars
  <2>1. UNCHANGED <<memo, page, moved, stored>>
    BY <1>7 DEF SaveRow, SaveFails, TheySave, adminVars
  <2> QED BY <2>1 DEF DataAreRow, Shown
<1>8. CASE Write \/ TheyWrite
  <2>1. UNCHANGED <<memo, page>> /\ moved'
    BY <1>8 DEF Write, TheyWrite
  <2> QED BY <2>1 DEF DataAreRow
<1>9. CASE Saved
  <2>1. /\ memo'.data = memo.data /\ UNCHANGED <<moved, stored>> /\ (page' = page \/ ~page'.open)
        /\ \/ memo'.fetch = memo.fetch /\ memo'.answer = memo.answer
           \/ memo'.fetch = "asked" /\ memo'.answer = NoValues
    BY <1>9, NoneTyped DEF Saved, Stale, AdminTypeOK, RowQuery
  <2> QED BY <1>0, <2>1 DEF DataAreRow, Shown
<1> HIDE DEF AdminInv
<1> QED BY <1>1, <1>2, <1>3, <1>4, <1>5, <1>6, <1>7, <1>8, <1>9 DEF AdminNext

\* The form is filled again only when nothing is typed, or somebody has written the row.
LEMMA TypedSurvivesStep == AdminInv /\ [AdminNext]_adminVars => TypedSurvives'
<1> SUFFICES ASSUME AdminInv, [AdminNext]_adminVars PROVE TypedSurvives'
  OBVIOUS
<1> USE DEF AdminInv
<1>1. CASE page' = page \/ page'.typed = NoValues \/ ~page'.open
  BY <1>1, NoneTyped DEF TypedSurvives
<1>2. CASE RowArrives
  <2>1. CASE Reset(memo.data, memo.answer) /\ ~moved
    <3>1. ~memo.data.got /\ page.open
      BY <1>2, <2>1 DEF RowArrives, Reset, DataAreRow
    <3>2. \A f \in Fields : page.typed[f] = 0
      BY <1>2, <3>1 DEF RowArrives, FormIsUsed, Some
    <3>3. page'.typed = page.typed
      BY <1>2, <2>1 DEF RowArrives, AdminTypeOK
    <3> QED BY <3>2, <3>3 DEF TypedSurvives
  <2>2. CASE Reset(memo.data, memo.answer) /\ moved
    <3>1. page'.typed = NoValues
      BY <1>2, <2>2 DEF RowArrives, AdminTypeOK
    <3> QED BY <1>1, <3>1
  <2>3. CASE ~Reset(memo.data, memo.answer)
    BY <1>1, <1>2, <2>3 DEF RowArrives
  <2> QED BY <2>1, <2>2, <2>3
<1>3. ASSUME NEW f \in Fields, TypeField(f) PROVE TypedSurvives'
  <2> DEFINE n == number + 1
  <2>1. page' = [page EXCEPT !.row[f] = n, !.typed[f] = n]
    BY <1>3 DEF TypeField
  <2> HIDE DEF n
  <2>2. /\ page'.open = page.open /\ page'.row[f] = page'.typed[f]
        /\ \A g \in Fields : g # f => page'.typed[g] = page.typed[g] /\ page'.row[g] = page.row[g]
    BY <2>1 DEF AdminTypeOK, FieldValues
  <2> QED BY <2>2 DEF TypedSurvives
<1>4. Visit => page'.typed = NoValues
  BY NoneTyped DEF Visit
<1>5. LeavePage \/ Saved => page' = page \/ ~page'.open
  BY NoneTyped DEF LeavePage, Saved
<1>6. \/ UNCHANGED page \/ RowArrives \/ Visit \/ LeavePage \/ Saved \/ \E f \in Fields : TypeField(f)
  BY DEF AdminNext, adminVars, ReadRow, RowFails, RowAges, SaveRow, Write, SaveFails, TheySave, TheyWrite
<1> QED BY <1>1, <1>2, <1>3, <1>4, <1>5, <1>6

LEMMA KeptStaysStep == AdminInv /\ [AdminNext]_adminVars => KeptStays'
<1> SUFFICES ASSUME AdminInv, [AdminNext]_adminVars, NEW f \in Fields, kept'[f] # 0
             PROVE  /\ stored'[f] = kept'[f]
                    /\ f # "secret" /\ memo'.fetch = "read" => memo'.answer[f] = kept'[f]
                    /\ f # "secret" /\ memo'.data.got /\ ~memo'.stale => memo'.data.row[f] = kept'[f]
                    /\ mine'.on => mine'.row[f] = kept'[f] \/ (f = "secret" /\ mine'.row[f] = 0)
  BY DEF KeptStays
<1> USE DEF AdminInv
<1>1. CASE ReadRow
  <2>1. UNCHANGED <<stored, kept, mine>> /\ memo'.answer = Shown /\ memo'.data = memo.data /\ memo'.stale = memo.stale
    BY <1>1 DEF ReadRow, AdminTypeOK, RowQuery
  <2>2. f # "secret" => Shown[f] = stored[f]
    BY DEF Shown, AdminTypeOK, FieldValues
  <2> QED BY <2>1, <2>2 DEF KeptStays
<1>2. CASE RowArrives
  BY <1>2 DEF RowArrives, KeptStays
<1>3. CASE RowFails \/ RowAges
  <2>1. /\ UNCHANGED <<stored, kept, mine>> /\ memo'.stale
        /\ \/ memo'.fetch = "no"
           \/ memo'.fetch = memo.fetch /\ memo'.answer = memo.answer
    BY <1>3 DEF RowFails, RowAges, AdminTypeOK, RowQuery
  <2> QED BY <2>1 DEF KeptStays
<1>4. CASE Visit
  <2>1. /\ UNCHANGED <<stored, kept, mine>> /\ memo'.answer = memo.answer /\ memo'.data = memo.data
        /\ memo'.stale = memo.stale /\ (memo'.fetch = "read" => memo.fetch = "read")
    BY <1>4 DEF Visit, Fetched, AdminTypeOK, RowQuery
  <2> QED BY <2>1 DEF KeptStays
<1>5. CASE UNCHANGED <<stored, kept, memo, mine>>
  BY <1>5 DEF KeptStays
<1>6. CASE SaveRow
  <2>1. /\ UNCHANGED <<stored, memo>> /\ mine'.row = page.row /\ page.open
        /\ memo.data.got /\ ~memo.stale /\ page.typed[f] = 0 /\ kept'[f] = kept[f]
    BY <1>6, NoneTyped DEF SaveRow, Usable
  <2>2. page.row[f] = memo.data.row[f]
    BY <2>1 DEF DataAreRow
  <2> QED BY <2>1, <2>2 DEF KeptStays, DataAreRow
<1>7. CASE Write
  <2>1. UNCHANGED <<kept, memo>> /\ stored' = Stored(Head(mine.left), mine.row) /\ mine.on
        /\ mine'.on /\ mine'.row = mine.row
    BY <1>7 DEF Write, AdminTypeOK, PutRequest
  <2>2. stored'[f] = stored[f] \/ (stored'[f] = mine.row[f] /\ ~(f = "secret" /\ mine.row[f] = 0))
    BY <2>1 DEF Stored
  <2> QED BY <2>1, <2>2 DEF KeptStays
<1>8. CASE Saved
  <2>1. /\ UNCHANGED stored /\ ~mine'.on /\ mine.on /\ mine.left = <<>>
        /\ kept'[f] = IF f \in mine.typed /\ ~mine.met THEN mine.row[f] ELSE kept[f]
    BY <1>8, NoneTyped DEF Saved
  <2>2. memo'.stale /\ memo'.fetch # "read"
    BY <1>8, <2>1 DEF Saved, Stale, AdminTypeOK, RowQuery, FormIsUsed
  <2>3. stored[f] = kept'[f]
    BY <2>1 DEF SaveGoesOn, KeptStays
  <2> QED BY <2>1, <2>2, <2>3
<1>9. CASE SaveFails \/ TheyWrite
  BY <1>9, NoneTyped DEF SaveFails, TheyWrite
<1>10. ASSUME NEW new \in BOOLEAN, TheySave(new) PROVE UNCHANGED <<stored, kept, memo>> /\ mine'.row = mine.row /\ mine'.on = mine.on
  BY <1>10 DEF TheySave, AdminTypeOK, PutRequest
<1>11. CASE \E new \in BOOLEAN : TheySave(new)
  BY <1>10, <1>11 DEF KeptStays
<1>12. \/ UNCHANGED <<stored, kept, memo, mine>> \/ ReadRow \/ RowArrives \/ RowFails \/ RowAges \/ Visit \/ SaveRow
       \/ Write \/ Saved \/ SaveFails \/ TheyWrite \/ \E new \in BOOLEAN : TheySave(new)
  BY DEF AdminNext, adminVars, LeavePage, TypeField
<1> QED BY <1>1, <1>2, <1>3, <1>4, <1>5, <1>6, <1>7, <1>8, <1>9, <1>11, <1>12

LEMMA SaveGoesOnStep == AdminInv /\ [AdminNext]_adminVars => SaveGoesOn'
<1> DEFINE OnWay(f, left) == \E i \in DOMAIN left : f \in left[i]
<1> SUFFICES ASSUME AdminInv, [AdminNext]_adminVars, mine'.on, ~mine'.met, NEW f \in mine'.typed
             PROVE  mine'.row[f] # 0 /\ (OnWay(f, mine'.left) \/ stored'[f] = mine'.row[f])
  BY DEF SaveGoesOn
<1> USE DEF AdminInv
<1>1. CASE UNCHANGED <<mine, stored>>
  BY <1>1 DEF SaveGoesOn
<1>2. CASE SaveRow
  <2>1. mine' = [on |-> TRUE, row |-> page.row, left |-> Handler, met |-> theirs.on,
                 typed |-> {g \in Fields : page.typed[g] # 0}] /\ page.open
    BY <1>2 DEF SaveRow, Usable
  <2>2. f \in Fields /\ page.typed[f] # 0 /\ page.row[f] = page.typed[f] /\ f \in Inputs
    BY <2>1 DEF TypedSurvives, FormIsUsed
  <2> QED BY <2>1, <2>2, HandlerWrites DEF AdminTypeOK
<1>3. CASE Write
  <2>1. /\ mine' = [mine EXCEPT !.left = Tail(mine.left)] /\ mine.left # <<>> /\ mine.on
        /\ stored' = Stored(Head(mine.left), mine.row)
    BY <1>3 DEF Write
  <2>2. /\ mine'.left = Tail(mine.left) /\ mine'.row = mine.row /\ mine'.typed = mine.typed /\ mine'.met = mine.met
        /\ mine.left \in Seq(SUBSET Fields) /\ f \in Fields
    BY <2>1 DEF AdminTypeOK, PutRequest
  <2>3. mine.row[f] # 0 /\ (OnWay(f, mine.left) \/ stored[f] = mine.row[f])
    BY <2>1, <2>2 DEF SaveGoesOn
  <2>4. CASE f \in Head(mine.left)
    BY <2>1, <2>2, <2>3, <2>4 DEF Stored
  <2>5. CASE f \notin Head(mine.left)
    <3>1. stored'[f] = stored[f]
      BY <2>1, <2>2, <2>5 DEF Stored
    <3>2. ASSUME OnWay(f, mine.left) PROVE OnWay(f, Tail(mine.left))
      <4>1. PICK i \in DOMAIN mine.left : f \in mine.left[i]
        BY <3>2
      <4>2. i # 1
        BY <2>1, <2>2, <2>5, <4>1
      <4>3. i - 1 \in DOMAIN Tail(mine.left) /\ Tail(mine.left)[i - 1] = mine.left[i]
        BY <2>1, <2>2, <4>1, <4>2
      <4> QED BY <4>1, <4>3
    <3> QED BY <2>2, <2>3, <3>1, <3>2
  <2> QED BY <2>4, <2>5
<1>4. CASE Saved \/ SaveFails
  BY <1>4, NoneTyped DEF Saved, SaveFails
<1>5. CASE TheyWrite \/ \E new \in BOOLEAN : TheySave(new)
  <2>1. mine' = [mine EXCEPT !.met = TRUE]
    BY <1>5 DEF TheyWrite, TheySave
  <2> QED BY <2>1 DEF AdminTypeOK, PutRequest
<1>6. \/ UNCHANGED <<mine, stored>> \/ SaveRow \/ Write \/ Saved \/ SaveFails \/ TheyWrite
      \/ \E new \in BOOLEAN : TheySave(new)
  BY DEF AdminNext, adminVars, LeavePage, TypeField, ReadRow, RowArrives, RowFails, RowAges, Visit
<1> QED BY <1>1, <1>2, <1>3, <1>4, <1>5, <1>6

LEMMA AdminInvStep == AdminInv /\ [AdminNext]_adminVars => AdminInv'
BY AdminTypeStep, FormIsUsedStep, DataAreRowStep, TypedSurvivesStep, KeptStaysStep, SaveGoesOnStep DEF AdminInv

\* Whatever another administrator saves meanwhile, whatever fails or grows old, and for
\* any number of edits: what is typed stays in the form, and what is saved in the row.
THEOREM EditsStay == AdminSpec => []AdminEditsStay
<1>1. AdminInv => AdminEditsStay
  BY DEF AdminInv, KeptStays, AdminEditsStay, OwnEditsStay
<1>2. AdminSpec => []AdminInv
  BY AdminInvInit, AdminInvStep, PTL DEF AdminSpec
<1> QED BY <1>1, <1>2, PTL

-----------------------------------------------------------------------------
(* Services *)

USE PortsAreNumbers, AsksAreRequests

\* What a request does once it has begun.
Goes(r) ==
  Remove(r) \/ Choose(r) \/ InsertService(r) \/ Deadlocked(r) \/ Written(r)
  \/ Name(r) \/ Commit(r) \/ Unname(r) \/ Mismatch(r) \/ DestroyContainer(r)

(* The invariant *)

\* Where a request of each kind may be.
RequestPlaced(q) ==
  /\ q.pc = "remove" => q.ins = {} /\ q.rem = {}
  /\ IsFiniteSet(q.dels) /\ IsFiniteSet(q.ins) /\ IsFiniteSet(q.rem)
  /\ q.kind # "delete" => IsFiniteSet(q.drops)
  /\ \A v \in q.rem : <<q.of, v>> \in q.dels
  /\ q.pc \notin {"new", "over"} => q.kind # "-"
  /\ q.kind = "delete" => q.ins = {} /\ q.rem = {} /\ q.pc \in {"unname", "destroy"}
  /\ q.kind # "delete" => q.pc \notin {"unname", "destroy"}
  /\ q.pc = "destroy" => q.drops = {}
  /\ q.kind = "post" => q.asks \in Seq({Tcp}) /\ q.dels = {} /\ q.rem = {} /\ q.ins \cap Hosts = {}
  /\ q.kind = "post" => q.drops = {}
  /\ q.pc = "remove" => q.drops = {}
RequestsPlaced == \A r \in Requests : RequestPlaced(req[r])

\* A value that is inserted or removed, and not committed, is one request's.
ValuesLocked == \A r, q \in Requests : r # q => Pending(r) \cap Pending(q) = {}

\* A request that has met no other is alone.
RequestsAlone == \A r, q \in Requests : Busy(r) /\ ~req[r].met /\ Busy(q) => q = r

\* What a request still has to add is the end of what it has asked for; a port it is
\* about to insert, and each it has inserted, stands for a port it has asked for.
Asked(r, i) == req[r].asks[Len(req[r].asks) - Len(req[r].adds) + i]
StillAdds(r) ==
  /\ Len(req[r].adds) <= Len(req[r].asks)
  /\ \A i \in 1..Len(req[r].adds) :
       \/ req[r].adds[i] = Asked(r, i)
       \/ i = 1 /\ req[r].pc = "insert" /\ req[r].adds[1] \in Ports /\ Asked(r, 1) = Tcp
  /\ \A v \in req[r].ins \cap Ports :
       \E i \in 1..(Len(req[r].asks) - Len(req[r].adds)) : req[r].asks[i] = Tcp
RequestsAsk ==
  \A r \in Requests :
    /\ req[r].pc \in {"remove", "add", "insert"} => StillAdds(r)
    /\ req[r].pc = "insert" => req[r].adds # <<>> /\ req[r].adds[1] \in Values

\* Nothing changes behind the back of a request that is alone.
AloneUndisturbed ==
  \A r \in Requests : Busy(r) /\ ~req[r].met =>
    /\ req[r].kind = "put" => req[r].of \in apps
    /\ req[r].pc = "insert" /\ req[r].adds[1] \in Ports =>
         req[r].adds[1] \notin Taken(r, req[r].kind = "post")

\* The records that a PUT deletes are those of its hostnames that go, and stray ones.
DropsAreForRows ==
  \A r \in Requests : req[r].kind # "delete" =>
    req[r].rem \cap Hosts \subseteq req[r].drops /\ req[r].drops \subseteq req[r].rem \cup stray

\* The calls of Cloudflare that a PUT has ahead of it: no name is deleted after one has
\* been created, and the last call for a name leaves it as the PUT's rows will say.
StillCalls(r, op, h) == \E i \in 1..Len(req[r].dns) : req[r].dns[i] = <<op, h>>
DeletesFirst(s) == \A i, j \in 1..Len(s) : i < j /\ s[i][1] = "create" => s[j][1] = "create"
CallsAreForRows ==
  \A r \in Requests : req[r].pc = "name" =>
    /\ DeletesFirst(req[r].dns)
    /\ \A h \in Hosts \ stray : StillCalls(r, "create", h) \/ StillCalls(r, "delete", h) => h \in Pending(r)

\* Requests on different containers do not touch each other's rows.
OwnsRows(r) ==
  /\ \A v \in req[r].rem : has[v] = req[r].of
  /\ \A v \in req[r].ins : has[v] = "-" \/ v \in req[r].rem
  /\ \A h \in req[r].drops : req[r].kind = "delete" => has[h] = req[r].of
  /\ req[r].kind = "put" => req[r].of \in apps
RowsOwned ==
  ~tangled =>
    /\ \A r, q \in Requests : Busy(r) /\ Busy(q) /\ req[r].of = req[q].of => r = q
    /\ \A r \in Requests : Busy(r) => OwnsRows(r)

\* Where records and committed rows differ, a request that will put them right.
WillTouch(r, h) ==
  /\ Busy(r)
  /\ \/ req[r].pc = "name" /\ h \in Pending(r)
     \/ req[r].kind = "delete" /\ has[h] = req[r].of /\ h \notin req[r].drops
WillBeThere(r, h) == StillCalls(r, "create", h) \/ (h \in record /\ ~StillCalls(r, "delete", h))
RecordPlanned(h) ==
  /\ (\A r \in Requests : ~WillTouch(r, h)) => (h \in record <=> has[h] # "-")
  /\ \A r \in Requests : WillTouch(r, h) =>
       IF req[r].kind = "delete" THEN h \notin record ELSE WillBeThere(r, h) <=> h \in req[r].ins
RecordsPlanned == ~tangled /\ troubles = 0 => \A h \in Hosts \ stray : RecordPlanned(h)

ServicesInv ==
  /\ ServicesTypeOK /\ RequestsPlaced /\ ValuesLocked /\ RequestsAlone /\ RequestsAsk /\ AloneUndisturbed /\ RefusedForCause
  /\ DropsAreForRows /\ CallsAreForRows /\ RowsOwned /\ RecordsPlanned

(* Types *)

\* A request whose fields are set to values of their types is a request.
Where == {"new", "remove", "add", "insert", "name", "unname", "destroy", "over"}
LEMMA RequestSet ==
  ASSUME NEW K, NEW C, NEW P, NEW S, NEW A, NEW D, NEW I, NEW R, NEW M, NEW N, NEW T, NEW q,
         T = [kind : K, of : C, pc : P, asks : S, adds : A, dels : D, ins : I, rem : R, drops : M,
              dns : N, met : BOOLEAN],
         q \in T
  PROVE  /\ [q EXCEPT !.met = TRUE] \in T
         /\ \A p \in P : [q EXCEPT !.pc = p] \in T
         /\ \A x \in M : [q EXCEPT !.drops = x] \in T
         /\ \A x \in N : [q EXCEPT !.dns = x] \in T
         /\ \A p \in P, x \in R, y \in M : [q EXCEPT !.pc = p, !.rem = x, !.drops = y] \in T
         /\ \A p \in P, x \in N : [q EXCEPT !.pc = p, !.dns = x] \in T
         /\ \A p \in P, x \in A : [q EXCEPT !.pc = p, !.adds = x] \in T
         /\ \A p \in P, x \in A, y \in I : [q EXCEPT !.pc = p, !.adds = x, !.ins = y] \in T
OBVIOUS

LEMMA ServiceRequestSet ==
  ASSUME NEW q \in ServiceRequest
  PROVE  /\ [q EXCEPT !.met = TRUE] \in ServiceRequest
         /\ \A p \in Where : [q EXCEPT !.pc = p] \in ServiceRequest
         /\ \A x \in SUBSET Hosts : [q EXCEPT !.drops = x] \in ServiceRequest
         /\ \A x \in Seq({"create", "delete"} \X Hosts) : [q EXCEPT !.dns = x] \in ServiceRequest
         /\ \A p \in Where, x \in SUBSET Values, y \in SUBSET Hosts :
              [q EXCEPT !.pc = p, !.rem = x, !.drops = y] \in ServiceRequest
         /\ \A p \in Where, x \in Seq({"create", "delete"} \X Hosts) :
              [q EXCEPT !.pc = p, !.dns = x] \in ServiceRequest
         /\ \A p \in Where, x \in Seq(Values \cup {Tcp}) :
              [q EXCEPT !.pc = p, !.adds = x] \in ServiceRequest
         /\ \A p \in Where, x \in Seq(Values \cup {Tcp}), y \in SUBSET Values :
              [q EXCEPT !.pc = p, !.adds = x, !.ins = y] \in ServiceRequest
<1> DEFINE S == Seq(Hosts \cup {Tcp})
           A == Seq(Values \cup {Tcp})
           N == Seq({"create", "delete"} \X Hosts)
           V == SUBSET Values
           D == SUBSET (Apps \X Values)
           M == SUBSET Hosts
           K == {"-", "post", "put", "delete"}
<1>1. ServiceRequest = [kind : K, of : Apps, pc : Where, asks : S, adds : A, dels : D, ins : V, rem : V,
                        drops : M, dns : N, met : BOOLEAN]
  BY DEF ServiceRequest, Where
<1> HIDE DEF S, A, N, V, D, M, K
<1>2. /\ [q EXCEPT !.met = TRUE] \in ServiceRequest
      /\ \A p \in Where : [q EXCEPT !.pc = p] \in ServiceRequest
      /\ \A x \in M : [q EXCEPT !.drops = x] \in ServiceRequest
      /\ \A x \in N : [q EXCEPT !.dns = x] \in ServiceRequest
      /\ \A p \in Where, x \in V, y \in M : [q EXCEPT !.pc = p, !.rem = x, !.drops = y] \in ServiceRequest
      /\ \A p \in Where, x \in N : [q EXCEPT !.pc = p, !.dns = x] \in ServiceRequest
      /\ \A p \in Where, x \in A : [q EXCEPT !.pc = p, !.adds = x] \in ServiceRequest
      /\ \A p \in Where, x \in A, y \in V : [q EXCEPT !.pc = p, !.adds = x, !.ins = y] \in ServiceRequest
  BY <1>1, RequestSet, Zenon
<1> QED BY <1>2 DEF S, A, N, V, D, M

LEMMA NoReqType == NoReq \in ServiceRequest /\ [NoReq EXCEPT !.pc = "over"] \in ServiceRequest
<1>1. {} \in SUBSET Values /\ {} \in SUBSET Hosts /\ {} \in SUBSET (Apps \X Values) /\ <<>> \in Seq(Hosts \cup {Tcp})
      /\ <<>> \in Seq(Values \cup {Tcp}) /\ <<>> \in Seq({"create", "delete"} \X Hosts)
  OBVIOUS
<1> QED BY <1>1 DEF NoReq, ServiceRequest, Apps

LEMMA ServicesTypeInit == ServicesInit => ServicesTypeOK
<1> SUFFICES ASSUME ServicesInit PROVE ServicesTypeOK
  OBVIOUS
<1> QED BY NoReqType DEF ServicesInit, ServicesTypeOK, Apps

\* Two requests that end as others go on.
LEMMA DoneType ==
  ASSUME ServicesTypeOK, NEW r \in Requests, Done(r)
  PROVE  req' \in [Requests -> ServiceRequest]
BY NoReqType DEF Done, ServicesTypeOK

LEMMA RollbackType ==
  ASSUME ServicesTypeOK, NEW r \in Requests, NEW just, Rollback(r, just)
  PROVE  ServicesTypeOK'
<1>1. req' \in [Requests -> ServiceRequest]
  BY DoneType DEF Rollback
<1>2. UNCHANGED <<has, apps, record, tangled, stray, troubles>>
  BY DEF Rollback
<1> QED BY <1>1, <1>2 DEF ServicesTypeOK

\* The request that has just begun: the others only notice it.
HasBegun(r, a) ==
  [NoReq EXCEPT !.kind = a.kind, !.of = a.of, !.asks = a.adds, !.adds = a.adds,
     !.dels = a.dels, !.drops = IF a.kind = "delete" THEN {v \in Hosts : has[v] = a.of} ELSE {},
     !.pc = IF a.kind = "delete" THEN "unname" ELSE "remove",
     !.met = \E p \in Requests : Busy(p)]

LEMMA BegunType ==
  ASSUME ServicesTypeOK, NEW r \in Requests, NEW a \in Asks
  PROVE  HasBegun(r, a) \in ServiceRequest
<1>1. a.adds \in Seq(Hosts \cup {Tcp}) /\ a.adds \in Seq(Values \cup {Tcp})
  <2>1. a.adds \in Seq(Hosts \cup {Tcp})
    OBVIOUS
  <2> QED BY <2>1, SeqMonotonic DEF Values
<1> DEFINE m == \E p \in Requests : Busy(p)
           h == IF a.kind = "delete" THEN {v \in Hosts : has[v] = a.of} ELSE {}
           k == IF a.kind = "delete" THEN "unname" ELSE "remove"
<1>2. m \in BOOLEAN /\ h \in SUBSET Hosts /\ k \in {"unname", "remove"}
  OBVIOUS
<1>3. a.kind \in {"post", "put", "delete"} /\ a.of \in Apps /\ a.dels \in SUBSET (Apps \X Values)
  BY DEF Values
<1>4. HasBegun(r, a) = [NoReq EXCEPT !.kind = a.kind, !.of = a.of, !.asks = a.adds, !.adds = a.adds,
                        !.dels = a.dels, !.drops = h, !.pc = k, !.met = m]
  BY DEF HasBegun
<1> HIDE DEF m, h, k
<1> DEFINE asks == a.adds
           dels == a.dels
           kind == a.kind
           of == a.of
           none == {}
           dns == <<>>
           K == {"-", "post", "put", "delete"}
           P == {"new", "remove", "add", "insert", "name", "unname", "destroy", "over"}
           S == Seq(Hosts \cup {Tcp})
           A == Seq(Values \cup {Tcp})
           V == SUBSET Values
           D == SUBSET (Apps \X Values)
           M == SUBSET Hosts
           N == Seq({"create", "delete"} \X Hosts)
<1>5. HasBegun(r, a) = [kind |-> kind, of |-> of, pc |-> k, asks |-> asks, adds |-> asks, dels |-> dels,
                     ins |-> none, rem |-> none, drops |-> h, dns |-> dns, met |-> m]
  BY ONLY <1>4 DEF NoReq
<1>6. /\ kind \in K /\ of \in Apps /\ k \in P /\ asks \in S /\ asks \in A /\ dels \in D
      /\ none \in V /\ h \in M /\ dns \in N /\ m \in BOOLEAN
  BY <1>1, <1>2, <1>3
<1>7. ServiceRequest = [kind : K, of : Apps, pc : P, asks : S, adds : A, dels : D, ins : V, rem : V,
                        drops : M, dns : N, met : BOOLEAN]
  BY DEF ServiceRequest
<1> HIDE DEF asks, dels, kind, of, none, dns, K, P, S, A, V, D, M, N
<1> QED BY ONLY <1>5, <1>6, <1>7

LEMMA BeginsReq ==
  ASSUME ServicesTypeOK, NEW r \in Requests, Begins(r)
  PROVE  \E a \in Asks :
           /\ IF a.kind = "post" THEN a.of \notin apps ELSE a.of \in apps
           /\ req'[r] = HasBegun(r, a)
           /\ \A q \in Requests \ {r} :
                req'[q] = IF Busy(q) THEN [req[q] EXCEPT !.met = TRUE] ELSE req[q]
           /\ tangled' = (tangled \/ \E q \in Requests : Busy(q) /\ req[q].of = a.of)
           /\ req' \in [Requests -> ServiceRequest]
<1>1. PICK a \in Asks :
       /\ IF a.kind = "post" THEN a.of \notin apps ELSE a.of \in apps
       /\ req' = [q \in Requests |->
            IF q = r THEN HasBegun(r, a)
            ELSE IF Busy(q) THEN [req[q] EXCEPT !.met = TRUE] ELSE req[q]]
       /\ tangled' = (tangled \/ \E q \in Requests : Busy(q) /\ req[q].of = a.of)
  BY DEF Begins, HasBegun
<1>2. HasBegun(r, a) \in ServiceRequest
  BY BegunType
<1>3. \A q \in Requests : req[q] \in ServiceRequest /\ [req[q] EXCEPT !.met = TRUE] \in ServiceRequest
  BY ServiceRequestSet DEF ServicesTypeOK
<1> HIDE DEF HasBegun
<1>4. req' \in [Requests -> ServiceRequest]
  BY <1>1, <1>2, <1>3
<1> QED BY <1>1, <1>4


\* The calls of a PUT: each name it drops is deleted and each it has added created,
\* in this order and nothing else.
LEMMA CallsOf ==
  ASSUME ServicesTypeOK, NEW r \in Requests, IsFiniteSet(req[r].ins), IsFiniteSet(req[r].drops),
         NEW s \in NamesOf(r)
  PROVE  /\ s \in Seq({"create", "delete"} \X Hosts)
         /\ DeletesFirst(s)
         /\ \A h \in Hosts : (\E i \in 1..Len(s) : s[i] = <<"delete", h>>) <=> h \in req[r].drops
         /\ \A h \in Hosts : (\E i \in 1..Len(s) : s[i] = <<"create", h>>) <=> h \in req[r].ins
<1> DEFINE D == req[r].drops
           C == req[r].ins \cap Hosts
           del == {<<"delete", h>> : h \in D}
           new == {<<"create", h>> : h \in C}
<1>1. IsFiniteSet(del)
  <2>1. IsFiniteSet(D)
    OBVIOUS
  <2> DEFINE f == [h \in D |-> <<"delete", h>>]
  <2>2. f \in Surjection(D, del)
    BY DEF Surjection
  <2> QED BY <2>1, <2>2, FS_Surjection
<1>2. IsFiniteSet(new)
  <2>1. IsFiniteSet(C)
    BY FS_Subset
  <2> DEFINE f == [h \in C |-> <<"create", h>>]
  <2>2. f \in Surjection(C, new)
    BY DEF Surjection
  <2> QED BY <2>1, <2>2, FS_Surjection
<1> DEFINE m == Cardinality(del)
           n == Cardinality(new)
<1>3. m \in Nat /\ n \in Nat
  BY <1>1, <1>2, FS_CardinalityType
<1> DEFINE P == {x \in [1..m -> del] : {x[i] : i \in DOMAIN x} = del}
           Q == {y \in [1..n -> new] : {y[i] : i \in DOMAIN y} = new}
<1>30. NamesOf(r) = {x \o y : x \in P, y \in Q}
  BY DEF NamesOf
<1>4. PICK a \in P, b \in Q : s = a \o b
  <2> HIDE DEF P, Q
  <2> QED BY <1>30
<1>40. /\ a \in [1..m -> del] /\ {a[i] : i \in DOMAIN a} = del
       /\ b \in [1..n -> new] /\ {b[i] : i \in DOMAIN b} = new
  OBVIOUS
<1> HIDE DEF P, Q, m, n
<1> DEFINE X == {"create", "delete"} \X Hosts
<1>5. del \subseteq X /\ new \subseteq X
  BY DEF ServicesTypeOK, ServiceRequest
<1> HIDE DEF X
<1>6. /\ a \in Seq(X) /\ Len(a) = m /\ DOMAIN a = 1..m
      /\ b \in Seq(X) /\ Len(b) = n /\ DOMAIN b = 1..n
  <2>1. DOMAIN a = 1..m /\ DOMAIN b = 1..n
    BY <1>40
  <2> HIDE DEF del, new
  <2>2. a \in [1..m -> X] /\ b \in [1..n -> X]
    BY <1>40, <1>5
  <2>3. a \in Seq(X) /\ b \in Seq(X)
    BY <1>3, <2>2
  <2> QED BY <1>3, <2>1, <2>3, LenProperties
<1>7. /\ s \in Seq(X) /\ Len(s) = m + n
      /\ \A i \in 1..(m + n) : s[i] = IF i <= m THEN a[i] ELSE b[i - m]
  <2> HIDE DEF del, new
  <2> QED BY <1>4, <1>6, ConcatProperties
<1>8. /\ \A i \in 1..m : s[i] = a[i] /\ s[i] \in del
      /\ \A j \in 1..n : s[m + j] = b[j] /\ m + j \in 1..(m + n) /\ s[m + j] \in new
  <2> HIDE DEF del, new
  <2>1. (\A i \in 1..m : a[i] \in del) /\ (\A j \in 1..n : b[j] \in new)
    BY <1>40
  <2>2. \A j \in 1..n : m + j \in 1..(m + n) /\ m + j > m /\ (m + j) - m = j
    BY <1>3
  <2>3. \A i \in 1..m : i \in 1..(m + n) /\ i <= m
    BY <1>3
  <2> QED BY <1>3, <1>7, <2>1, <2>2, <2>3
<1>9. \A i \in 1..(m + n) : i \in 1..m \/ (i - m \in 1..n /\ i = m + (i - m))
  BY <1>3
<1>10. DeletesFirst(s)
  <2>1. \A i \in 1..m : s[i][1] = "delete"
    BY <1>8
  <2>2. ASSUME NEW j \in 1..(m + n), j > m PROVE s[j][1] = "create"
    <3>1. PICK k \in 1..n : j = m + k
      BY <1>3, <1>9, <2>2
    <3>2. s[j] \in new
      BY <1>8, <3>1
    <3> QED BY <3>2
  <2> QED BY <1>3, <1>7, <2>1, <2>2 DEF DeletesFirst
<1>11. ASSUME NEW h \in Hosts PROVE (\E i \in 1..Len(s) : s[i] = <<"delete", h>>) <=> h \in req[r].drops
  <2>1. ASSUME NEW i \in 1..Len(s), s[i] = <<"delete", h>> PROVE h \in req[r].drops
    BY <2>1, <1>3, <1>7, <1>8, <1>9
  <2>2. ASSUME h \in req[r].drops PROVE \E i \in 1..Len(s) : s[i] = <<"delete", h>>
    <3>1. <<"delete", h>> \in del
      BY <2>2
    <3>2. PICK i \in 1..m : a[i] = <<"delete", h>>
      BY <3>1, <1>40, <1>6
    <3>3. i \in 1..Len(s) /\ s[i] = <<"delete", h>>
      BY <1>3, <1>7, <1>8, <3>2
    <3> QED BY <3>3
  <2> QED BY <2>1, <2>2
<1>12. ASSUME NEW h \in Hosts PROVE (\E i \in 1..Len(s) : s[i] = <<"create", h>>) <=> h \in req[r].ins
  <2>1. ASSUME NEW i \in 1..Len(s), s[i] = <<"create", h>> PROVE h \in req[r].ins
    BY <2>1, <1>3, <1>7, <1>8, <1>9
  <2>2. ASSUME h \in req[r].ins PROVE \E i \in 1..Len(s) : s[i] = <<"create", h>>
    <3>1. <<"create", h>> \in new
      BY <2>2
    <3>2. PICK j \in 1..n : b[j] = <<"create", h>>
      BY <3>1, <1>40, <1>6
    <3>3. m + j \in 1..Len(s) /\ s[m + j] = <<"create", h>>
      BY <1>3, <1>7, <1>8, <3>2
    <3> QED BY <3>3
  <2> QED BY <2>1, <2>2
<1> QED BY <1>7, <1>10, <1>11, <1>12 DEF X

LEMMA HeadIsFirst ==
  ASSUME NEW S, NEW s \in Seq(S), s # <<>>
  PROVE  Head(s) = s[1] /\ Len(s) \in Nat \ {0} /\ 1 \in 1..Len(s)
BY EmptySeq

LEMMA ServicesTypeStep ==
  ASSUME ServicesTypeOK, RequestsPlaced, RequestsAsk, [ServicesNext]_serviceVars
  PROVE  ServicesTypeOK'
<1>0. \A q \in Requests : req[q] \in ServiceRequest
  BY DEF ServicesTypeOK
<1> DEFINE Keeps(r) == \A p \in ServiceRequest : req' = [req EXCEPT ![r] = p] => req' \in [Requests -> ServiceRequest]
<1>00. \A r \in Requests : Keeps(r)
  BY DEF ServicesTypeOK
<1> HIDE DEF Keeps
<1>1. ASSUME NEW r \in Requests, Begins(r) PROVE ServicesTypeOK'
  <2>1. req' \in [Requests -> ServiceRequest] /\ tangled' \in BOOLEAN
    BY <1>1, BeginsReq DEF ServicesTypeOK
  <2> QED BY <1>1, <2>1 DEF Begins, ServicesTypeOK
<1>2. ASSUME NEW r \in Requests, Remove(r) PROVE ServicesTypeOK'
  <2> DEFINE gone == {v \in Found(r) : has[v] = req[r].of}
             drops == Found(r) \cap Hosts
             p == [req[r] EXCEPT !.pc = "add", !.rem = gone, !.drops = drops]
  <2>1. gone \in SUBSET Values /\ drops \in SUBSET Hosts
    BY DEF Found
  <2>2. req' = [req EXCEPT ![r] = p] /\ stray' = stray \cup (drops \ gone)
    BY <1>2 DEF Remove, ServicesTypeOK
  <2> HIDE DEF gone, drops
  <2>3. p \in ServiceRequest
    BY <1>0, <2>1, ServiceRequestSet DEF Where
  <2>4. req' \in [Requests -> ServiceRequest]
    BY <1>00, <2>2, <2>3 DEF Keeps
  <2> QED BY <1>2, <2>1, <2>2, <2>4 DEF Remove, ServicesTypeOK
<1>3. ASSUME NEW r \in Requests, Choose(r) PROVE ServicesTypeOK'
  <2>1. CASE Head(req[r].adds) # Tcp
    <3> DEFINE p == [req[r] EXCEPT !.pc = "insert"]
    <3>1. req' = [req EXCEPT ![r] = p]
      BY <1>3, <2>1 DEF Choose, ServicesTypeOK
    <3>2. p \in ServiceRequest
      BY <1>0, ServiceRequestSet DEF Where
    <3>3. req' \in [Requests -> ServiceRequest]
      BY <1>00, <3>1, <3>2 DEF Keeps
    <3> QED BY <1>3, <2>1, <3>3 DEF Choose, ServicesTypeOK
  <2>2. CASE Head(req[r].adds) = Tcp /\ NextPort(r) = {}
    BY <1>3, <2>2, RollbackType DEF Choose
  <2>3. CASE Head(req[r].adds) = Tcp /\ NextPort(r) # {}
    <3>1. PICK v \in NextPort(r) : req' = [req EXCEPT ![r].pc = "insert", ![r].adds = <<v>> \o Tail(@)]
      BY <1>3, <2>3 DEF Choose
    <3> DEFINE s == <<v>> \o Tail(req[r].adds)
               p == [req[r] EXCEPT !.pc = "insert", !.adds = s]
    <3>2. s \in Seq(Values \cup {Tcp})
      <4>1. Tail(req[r].adds) \in Seq(Values \cup {Tcp})
        BY <1>0, <1>3, HeadTailProperties DEF ServiceRequest, Choose
      <4>2. <<v>> \in Seq(Values \cup {Tcp})
        BY DEF NextPort, Values
      <4> QED BY <4>1, <4>2, ConcatProperties
    <3>3. req' = [req EXCEPT ![r] = p]
      BY <3>1 DEF ServicesTypeOK
    <3> HIDE DEF s
    <3>4. p \in ServiceRequest
      BY <1>0, <3>2, ServiceRequestSet DEF Where
    <3>5. req' \in [Requests -> ServiceRequest]
      BY <1>00, <3>3, <3>4 DEF Keeps
    <3> QED BY <1>3, <2>3, <3>5 DEF Choose, ServicesTypeOK
  <2> QED BY <2>1, <2>2, <2>3
<1>4. ASSUME NEW r \in Requests, InsertService(r) PROVE ServicesTypeOK'
  <2> DEFINE v == Head(req[r].adds)
  <2>0. req[r].adds # <<>> /\ v \in Values
    BY <1>0, <1>4, HeadIsFirst DEF InsertService, RequestsAsk, ServiceRequest
  <2>1. CASE v \in Taken(r, TRUE)
    BY <1>4, <2>1, RollbackType DEF InsertService
  <2>2. CASE v \notin Taken(r, TRUE)
    <3> DEFINE s == Tail(req[r].adds)
               i == req[r].ins \cup {v}
               p == [req[r] EXCEPT !.pc = "add", !.adds = s, !.ins = i]
    <3>2. s \in Seq(Values \cup {Tcp}) /\ i \in SUBSET Values
      BY <1>0, <2>0, HeadTailProperties DEF ServiceRequest
    <3>3. req' = [req EXCEPT ![r] = p]
      BY <1>4, <2>2 DEF ServicesTypeOK, InsertService
    <3> HIDE DEF s, i
    <3>4. p \in ServiceRequest
      BY <1>0, <3>2, ServiceRequestSet DEF Where
    <3>5. req' \in [Requests -> ServiceRequest]
      BY <1>00, <3>3, <3>4 DEF Keeps
    <3> QED BY <1>4, <2>2, <3>5 DEF InsertService, ServicesTypeOK
  <2> QED BY <2>1, <2>2
<1>5. ASSUME NEW r \in Requests, Deadlocked(r) PROVE ServicesTypeOK'
  BY <1>5, RollbackType DEF Deadlocked
<1>6. ASSUME NEW r \in Requests, Written(r) PROVE ServicesTypeOK'
  <2>1. PICK s \in IF req[r].kind = "put" THEN NamesOf(r) ELSE {<<>>} :
          req' = [req EXCEPT ![r].pc = "name", ![r].dns = s]
    BY <1>6 DEF Written
  <2> DEFINE p == [req[r] EXCEPT !.pc = "name", !.dns = s]
  <2>2. s \in Seq({"create", "delete"} \X Hosts)
    <3>1. CASE req[r].kind = "put"
      <4>1. IsFiniteSet(req[r].ins) /\ IsFiniteSet(req[r].drops)
        BY <3>1 DEF RequestsPlaced, RequestPlaced
      <4> QED BY <2>1, <3>1, <4>1, CallsOf
    <3>2. CASE req[r].kind # "put"
      BY <2>1, <3>2
    <3> QED BY <3>1, <3>2
  <2>3. req' = [req EXCEPT ![r] = p]
    BY <2>1 DEF ServicesTypeOK
  <2>4. p \in ServiceRequest
    BY <1>0, <2>2, ServiceRequestSet DEF Where
  <2>5. req' \in [Requests -> ServiceRequest]
    BY <1>00, <2>3, <2>4 DEF Keeps
  <2> QED BY <1>6, <2>5 DEF Written, ServicesTypeOK
<1>7. ASSUME NEW r \in Requests, Name(r) PROVE ServicesTypeOK'
  <2> DEFINE s == Tail(req[r].dns)
             p == [req[r] EXCEPT !.dns = s]
  <2>1. req[r].dns \in Seq({"create", "delete"} \X Hosts)
    BY <1>0 DEF ServiceRequest
  <2>2. Head(req[r].dns) \in {"create", "delete"} \X Hosts /\ s \in Seq({"create", "delete"} \X Hosts)
    BY <1>7, <2>1, HeadTailProperties DEF Name
  <2>3. req' = [req EXCEPT ![r] = p]
    BY <1>7 DEF Name, ServicesTypeOK
  <2>4. p \in ServiceRequest
    BY <1>0, <2>2, ServiceRequestSet
  <2>5. req' \in [Requests -> ServiceRequest]
    BY <1>00, <2>3, <2>4 DEF Keeps
  <2>6. record' \subseteq Hosts /\ troubles' \in Nat
    BY <1>7, <2>2 DEF Name, Named, Trouble, ServicesTypeOK
  <2> QED BY <1>7, <2>5, <2>6 DEF Name, ServicesTypeOK
<1>8. ASSUME NEW r \in Requests, Commit(r) PROVE ServicesTypeOK'
  <2>1. CASE req[r].kind = "put" /\ req[r].of \notin apps
    BY <1>8, <2>1, RollbackType DEF Commit
  <2>2. CASE ~(req[r].kind = "put" /\ req[r].of \notin apps)
    <3>1. req[r].of \in Apps
      BY <1>0 DEF ServiceRequest
    <3>2. /\ has' = [v \in Values |-> IF v \in req[r].ins THEN req[r].of
                                      ELSE IF v \in req[r].rem THEN "-" ELSE has[v]]
          /\ apps' = apps \cup {req[r].of}
          /\ Done(r) /\ UNCHANGED <<record, tangled, stray, refused, troubles>>
      BY <1>8, <2>2 DEF Commit
    <3>3. req' \in [Requests -> ServiceRequest]
      BY <3>2, DoneType
    <3> QED BY <3>1, <3>2, <3>3 DEF ServicesTypeOK
  <2> QED BY <2>1, <2>2
<1>9. ASSUME NEW r \in Requests, Unname(r) PROVE ServicesTypeOK'
  <2>1. CASE req[r].drops = {}
    <3> DEFINE p == [req[r] EXCEPT !.pc = "destroy"]
    <3>1. req' = [req EXCEPT ![r] = p]
      BY <1>9, <2>1 DEF Unname, ServicesTypeOK
    <3>2. p \in ServiceRequest
      BY <1>0, ServiceRequestSet DEF Where
    <3>3. req' \in [Requests -> ServiceRequest]
      BY <1>00, <3>1, <3>2 DEF Keeps
    <3> QED BY <1>9, <2>1, <3>3 DEF Unname, ServicesTypeOK
  <2>2. CASE req[r].drops # {}
    <3>1. PICK h \in req[r].drops :
             /\ req' = [req EXCEPT ![r].drops = @ \ {h}]
             /\ \/ record' = Named("delete", h) /\ UNCHANGED troubles
                \/ Trouble /\ UNCHANGED record
      BY <1>9, <2>2 DEF Unname
    <3> DEFINE m == req[r].drops \ {h}
               p == [req[r] EXCEPT !.drops = m]
    <3>2. req' = [req EXCEPT ![r] = p]
      BY <3>1 DEF ServicesTypeOK
    <3>3. m \in SUBSET Hosts
      BY <1>0 DEF ServiceRequest
    <3> HIDE DEF m
    <3>4. p \in ServiceRequest
      BY <1>0, <3>3, ServiceRequestSet
    <3>5. req' \in [Requests -> ServiceRequest]
      BY <1>00, <3>2, <3>4 DEF Keeps
    <3>6. record' \subseteq Hosts /\ troubles' \in Nat
      BY <3>1 DEF Named, Trouble, ServicesTypeOK
    <3> QED BY <1>9, <3>5, <3>6 DEF Unname, ServicesTypeOK
  <2> QED BY <2>1, <2>2
<1>10. ASSUME NEW r \in Requests, Mismatch(r) PROVE ServicesTypeOK'
  <2>1. req' \in [Requests -> ServiceRequest]
    BY <1>10, DoneType DEF Mismatch
  <2> QED BY <1>10, <2>1 DEF Mismatch, Trouble, ServicesTypeOK
<1>11. ASSUME NEW r \in Requests, DestroyContainer(r) PROVE ServicesTypeOK'
  <2>1. req' \in [Requests -> ServiceRequest]
    BY <1>11, DoneType DEF DestroyContainer
  <2> QED BY <1>11, <2>1 DEF DestroyContainer, ServicesTypeOK
<1>12. CASE UNCHANGED serviceVars
  BY <1>12 DEF serviceVars, ServicesTypeOK
<1> QED
  BY <1>1, <1>2, <1>3, <1>4, <1>5, <1>6, <1>7, <1>8, <1>9, <1>10, <1>11, <1>12 DEF ServicesNext

(* The invariant *)

LEMMA ServicesInvInit == ServicesInit => ServicesInv
<1> SUFFICES ASSUME ServicesInit PROVE ServicesInv
  OBVIOUS
<1>1. ServicesTypeOK
  BY ServicesTypeInit
<1>2. \A r \in Requests : req[r] = NoReq /\ ~Busy(r) /\ Pending(r) = {}
  BY DEF ServicesInit, Busy, Pending, NoReq
<1>3. \A r \in Requests : /\ req[r].pc = "new" /\ req[r].ins = {} /\ req[r].rem = {} /\ req[r].kind = "-"
                         /\ req[r].drops = {}
  BY <1>2 DEF NoReq
<1>4. RequestsPlaced
  <2>1. /\ NoReq.pc = "new" /\ NoReq.kind = "-" /\ NoReq.ins = {} /\ NoReq.rem = {} /\ NoReq.dels = {}
        /\ NoReq.drops = {}
        /\ IsFiniteSet({})
    BY FS_EmptySet DEF NoReq
  <2>2. RequestPlaced(NoReq)
    BY <2>1 DEF RequestPlaced
  <2> QED BY <1>2, <2>2 DEF RequestsPlaced
<1>5. ValuesLocked /\ RequestsAlone /\ RequestsAsk /\ AloneUndisturbed /\ CallsAreForRows /\ RowsOwned
      /\ DropsAreForRows
  BY <1>2, <1>3 DEF ValuesLocked, RequestsAlone, RequestsAsk, AloneUndisturbed, DropsAreForRows, CallsAreForRows, RowsOwned, OwnsRows
<1>6. RecordsPlanned
  <2>1. \A r \in Requests, h \in Hosts : ~WillTouch(r, h)
    BY <1>2 DEF WillTouch
  <2>2. \A h \in Hosts : h \in record <=> has[h] # "-"
    BY DEF ServicesInit, Values
  <2> QED BY <2>1, <2>2 DEF RecordsPlanned, RecordPlanned
<1>7. RefusedForCause
  BY DEF ServicesInit, RefusedForCause
<1> QED BY <1>1, <1>4, <1>5, <1>6, <1>7 DEF ServicesInv

\* Nothing that a request does touches another.
LEMMA OthersGo ==
  ASSUME ServicesTypeOK, NEW r \in Requests, Goes(r)
  PROVE  /\ \A q \in Requests \ {r} : req'[q] = req[q] /\ (Busy(q)' <=> Busy(q)) /\ Pending(q)' = Pending(q)
         /\ Busy(r) /\ tangled' = tangled
<1>1. \A q \in Requests \ {r} : req'[q] = req[q]
  BY DEF Goes, ServicesTypeOK, Remove, Choose, InsertService, Deadlocked, Written, Name, Commit, Unname,
         Mismatch, DestroyContainer, Rollback, Done
<1>2. Busy(r)
  BY DEF Goes, Busy, Remove, Choose, InsertService, Deadlocked, Written, Name, Commit, Unname,
         Mismatch, DestroyContainer
<1>3. tangled' = tangled
  BY DEF Goes, Remove, Choose, InsertService, Deadlocked, Written, Name, Commit, Unname,
         Mismatch, DestroyContainer, Rollback
<1> QED BY <1>1, <1>2, <1>3 DEF Busy, Pending

\* What a step leaves of a request, and what it makes of the rest.
Same(z, q) ==
  z.kind = q.kind /\ z.of = q.of /\ z.asks = q.asks /\ z.dels = q.dels /\ z.met = q.met
IsNow(z, pc, adds, ins, rem, names, dns) ==
  z.pc = pc /\ z.adds = adds /\ z.ins = ins /\ z.rem = rem /\ z.drops = names /\ z.dns = dns

Updates(q) ==
  /\ \A p, x, y : LET z == [q EXCEPT !.pc = p, !.rem = x, !.drops = y] IN
                    Same(z, q) /\ IsNow(z, p, q.adds, q.ins, x, y, q.dns)
  /\ \A p : LET z == [q EXCEPT !.pc = p] IN Same(z, q) /\ IsNow(z, p, q.adds, q.ins, q.rem, q.drops, q.dns)
  /\ \A p, x : LET z == [q EXCEPT !.pc = p, !.adds = x] IN Same(z, q) /\ IsNow(z, p, x, q.ins, q.rem, q.drops, q.dns)
  /\ \A p, x, y : LET z == [q EXCEPT !.pc = p, !.adds = x, !.ins = y] IN Same(z, q) /\ IsNow(z, p, x, y, q.rem, q.drops, q.dns)
  /\ \A p, x : LET z == [q EXCEPT !.pc = p, !.dns = x] IN Same(z, q) /\ IsNow(z, p, q.adds, q.ins, q.rem, q.drops, x)
  /\ \A x : LET z == [q EXCEPT !.dns = x] IN Same(z, q) /\ IsNow(z, q.pc, q.adds, q.ins, q.rem, q.drops, x)
  /\ \A x : LET z == [q EXCEPT !.drops = x] IN Same(z, q) /\ IsNow(z, q.pc, q.adds, q.ins, q.rem, x, q.dns)


LEMMA UpdatesOf ==
  ASSUME NEW K, NEW C, NEW P, NEW S, NEW A, NEW D, NEW I, NEW R, NEW M, NEW N, NEW q,
         q \in [kind : K, of : C, pc : P, asks : S, adds : A, dels : D, ins : I, rem : R, drops : M,
               dns : N, met : BOOLEAN]
  PROVE  Updates(q)
BY DEF Same, IsNow, Updates

LEMMA RequestUpdates == ASSUME NEW q \in ServiceRequest PROVE Updates(q)
<1> DEFINE S == Seq(Hosts \cup {Tcp})
           A == Seq(Values \cup {Tcp})
           N == Seq({"create", "delete"} \X Hosts)
           V == SUBSET Values
           D == SUBSET (Apps \X Values)
           M == SUBSET Hosts
           K == {"-", "post", "put", "delete"}
           P == {"new", "remove", "add", "insert", "name", "unname", "destroy", "over"}
<1>1. q \in [kind : K, of : Apps, pc : P, asks : S, adds : A, dels : D, ins : V, rem : V,
                        drops : M, dns : N, met : BOOLEAN]
  BY DEF ServiceRequest
<1> HIDE DEF S, A, N, V, D, M, K, P
<1> QED BY <1>1, UpdatesOf

\* What a step makes of the request that takes it.
Ended == [NoReq EXCEPT !.pc = "over"]
LEMMA Effects ==
  ASSUME ServicesTypeOK, NEW r \in Requests, NEW q, q = req[r], NEW z, z = req'[r]
  PROVE  /\ Done(r) => z = Ended
         /\ \A just : Rollback(r, just) => z = Ended
         /\ Remove(r) => /\ Same(z, q)
                         /\ IsNow(z, "add", q.adds, q.ins, {v \in Found(r) : has[v] = q.of}, Found(r) \cap Hosts, q.dns)
         /\ Choose(r) =>
              \/ /\ Head(q.adds) # Tcp
                 /\ Same(z, q) /\ IsNow(z, "insert", q.adds, q.ins, q.rem, q.drops, q.dns)
              \/ /\ Head(q.adds) = Tcp /\ NextPort(r) = {}
                 /\ Rollback(r, Ports \subseteq Taken(r, TRUE))
              \/ /\ Head(q.adds) = Tcp
                 /\ \E p \in NextPort(r) :
                      Same(z, q) /\ IsNow(z, "insert", <<p>> \o Tail(q.adds), q.ins, q.rem, q.drops, q.dns)
         /\ InsertService(r) =>
              \/ Head(q.adds) \in Taken(r, TRUE) /\ Rollback(r, Head(q.adds) \in Hosts)
              \/ /\ Head(q.adds) \notin Taken(r, TRUE)
                 /\ Same(z, q)
                 /\ IsNow(z, "add", Tail(q.adds), q.ins \cup {Head(q.adds)}, q.rem, q.drops, q.dns)
         /\ Deadlocked(r) => Rollback(r, FALSE)
         /\ Written(r) => \E s : /\ IF q.kind = "put" THEN s \in NamesOf(r) ELSE s = <<>>
                                /\ Same(z, q) /\ IsNow(z, "name", q.adds, q.ins, q.rem, q.drops, s)
         /\ Name(r) => Same(z, q) /\ IsNow(z, q.pc, q.adds, q.ins, q.rem, q.drops, Tail(q.dns))
         /\ Commit(r) => z = Ended
         /\ Unname(r) => \/ /\ q.drops = {} /\ UNCHANGED <<record, troubles>>
                            /\ Same(z, q) /\ IsNow(z, "destroy", q.adds, q.ins, q.rem, q.drops, q.dns)
                         \/ \E h \in q.drops :
                              /\ Same(z, q) /\ IsNow(z, q.pc, q.adds, q.ins, q.rem, q.drops \ {h}, q.dns)
                              /\ \/ record' = Named("delete", h) /\ UNCHANGED troubles
                                 \/ Trouble /\ UNCHANGED record
         /\ Mismatch(r) => z = Ended
         /\ DestroyContainer(r) => z = Ended
<1>0. q \in ServiceRequest /\ Updates(q)
  BY RequestUpdates DEF ServicesTypeOK
<1>1. Done(r) => z = Ended
  BY DEF Done, ServicesTypeOK, Ended
<1>2. \A just : Rollback(r, just) => z = Ended
  BY <1>1 DEF Rollback
<1>3. ASSUME Remove(r)
      PROVE  Same(z, q) /\ IsNow(z, "add", q.adds, q.ins, {v \in Found(r) : has[v] = q.of}, Found(r) \cap Hosts, q.dns)
  <2> DEFINE x == {v \in Found(r) : has[v] = q.of}
             y == Found(r) \cap Hosts
  <2>1. z = [q EXCEPT !.pc = "add", !.rem = x, !.drops = y]
    BY <1>3 DEF Remove, ServicesTypeOK
  <2> HIDE DEF x, y
  <2>2. Same(z, q) /\ IsNow(z, "add", q.adds, q.ins, x, y, q.dns)
    BY <1>0, <2>1 DEF Updates, Same, IsNow
  <2> QED BY <2>2 DEF x, y
<1>4. ASSUME Choose(r)
      PROVE  \/ /\ Head(q.adds) # Tcp
                /\ Same(z, q) /\ IsNow(z, "insert", q.adds, q.ins, q.rem, q.drops, q.dns)
             \/ /\ Head(q.adds) = Tcp /\ NextPort(r) = {}
                /\ Rollback(r, Ports \subseteq Taken(r, TRUE))
             \/ /\ Head(q.adds) = Tcp
                /\ \E p \in NextPort(r) :
                     Same(z, q) /\ IsNow(z, "insert", <<p>> \o Tail(q.adds), q.ins, q.rem, q.drops, q.dns)
  <2>1. CASE Head(q.adds) # Tcp
    <3>1. z = [q EXCEPT !.pc = "insert"]
      BY <1>4, <2>1 DEF Choose, ServicesTypeOK
    <3>2. Same(z, q) /\ IsNow(z, "insert", q.adds, q.ins, q.rem, q.drops, q.dns)
      BY <1>0, <3>1 DEF Updates, Same, IsNow
    <3> QED BY <2>1, <3>2
  <2>2. CASE Head(q.adds) = Tcp /\ NextPort(r) = {}
    BY <1>4, <2>2 DEF Choose
  <2>3. CASE Head(q.adds) = Tcp /\ NextPort(r) # {}
    <3>1. PICK p \in NextPort(r) : z = [q EXCEPT !.pc = "insert", !.adds = <<p>> \o Tail(q.adds)]
      BY <1>4, <2>3 DEF Choose, ServicesTypeOK
    <3> DEFINE x == <<p>> \o Tail(q.adds)
    <3>2. z = [q EXCEPT !.pc = "insert", !.adds = x]
      BY <3>1
    <3> HIDE DEF x
    <3>3. Same(z, q) /\ IsNow(z, "insert", x, q.ins, q.rem, q.drops, q.dns)
      BY <1>0, <3>2 DEF Updates, Same, IsNow
    <3> QED BY <2>3, <3>3 DEF x
  <2> QED BY <2>1, <2>2, <2>3
<1>5. ASSUME InsertService(r)
      PROVE  \/ Head(q.adds) \in Taken(r, TRUE) /\ Rollback(r, Head(q.adds) \in Hosts)
             \/ /\ Head(q.adds) \notin Taken(r, TRUE)
                /\ Same(z, q)
                /\ IsNow(z, "add", Tail(q.adds), q.ins \cup {Head(q.adds)}, q.rem, q.drops, q.dns)
  <2>1. CASE Head(q.adds) \in Taken(r, TRUE)
    BY <1>5, <2>1 DEF InsertService
  <2>2. CASE Head(q.adds) \notin Taken(r, TRUE)
    <3> DEFINE x == Tail(q.adds)
               y == q.ins \cup {Head(q.adds)}
    <3>1. z = [q EXCEPT !.pc = "add", !.adds = x, !.ins = y]
      BY <1>5, <2>2 DEF InsertService, ServicesTypeOK
    <3> HIDE DEF x, y
    <3>2. Same(z, q) /\ IsNow(z, "add", x, y, q.rem, q.drops, q.dns)
      BY <1>0, <3>1 DEF Updates, Same, IsNow
    <3> QED BY <2>2, <3>2 DEF x, y
  <2> QED BY <2>1, <2>2
<1>6. Deadlocked(r) => Rollback(r, FALSE)
  BY DEF Deadlocked
<1>7. ASSUME Written(r)
      PROVE  \E s : /\ IF q.kind = "put" THEN s \in NamesOf(r) ELSE s = <<>>
                    /\ Same(z, q) /\ IsNow(z, "name", q.adds, q.ins, q.rem, q.drops, s)
  <2>1. PICK s \in IF q.kind = "put" THEN NamesOf(r) ELSE {<<>>} : z = [q EXCEPT !.pc = "name", !.dns = s]
    BY <1>7 DEF Written, ServicesTypeOK
  <2>2. Same(z, q) /\ IsNow(z, "name", q.adds, q.ins, q.rem, q.drops, s)
    BY <1>0, <2>1 DEF Updates, Same, IsNow
  <2> QED BY <2>2
<1>8. ASSUME Name(r) PROVE Same(z, q) /\ IsNow(z, q.pc, q.adds, q.ins, q.rem, q.drops, Tail(q.dns))
  <2> DEFINE x == Tail(q.dns)
  <2>1. z = [q EXCEPT !.dns = x]
    BY <1>8 DEF Name, ServicesTypeOK
  <2> HIDE DEF x
  <2>2. Same(z, q) /\ IsNow(z, q.pc, q.adds, q.ins, q.rem, q.drops, x)
    BY <1>0, <2>1 DEF Updates, Same, IsNow
  <2> QED BY <2>2 DEF x
<1>9. Commit(r) => z = Ended
  BY <1>1, <1>2 DEF Commit
<1>10. ASSUME Unname(r)
       PROVE  \/ /\ q.drops = {} /\ UNCHANGED <<record, troubles>>
                 /\ Same(z, q) /\ IsNow(z, "destroy", q.adds, q.ins, q.rem, q.drops, q.dns)
              \/ \E h \in q.drops :
                   /\ Same(z, q) /\ IsNow(z, q.pc, q.adds, q.ins, q.rem, q.drops \ {h}, q.dns)
                   /\ \/ record' = Named("delete", h) /\ UNCHANGED troubles
                      \/ Trouble /\ UNCHANGED record
  <2>1. CASE q.drops = {}
    <3>1. z = [q EXCEPT !.pc = "destroy"] /\ UNCHANGED <<record, troubles>>
      BY <1>10, <2>1 DEF Unname, ServicesTypeOK
    <3>2. Same(z, q) /\ IsNow(z, "destroy", q.adds, q.ins, q.rem, q.drops, q.dns)
      BY <1>0, <3>1 DEF Updates, Same, IsNow
    <3> QED BY <2>1, <3>1, <3>2
  <2>2. CASE q.drops # {}
    <3>1. PICK h \in q.drops : /\ z = [q EXCEPT !.drops = q.drops \ {h}]
                              /\ \/ record' = Named("delete", h) /\ UNCHANGED troubles
                                 \/ Trouble /\ UNCHANGED record
      BY <1>10, <2>2 DEF Unname, ServicesTypeOK
    <3> DEFINE x == q.drops \ {h}
    <3>2. z = [q EXCEPT !.drops = x]
      BY <3>1
    <3> HIDE DEF x
    <3>3. Same(z, q) /\ IsNow(z, q.pc, q.adds, q.ins, q.rem, x, q.dns)
      BY <1>0, <3>2 DEF Updates, Same, IsNow
    <3> QED BY <3>1, <3>3 DEF x
  <2> QED BY <2>1, <2>2
<1>11. (Mismatch(r) => z = Ended) /\ (DestroyContainer(r) => z = Ended)
  BY <1>1 DEF Mismatch, DestroyContainer
<1> QED BY <1>1, <1>2, <1>3, <1>4, <1>5, <1>6, <1>7, <1>8, <1>9, <1>10, <1>11

LEMMA IsNowMeans ==
  \A z, pc, adds, ins, rem, names, dns :
    IsNow(z, pc, adds, ins, rem, names, dns) =>
      z.pc = pc /\ z.adds = adds /\ z.ins = ins /\ z.rem = rem /\ z.drops = names /\ z.dns = dns
BY DEF IsNow

LEMMA FieldsAfter ==
  ASSUME ServicesTypeOK, NEW r \in Requests, NEW q, q = req[r], NEW z, z = req'[r]
  PROVE  /\ Remove(r) => Same(z, q) /\ z.pc = "add" /\ z.ins = q.ins
         /\ Choose(r) => \/ z = Ended
                         \/ /\ Same(z, q) /\ z.pc = "insert" /\ UNCHANGED <<has, apps, record, troubles>>
                            /\ z.ins = q.ins /\ z.rem = q.rem /\ z.drops = q.drops
         /\ InsertService(r) => \/ z = Ended
                                \/ /\ Same(z, q) /\ z.pc = "add" /\ z.ins = q.ins \cup {Head(q.adds)}
                                   /\ z.rem = q.rem /\ z.drops = q.drops
         /\ Written(r) => Same(z, q) /\ z.pc = "name" /\ z.ins = q.ins /\ z.rem = q.rem /\ z.drops = q.drops
         /\ Name(r) => Same(z, q) /\ z.pc = q.pc /\ z.ins = q.ins /\ z.rem = q.rem /\ z.drops = q.drops
         /\ Unname(r) => /\ Same(z, q) /\ z.pc \in {"destroy", q.pc}
                         /\ z.ins = q.ins /\ z.rem = q.rem /\ z.drops \subseteq q.drops
<1>1. ASSUME Remove(r) PROVE Same(z, q) /\ z.pc = "add" /\ z.ins = q.ins
  <2>1. PICK g, y : Same(z, q) /\ IsNow(z, "add", q.adds, q.ins, g, y, q.dns)
    BY <1>1, Effects
  <2> QED BY <2>1, IsNowMeans
<1>2. ASSUME Choose(r), z # Ended
      PROVE  /\ Same(z, q) /\ z.pc = "insert" /\ UNCHANGED <<has, apps, record, troubles>>
             /\ z.ins = q.ins /\ z.rem = q.rem /\ z.drops = q.drops
  <2>1. \A just : ~Rollback(r, just)
    BY <1>2, Effects
  <2>2. PICK s : Same(z, q) /\ IsNow(z, "insert", s, q.ins, q.rem, q.drops, q.dns)
    BY <1>2, <2>1, Effects
  <2>3. UNCHANGED <<has, apps, record, troubles>>
    BY <1>2 DEF Choose, Rollback
  <2> QED BY <2>2, <2>3, IsNowMeans
<1>3. ASSUME InsertService(r), z # Ended
      PROVE  /\ Same(z, q) /\ z.pc = "add" /\ z.ins = q.ins \cup {Head(q.adds)}
             /\ z.rem = q.rem /\ z.drops = q.drops
  <2>1. \A just : ~Rollback(r, just)
    BY <1>3, Effects
  <2>2. Same(z, q) /\ IsNow(z, "add", Tail(q.adds), q.ins \cup {Head(q.adds)}, q.rem, q.drops, q.dns)
    BY <1>3, <2>1, Effects
  <2> QED BY <2>2, IsNowMeans
<1>4. ASSUME Written(r) PROVE Same(z, q) /\ z.pc = "name" /\ z.ins = q.ins /\ z.rem = q.rem /\ z.drops = q.drops
  <2>1. PICK s : Same(z, q) /\ IsNow(z, "name", q.adds, q.ins, q.rem, q.drops, s)
    BY <1>4, Effects
  <2> QED BY <2>1, IsNowMeans
<1>5. ASSUME Name(r) PROVE Same(z, q) /\ z.pc = q.pc /\ z.ins = q.ins /\ z.rem = q.rem /\ z.drops = q.drops
  <2>1. PICK s : Same(z, q) /\ IsNow(z, q.pc, q.adds, q.ins, q.rem, q.drops, s)
    BY <1>5, Effects
  <2> QED BY <2>1, IsNowMeans
<1>6. ASSUME Unname(r)
      PROVE  /\ Same(z, q) /\ z.pc \in {"destroy", q.pc}
             /\ z.ins = q.ins /\ z.rem = q.rem /\ z.drops \subseteq q.drops
  <2>1. CASE Same(z, q) /\ IsNow(z, "destroy", q.adds, q.ins, q.rem, q.drops, q.dns)
    BY <2>1, IsNowMeans
  <2>2. ASSUME NEW h \in q.drops, Same(z, q) /\ IsNow(z, q.pc, q.adds, q.ins, q.rem, q.drops \ {h}, q.dns)
        PROVE  /\ Same(z, q) /\ z.pc \in {"destroy", q.pc}
               /\ z.ins = q.ins /\ z.rem = q.rem /\ z.drops \subseteq q.drops
    BY <2>2, IsNowMeans
  <2> QED BY <1>6, <2>1, <2>2, Effects
<1> QED BY <1>1, <1>2, <1>3, <1>4, <1>5, <1>6

\* What is the same of a request that goes on.
LEMMA GoesOn ==
  ASSUME ServicesTypeOK, NEW r \in Requests, Goes(r), NEW q, q = req[r], NEW z, z = req'[r]
  PROVE  \/ z = Ended
         \/ /\ Same(z, q)
            /\ (z.rem = q.rem /\ z.ins = q.ins) \/ Remove(r) \/ InsertService(r)
<1>1. CASE Remove(r) \/ InsertService(r)
  BY <1>1, Effects
<1>2. \A pc, adds, ins, names, dns : IsNow(z, pc, adds, q.ins, q.rem, names, dns) => z.rem = q.rem /\ z.ins = q.ins
  BY DEF IsNow
<1>3. CASE Choose(r)
  BY <1>2, <1>3, Effects
<1>4. CASE Unname(r)
  BY <1>2, <1>4, Effects
<1>5. CASE Written(r)
  BY <1>2, <1>5, Effects
<1>6. CASE Name(r)
  BY <1>2, <1>6, Effects
<1> QED BY <1>1, <1>3, <1>4, <1>5, <1>6, Effects DEF Goes

LEMMA EndedIs ==
  ASSUME NEW r \in Requests, req'[r] = Ended
  PROVE  /\ req'[r].pc = "over" /\ req'[r].ins = {} /\ req'[r].rem = {} /\ req'[r].kind = "-"
         /\ req'[r].drops = {} /\ ~Busy(r)' /\ Pending(r)' = {}
BY DEF Ended, NoReq, Busy, Pending

LEMMA BegunIs ==
  ASSUME ServicesTypeOK, NEW r \in Requests, NEW a \in Asks, req'[r] = HasBegun(r, a)
  PROVE  /\ req'[r].pc = (IF a.kind = "delete" THEN "unname" ELSE "remove")
         /\ req'[r].kind = a.kind /\ req'[r].of = a.of /\ req'[r].asks = a.adds /\ req'[r].adds = a.adds
         /\ req'[r].dels = a.dels /\ req'[r].ins = {} /\ req'[r].rem = {} /\ req'[r].dns = <<>>
         /\ a.kind = "delete" => req'[r].drops = {v \in Hosts : has[v] = a.of}
         /\ a.kind # "delete" => req'[r].drops = {}
         /\ Busy(r)' /\ Pending(r)' = {}
         /\ req'[r].met <=> \E p \in Requests : Busy(p)
<1> DEFINE h == IF a.kind = "delete" THEN {v \in Hosts : has[v] = a.of} ELSE {}
<1>1. (a.kind = "delete" => h = {v \in Hosts : has[v] = a.of}) /\ (a.kind # "delete" => h = {})
  OBVIOUS
<1>2. HasBegun(r, a) = [NoReq EXCEPT !.kind = a.kind, !.of = a.of, !.asks = a.adds, !.adds = a.adds,
                        !.dels = a.dels, !.drops = h,
                        !.pc = IF a.kind = "delete" THEN "unname" ELSE "remove",
                        !.met = \E p \in Requests : Busy(p)]
  BY DEF HasBegun
<1> HIDE DEF h
<1> QED BY <1>1, <1>2 DEF NoReq, Busy, Pending

\* When a request begins the others notice it and nothing else.
LEMMA OthersNotice ==
  ASSUME ServicesTypeOK, NEW r \in Requests, NEW q \in Requests \ {r},
         req'[q] = IF Busy(q) THEN [req[q] EXCEPT !.met = TRUE] ELSE req[q]
  PROVE  /\ req'[q].pc = req[q].pc /\ req'[q].kind = req[q].kind /\ req'[q].of = req[q].of
         /\ req'[q].asks = req[q].asks /\ req'[q].adds = req[q].adds /\ req'[q].dels = req[q].dels
         /\ req'[q].ins = req[q].ins /\ req'[q].rem = req[q].rem /\ req'[q].drops = req[q].drops
         /\ req'[q].dns = req[q].dns /\ (Busy(q)' <=> Busy(q)) /\ Pending(q)' = Pending(q)
         /\ Busy(q) => req'[q].met
<1>1. req[q] \in ServiceRequest
  BY DEF ServicesTypeOK
<1> QED BY <1>1 DEF Busy, Pending, ServiceRequest

\* The value a request is about to insert: what it has asked for, or a port for "the next".
LEMMA InsertedIs ==
  ASSUME ServicesTypeOK, RequestsAsk, NEW r \in Requests, req[r].pc = "insert"
  PROVE  /\ req[r].adds # <<>> /\ Head(req[r].adds) = req[r].adds[1] /\ Head(req[r].adds) \in Values
         /\ Len(req[r].asks) - Len(req[r].adds) + 1 \in 1..Len(req[r].asks)
         /\ \/ Head(req[r].adds) \in Hosts /\ Head(req[r].adds) = Asked(r, 1)
            \/ Head(req[r].adds) \in Ports /\ Asked(r, 1) = Tcp
<1>1. /\ req[r].adds # <<>> /\ req[r].adds[1] \in Values /\ StillAdds(r)
      /\ req[r].adds \in Seq(Values \cup {Tcp}) /\ req[r].asks \in Seq(Hosts \cup {Tcp})
  BY DEF RequestsAsk, ServicesTypeOK, ServiceRequest
<1> DEFINE a == Len(req[r].asks)
           n == Len(req[r].adds)
<1>2. Head(req[r].adds) = req[r].adds[1] /\ n \in Nat \ {0} /\ 1 \in 1..n
  BY <1>1, HeadIsFirst
<1>3. a \in Nat /\ n <= a
  BY <1>1, LenProperties DEF StillAdds
<1>4. a - n + 1 \in 1..a
  <2> HIDE DEF a, n
  <2> QED BY <1>2, <1>3
<1>5. Asked(r, 1) \in Hosts \cup {Tcp}
  <2> DEFINE i == a - n + 1
             s == req[r].asks
  <2>1. i \in 1..Len(s) /\ Asked(r, 1) = s[i] /\ s \in Seq(Hosts \cup {Tcp})
    BY <1>1, <1>4 DEF Asked
  <2> HIDE DEF i, s
  <2> QED BY <2>1, ElementOfSeq
<1>6. req[r].adds[1] = Asked(r, 1) \/ (req[r].adds[1] \in Ports /\ Asked(r, 1) = Tcp)
  BY <1>1, <1>2 DEF StillAdds
<1> QED BY <1>1, <1>2, <1>4, <1>5, <1>6 DEF Values

\* What is as it was in a request that another step leaves alone, or that only notices another.
Unmoved(z, q) ==
  /\ z.pc = q.pc /\ z.kind = q.kind /\ z.of = q.of /\ z.asks = q.asks /\ z.adds = q.adds /\ z.dels = q.dels
  /\ z.ins = q.ins /\ z.rem = q.rem /\ z.drops = q.drops /\ z.dns = q.dns

LEMMA BeginsFor ==
  ASSUME ServicesTypeOK, NEW r \in Requests, Begins(r)
  PROVE  \E a \in Asks :
           /\ IF a.kind = "post" THEN a.of \notin apps ELSE a.of \in apps
           /\ req'[r] = HasBegun(r, a)
           /\ tangled' = (tangled \/ \E q \in Requests : Busy(q) /\ req[q].of = a.of)
           /\ \A q \in Requests \ {r} :
                /\ Unmoved(req'[q], req[q]) /\ (Busy(q)' <=> Busy(q)) /\ Pending(q)' = Pending(q)
                /\ Busy(q) => req'[q].met
           /\ ~Busy(r) /\ UNCHANGED <<has, apps, record, stray, refused, troubles>>
<1>1. PICK a \in Asks :
           /\ IF a.kind = "post" THEN a.of \notin apps ELSE a.of \in apps
           /\ req'[r] = HasBegun(r, a)
           /\ \A q \in Requests \ {r} :
                req'[q] = IF Busy(q) THEN [req[q] EXCEPT !.met = TRUE] ELSE req[q]
           /\ tangled' = (tangled \/ \E q \in Requests : Busy(q) /\ req[q].of = a.of)
  BY BeginsReq
<1>2. \A q \in Requests \ {r} :
        /\ Unmoved(req'[q], req[q]) /\ (Busy(q)' <=> Busy(q)) /\ Pending(q)' = Pending(q)
        /\ Busy(q) => req'[q].met
  <2> TAKE q \in Requests \ {r}
  <2>1. req'[q] = IF Busy(q) THEN [req[q] EXCEPT !.met = TRUE] ELSE req[q]
    BY <1>1
  <2>2. /\ req'[q].pc = req[q].pc /\ req'[q].kind = req[q].kind /\ req'[q].of = req[q].of
        /\ req'[q].asks = req[q].asks /\ req'[q].adds = req[q].adds /\ req'[q].dels = req[q].dels
        /\ req'[q].ins = req[q].ins /\ req'[q].rem = req[q].rem /\ req'[q].drops = req[q].drops
        /\ req'[q].dns = req[q].dns /\ (Busy(q)' <=> Busy(q)) /\ Pending(q)' = Pending(q)
        /\ Busy(q) => req'[q].met
    BY <2>1, OthersNotice
  <2> QED BY <2>2 DEF Unmoved
<1>3. ~Busy(r) /\ UNCHANGED <<has, apps, record, stray, refused, troubles>>
  BY DEF Begins, Busy
<1> QED BY <1>1, <1>2, <1>3

LEMMA PlacedStep ==
  ASSUME ServicesTypeOK, RequestsPlaced, RequestsAsk, [ServicesNext]_serviceVars
  PROVE  RequestsPlaced'
<1>0. \A r \in Requests : RequestPlaced(req[r])
  BY DEF RequestsPlaced
<1>1. ASSUME NEW r \in Requests, Begins(r) PROVE RequestsPlaced'
  <2>1. PICK a \in Asks : req'[r] = HasBegun(r, a) /\ \A q \in Requests \ {r} : Unmoved(req'[q], req[q])
    BY <1>1, BeginsFor
  <2>2. RequestPlaced(req'[r])
    <3>1. IsFiniteSet(a.dels) /\ (a.kind = "post" => a.adds \in Seq({Tcp}) /\ a.dels = {})
          /\ a.kind \in {"post", "put", "delete"}
      OBVIOUS
    <3>2. /\ req'[r].pc = (IF a.kind = "delete" THEN "unname" ELSE "remove")
          /\ req'[r].kind = a.kind /\ req'[r].asks = a.adds
          /\ req'[r].dels = a.dels /\ req'[r].ins = {} /\ req'[r].rem = {}
          /\ a.kind # "delete" => req'[r].drops = {}
      BY <2>1, BegunIs
    <3> QED BY <3>1, <3>2, FS_EmptySet DEF RequestPlaced
  <2>3. ASSUME NEW q \in Requests \ {r} PROVE RequestPlaced(req'[q])
    <3>1. RequestPlaced(req[q]) /\ Unmoved(req'[q], req[q])
      BY <1>0, <2>1
    <3> QED BY <3>1 DEF RequestPlaced, Unmoved
  <2> QED BY <2>2, <2>3 DEF RequestsPlaced
<1>2. ASSUME NEW r \in Requests, Goes(r), RequestPlaced(req'[r]) PROVE RequestsPlaced'
  BY <1>0, <1>2, OthersGo DEF RequestsPlaced
<1>3. ASSUME NEW r \in Requests, req'[r] = Ended PROVE RequestPlaced(req'[r])
  <2>1. /\ req'[r].pc = "over" /\ req'[r].kind = "-" /\ req'[r].ins = {} /\ req'[r].rem = {} /\ req'[r].dels = {}
        /\ req'[r].drops = {} /\ IsFiniteSet({})
    BY <1>3, FS_EmptySet DEF Ended, NoReq
  <2> QED BY <2>1 DEF RequestPlaced
<1>4. ASSUME NEW r \in Requests, Remove(r) PROVE RequestPlaced(req'[r])
  <2> DEFINE gone == {v \in Found(r) : has[v] = req[r].of}
             drops == Found(r) \cap Hosts
  <2>1. /\ Same(req'[r], req[r])
        /\ IsNow(req'[r], "add", req[r].adds, req[r].ins, gone, drops, req[r].dns)
    BY <1>4, Effects
  <2>2. RequestPlaced(req[r]) /\ req[r].pc = "remove"
    BY <1>0, <1>4 DEF Remove
  <2>3. IsFiniteSet(Found(r)) /\ (req[r].dels = {} => Found(r) = {})
    <3> DEFINE f == [v \in Found(r) |-> <<has[v], v>>]
    <3>1. f \in Injection(Found(r), req[r].dels)
      BY DEF Injection, IsInjective, Found
    <3>2. IsFiniteSet(req[r].dels)
      BY <2>2 DEF RequestPlaced
    <3> QED BY <3>1, <3>2, FS_Injection DEF Found
  <2>4. IsFiniteSet(gone) /\ IsFiniteSet(drops)
    BY <2>3, FS_Subset
  <2>5. \A v \in gone : <<req[r].of, v>> \in req[r].dels
    BY DEF Found
  <2>6. req[r].dels = {} => gone = {} /\ drops = {}
    BY <2>3
  <2> HIDE DEF gone, drops
  <2> QED BY <2>1, <2>2, <2>4, <2>5, <2>6 DEF RequestPlaced, Same, IsNow
<1>5. ASSUME NEW r \in Requests, Choose(r) PROVE RequestPlaced(req'[r])
  <2>0. RequestPlaced(req[r]) /\ req[r].pc = "add"
    BY <1>0, <1>5 DEF Choose
  <2>1. ASSUME NEW s, Same(req'[r], req[r]),
               IsNow(req'[r], "insert", s, req[r].ins, req[r].rem, req[r].drops, req[r].dns)
        PROVE  RequestPlaced(req'[r])
    BY <2>0, <2>1 DEF RequestPlaced, Same, IsNow
  <2> QED BY <1>3, <1>5, <2>1, Effects
<1>6. ASSUME NEW r \in Requests, InsertService(r) PROVE RequestPlaced(req'[r])
  <2> DEFINE v == Head(req[r].adds)
             i == req[r].ins \cup {v}
  <2>0. RequestPlaced(req[r]) /\ req[r].pc = "insert"
    BY <1>0, <1>6 DEF InsertService
  <2>1. CASE /\ Same(req'[r], req[r])
             /\ IsNow(req'[r], "add", Tail(req[r].adds), i, req[r].rem, req[r].drops, req[r].dns)
    <3>1. IsFiniteSet(i)
      BY <2>0, FS_AddElement DEF RequestPlaced
    <3>2. ASSUME req[r].kind = "post" PROVE v \notin Hosts
      <4> DEFINE k == Len(req[r].asks) - Len(req[r].adds) + 1
                 s == req[r].asks
      <4>1. s \in Seq({Tcp}) /\ k \in 1..Len(s) /\ Asked(r, 1) = s[k]
        BY <2>0, <3>2, InsertedIs DEF RequestPlaced, Asked
      <4> HIDE DEF k, s
      <4>2. Asked(r, 1) = Tcp
        BY <4>1, ElementOfSeq
      <4> QED BY <2>0, <4>2, InsertedIs
    <3>3. req[r].kind = "post" => i \cap Hosts = {}
      BY <2>0, <3>2 DEF RequestPlaced
    <3>4. req[r].kind # "delete"
      BY <2>0 DEF RequestPlaced
    <3> HIDE DEF i
    <3> QED BY <2>0, <2>1, <3>1, <3>3, <3>4 DEF RequestPlaced, Same, IsNow
  <2> QED BY <1>3, <1>6, <2>1, Effects
<1>7. ASSUME NEW r \in Requests, Written(r) PROVE RequestPlaced(req'[r])
  <2>1. PICK s : Same(req'[r], req[r]) /\ IsNow(req'[r], "name", req[r].adds, req[r].ins, req[r].rem, req[r].drops, s)
    BY <1>7, Effects
  <2>2. RequestPlaced(req[r]) /\ req[r].pc = "add"
    BY <1>0, <1>7 DEF Written
  <2> QED BY <2>1, <2>2 DEF RequestPlaced, Same, IsNow
<1>8. ASSUME NEW r \in Requests, Name(r) PROVE RequestPlaced(req'[r])
  <2>1. PICK s : Same(req'[r], req[r]) /\ IsNow(req'[r], req[r].pc, req[r].adds, req[r].ins, req[r].rem, req[r].drops, s)
    BY <1>8, Effects
  <2>2. RequestPlaced(req[r]) /\ req[r].pc = "name"
    BY <1>0, <1>8 DEF Name
  <2> QED BY <2>1, <2>2 DEF RequestPlaced, Same, IsNow
<1>9. ASSUME NEW r \in Requests, Unname(r) PROVE RequestPlaced(req'[r])
  <2>0. RequestPlaced(req[r]) /\ req[r].pc = "unname"
    BY <1>0, <1>9 DEF Unname
  <2>1. CASE /\ req[r].drops = {} /\ Same(req'[r], req[r])
             /\ IsNow(req'[r], "destroy", req[r].adds, req[r].ins, req[r].rem, req[r].drops, req[r].dns)
    BY <2>0, <2>1 DEF RequestPlaced, Same, IsNow
  <2>2. ASSUME NEW m, Same(req'[r], req[r]),
               IsNow(req'[r], req[r].pc, req[r].adds, req[r].ins, req[r].rem, m, req[r].dns)
        PROVE RequestPlaced(req'[r])
    BY <2>0, <2>2 DEF RequestPlaced, Same, IsNow
  <2> QED BY <1>9, <2>1, <2>2, Effects
<1>10. ASSUME NEW r \in Requests, Deadlocked(r) \/ Commit(r) \/ Mismatch(r) \/ DestroyContainer(r)
       PROVE RequestPlaced(req'[r])
  <2>1. req'[r] = Ended
    BY <1>10, Effects
  <2> QED BY <1>3, <2>1
<1>11. CASE UNCHANGED serviceVars
  BY <1>11 DEF serviceVars, RequestsPlaced
<1> QED BY <1>1, <1>2, <1>4, <1>5, <1>6, <1>7, <1>8, <1>9, <1>10, <1>11 DEF ServicesNext, Goes

\* What a step adds to what a request holds, no other holds.
LEMMA PendingStep ==
  ASSUME ServicesTypeOK, RequestsPlaced, NEW r \in Requests, Goes(r)
  PROVE  \A v \in Pending(r)' : v \in Pending(r) \/ Holders(r, v) = {}
<1>0. Busy(r) /\ RequestPlaced(req[r])
  BY OthersGo DEF RequestsPlaced
<1>1. CASE req'[r] = Ended
  BY <1>1, EndedIs
<1>2. CASE req'[r].rem = req[r].rem /\ req'[r].ins = req[r].ins
  BY <1>0, <1>2 DEF Pending
<1>3. CASE Remove(r)
  <2> DEFINE gone == {v \in Found(r) : has[v] = req[r].of}
  <2>0. IsNow(req'[r], "add", req[r].adds, req[r].ins, gone, Found(r) \cap Hosts, req[r].dns)
    BY <1>3, Effects
  <2>1. req'[r].rem = gone /\ req'[r].ins = req[r].ins
    BY <2>0 DEF IsNow
  <2>2. \A v \in gone : Holders(r, v) = {}
    BY <1>3 DEF Remove
  <2> QED BY <1>0, <2>1, <2>2 DEF Pending
<1>4. CASE InsertService(r)
  <2>1. CASE /\ Same(req'[r], req[r])
             /\ IsNow(req'[r], "add", Tail(req[r].adds), req[r].ins \cup {Head(req[r].adds)}, req[r].rem,
                      req[r].drops, req[r].dns)
    <3>1. req'[r].rem = req[r].rem /\ req'[r].ins = req[r].ins \cup {Head(req[r].adds)}
      BY <2>1 DEF IsNow
    <3>2. Holders(r, Head(req[r].adds)) = {}
      BY <1>4 DEF InsertService
    <3> QED BY <1>0, <3>1, <3>2 DEF Pending
  <2> QED BY <1>1, <1>4, <2>1, Effects
<1> QED BY <1>1, <1>2, <1>3, <1>4, GoesOn

LEMMA LockedStep ==
  ASSUME ServicesTypeOK, RequestsPlaced, ValuesLocked, [ServicesNext]_serviceVars
  PROVE  ValuesLocked'
<1>1. ASSUME NEW r \in Requests,
             \A q \in Requests \ {r} : Pending(q)' = Pending(q),
             \A v \in Pending(r)' : v \in Pending(r) \/ Holders(r, v) = {}
      PROVE  ValuesLocked'
  <2>1. \A q \in Requests \ {r} : Pending(r)' \cap Pending(q)' = {}
    BY <1>1 DEF ValuesLocked, Holders
  <2> QED BY <1>1, <2>1 DEF ValuesLocked
<1>2. ASSUME NEW r \in Requests, Begins(r) PROVE ValuesLocked'
  <2>1. PICK a \in Asks : req'[r] = HasBegun(r, a) /\ \A q \in Requests \ {r} : Pending(q)' = Pending(q)
    BY <1>2, BeginsFor
  <2>2. Pending(r)' = {}
    BY <2>1, BegunIs
  <2> QED BY <1>1, <2>1, <2>2
<1>3. ASSUME NEW r \in Requests, Goes(r) PROVE ValuesLocked'
  BY <1>1, <1>3, PendingStep, OthersGo
<1>4. CASE UNCHANGED serviceVars
  BY <1>4 DEF serviceVars, ValuesLocked, Pending, Busy
<1> QED BY <1>2, <1>3, <1>4 DEF ServicesNext, Goes

LEMMA AloneStep ==
  ASSUME ServicesTypeOK, RequestsAlone, [ServicesNext]_serviceVars
  PROVE  RequestsAlone'
<1>1. ASSUME NEW r \in Requests, Begins(r) PROVE RequestsAlone'
  <2>1. PICK a \in Asks : /\ req'[r] = HasBegun(r, a)
                          /\ \A q \in Requests \ {r} : (Busy(q)' <=> Busy(q)) /\ (Busy(q) => req'[q].met)
    BY <1>1, BeginsFor
  <2>2. req'[r].met <=> \E p \in Requests : Busy(p)
    BY <2>1, BegunIs
  <2> QED BY <2>1, <2>2 DEF RequestsAlone
<1>2. ASSUME NEW r \in Requests, Goes(r) PROVE RequestsAlone'
  <2>1. Busy(r)' => Same(req'[r], req[r])
    BY <1>2, GoesOn, EndedIs
  <2> QED BY <1>2, <2>1, OthersGo DEF RequestsAlone, Same
<1>3. CASE UNCHANGED serviceVars
  BY <1>3 DEF serviceVars, RequestsAlone, Busy
<1> QED BY <1>1, <1>2, <1>3 DEF ServicesNext, Goes

LEMMA AskStep ==
  ASSUME ServicesTypeOK, RequestsPlaced, RequestsAsk, [ServicesNext]_serviceVars
  PROVE  RequestsAsk'
<1> DEFINE Asks1(r) == /\ req[r].pc \in {"remove", "add", "insert"} => StillAdds(r)
                       /\ req[r].pc = "insert" => req[r].adds # <<>> /\ req[r].adds[1] \in Values
<1>0. \A r \in Requests : Asks1(r)
  BY DEF RequestsAsk
<1>1. ASSUME NEW q \in Requests, Unmoved(req'[q], req[q]) PROVE Asks1(q)'
  <2>1. /\ req'[q].pc = req[q].pc /\ req'[q].adds = req[q].adds /\ req'[q].asks = req[q].asks
        /\ req'[q].ins = req[q].ins
    BY <1>1 DEF Unmoved
  <2>2. \A i : Asked(q, i)' = Asked(q, i)
    BY <2>1 DEF Asked
  <2>3. StillAdds(q) => StillAdds(q)'
    BY <2>1, <2>2 DEF StillAdds
  <2>4. Asks1(q)
    BY <1>0
  <2> QED BY <2>1, <2>3, <2>4
<1>2. ASSUME NEW r \in Requests, Begins(r) PROVE RequestsAsk'
  <2>1. PICK a \in Asks : req'[r] = HasBegun(r, a) /\ \A q \in Requests \ {r} : Unmoved(req'[q], req[q])
    BY <1>2, BeginsFor
  <2>2. /\ req'[r].pc \in {"unname", "remove"} /\ req'[r].asks = a.adds /\ req'[r].adds = a.adds
        /\ req'[r].ins = {}
    BY <2>1, BegunIs
  <2>3. Len(a.adds) \in Nat
    <3>1. a.adds \in Seq(Hosts \cup {Tcp})
      OBVIOUS
    <3> QED BY <3>1, LenProperties
  <2>4. \A i \in 1..Len(a.adds) : Len(a.adds) - Len(a.adds) + i = i
    BY <2>3
  <2>5. Asks1(r)'
    BY <2>2, <2>3, <2>4 DEF StillAdds, Asked
  <2> QED BY <1>1, <2>1, <2>5 DEF RequestsAsk
<1>3. ASSUME NEW r \in Requests, Goes(r), Asks1(r)' PROVE RequestsAsk'
  <2>1. \A q \in Requests \ {r} : Unmoved(req'[q], req[q])
    BY <1>3, OthersGo DEF Unmoved
  <2> QED BY <1>1, <1>3, <2>1 DEF RequestsAsk
<1>4. ASSUME NEW r \in Requests, req'[r].pc \notin {"remove", "add", "insert"} PROVE Asks1(r)'
  BY <1>4
<1>5. ASSUME NEW r \in Requests, req'[r] = Ended PROVE Asks1(r)'
  BY <1>5, <1>4, EndedIs
<1>6. ASSUME NEW r \in Requests, Remove(r) PROVE Asks1(r)'
  <2>1. PICK g, y : /\ Same(req'[r], req[r])
                    /\ IsNow(req'[r], "add", req[r].adds, req[r].ins, g, y, req[r].dns)
    BY <1>6, Effects
  <2>2. req[r].pc = "remove" /\ StillAdds(r)
    BY <1>0, <1>6 DEF Remove
  <2> QED BY <2>1, <2>2 DEF Same, IsNow, StillAdds, Asked
<1>7. ASSUME NEW r \in Requests, Choose(r) PROVE Asks1(r)'
  <2> DEFINE s == req[r].adds
             n == Len(s)
             a == Len(req[r].asks)
  <2>0. /\ req[r].pc = "add" /\ s # <<>> /\ StillAdds(r)
        /\ s \in Seq(Values \cup {Tcp}) /\ req[r].asks \in Seq(Hosts \cup {Tcp})
    BY <1>0, <1>7 DEF Choose, ServicesTypeOK, ServiceRequest
  <2>1. Head(s) = s[1] /\ n \in Nat \ {0} /\ 1 \in 1..n /\ a \in Nat /\ n <= a
    <3>1. a \in Nat
      BY <2>0, LenProperties
    <3>2. n <= a
      BY <2>0 DEF StillAdds
    <3>3. Head(s) = s[1] /\ n \in Nat \ {0} /\ 1 \in 1..n
      BY <2>0, HeadIsFirst
    <3> QED BY <3>1, <3>2, <3>3
  <2>2. \A i \in 1..n : s[i] = Asked(r, i)
    BY <2>0 DEF StillAdds
  <2>3. CASE /\ Head(s) # Tcp /\ Same(req'[r], req[r])
             /\ IsNow(req'[r], "insert", s, req[r].ins, req[r].rem, req[r].drops, req[r].dns)
    <3>1. s[1] \in Hosts
      <4> DEFINE k == a - n + 1
                 u == req[r].asks
      <4>1. k \in 1..a
        <5> HIDE DEF a, n
        <5> QED BY <2>1
      <4>2. k \in 1..Len(u) /\ s[1] = u[k] /\ u \in Seq(Hosts \cup {Tcp})
        BY <2>0, <2>1, <2>2, <4>1 DEF Asked
      <4> HIDE DEF k, u
      <4>3. s[1] \in Hosts \cup {Tcp}
        BY <4>2, ElementOfSeq
      <4> QED BY <2>1, <2>3, <4>3
    <3>2. StillAdds(r)'
      BY <2>0, <2>2, <2>3 DEF Same, IsNow, StillAdds, Asked
    <3>3. req'[r].adds = s
      BY <2>3 DEF IsNow
    <3> QED BY <2>0, <3>1, <3>2, <3>3 DEF Values
  <2>4. ASSUME NEW p \in NextPort(r), Head(s) = Tcp, Same(req'[r], req[r]),
               IsNow(req'[r], "insert", <<p>> \o Tail(s), req[r].ins, req[r].rem, req[r].drops, req[r].dns)
        PROVE  Asks1(r)'
    <3> DEFINE t == <<p>> \o Tail(s)
    <3>1. p \in Ports /\ p \in Values
      BY DEF NextPort, Values
    <3>2. t # <<>> /\ Len(t) = n /\ t[1] = p /\ \A i \in 1..n : i # 1 => t[i] = s[i]
      <4>1. Tail(s) \in Seq(Values \cup {Tcp}) /\ Len(Tail(s)) = n - 1 /\ \A i \in 1..(n - 1) : Tail(s)[i] = s[i + 1]
        <5>1. Tail(s) \in Seq(Values \cup {Tcp}) /\ Len(Tail(s)) = n - 1 /\ \A i \in 1..Len(Tail(s)) : Tail(s)[i] = s[i + 1]
          BY <2>0, HeadTailProperties
        <5> QED BY <5>1
      <4>2. <<p>> \in Seq(Values \cup {Tcp}) /\ Len(<<p>>) = 1 /\ <<p>>[1] = p
        BY <3>1
      <4> DEFINE u == Tail(s)
                 v == <<p>>
      <4> HIDE DEF u, v, s, n, t
      <4>3. /\ t = v \o u /\ v \in Seq(Values \cup {Tcp}) /\ u \in Seq(Values \cup {Tcp})
            /\ Len(v) = 1 /\ v[1] = p /\ Len(u) = n - 1
        BY <4>1, <4>2 DEF u, v, t
      <4>4. /\ Len(t) = 1 + (n - 1)
            /\ \A i \in 1..(1 + (n - 1)) : t[i] = IF i <= 1 THEN v[i] ELSE u[i - 1]
        <5>1. /\ Len(v \o u) = Len(v) + Len(u)
              /\ \A i \in 1..(Len(v) + Len(u)) : (v \o u)[i] = IF i <= Len(v) THEN v[i] ELSE u[i - Len(v)]
          <6>1. v \in Seq(Values \cup {Tcp}) /\ u \in Seq(Values \cup {Tcp})
            BY <4>3
          <6> QED BY ONLY <6>1, ConcatProperties
        <5> QED BY <4>3, <5>1
      <4>5. \A i \in 1..n : i # 1 => i - 1 \in 1..(n - 1) /\ (i - 1) + 1 = i
        BY <2>1
      <4>6. \A i \in 1..n : i # 1 => u[i - 1] = s[i]
        BY <4>1, <4>5 DEF u
      <4>7. Len(t) = n /\ t[1] = p /\ \A i \in 1..n : i # 1 => t[i] = s[i]
        BY <2>1, <4>3, <4>4, <4>6
      <4>8. t # <<>>
        <5>1. Len(t) # 0
          BY <2>1, <4>7
        <5> QED BY <5>1, EmptySeq
      <4> QED BY <4>7, <4>8
    <3> HIDE DEF t
    <3>3. /\ req'[r].pc = "insert" /\ req'[r].adds = t /\ req'[r].ins = req[r].ins /\ req'[r].asks = req[r].asks
      BY <2>4 DEF Same, IsNow, t
    <3>4. \A i : Asked(r, i)' = Asked(r, i)
      BY <3>2, <3>3 DEF Asked
    <3>5. Asked(r, 1) = Tcp
      BY <2>1, <2>2, <2>4
    <3>6. \A i \in 1..Len(t) : t[i] = Asked(r, i) \/ (i = 1 /\ t[1] \in Ports)
      BY <2>2, <3>1, <3>2
    <3>7. StillAdds(r)'
      BY <2>0, <3>2, <3>3, <3>4, <3>5, <3>6 DEF StillAdds
    <3> QED BY <3>1, <3>2, <3>3, <3>7
  <2> QED BY <1>5, <1>7, <2>3, <2>4, Effects
<1>8. ASSUME NEW r \in Requests, InsertService(r) PROVE Asks1(r)'
  <2> DEFINE s == req[r].adds
             n == Len(s)
             a == Len(req[r].asks)
             v == Head(s)
             t == Tail(s)
  <2>0. /\ req[r].pc = "insert" /\ s # <<>> /\ StillAdds(r) /\ s \in Seq(Values \cup {Tcp})
        /\ req[r].asks \in Seq(Hosts \cup {Tcp})
    BY <1>0, <1>8 DEF InsertService, ServicesTypeOK, ServiceRequest
  <2>1. n \in Nat \ {0} /\ a \in Nat /\ n <= a
    <3>1. a \in Nat
      BY <2>0, LenProperties
    <3>2. n <= a
      BY <2>0 DEF StillAdds
    <3>3. n \in Nat \ {0}
      BY <2>0, HeadIsFirst
    <3> QED BY <3>1, <3>2, <3>3
  <2>2. Len(t) = n - 1 /\ \A i \in 1..(n - 1) : t[i] = s[i + 1]
    <3>1. Len(t) = n - 1 /\ \A i \in 1..Len(t) : t[i] = s[i + 1]
      BY <2>0, HeadTailProperties
    <3> QED BY <3>1
  <2>3. v \in Ports => Asked(r, 1) = Tcp
    BY <2>0, InsertedIs
  <2>4. CASE /\ Same(req'[r], req[r])
             /\ IsNow(req'[r], "add", t, req[r].ins \cup {v}, req[r].rem, req[r].drops, req[r].dns)
    <3>1. /\ req'[r].pc = "add" /\ req'[r].adds = t /\ req'[r].ins = req[r].ins \cup {v}
          /\ req'[r].asks = req[r].asks
      BY <2>4 DEF Same, IsNow
    <3>2. \A i \in 1..(n - 1) : a - (n - 1) + i = a - n + (i + 1) /\ i + 1 \in 1..n /\ i + 1 # 1
      <4> HIDE DEF a, n
      <4> QED BY <2>1
    <3>3. \A i \in 1..(n - 1) : t[i] = Asked(r, i + 1)
      BY <2>0, <2>2, <3>2 DEF StillAdds
    <3>4. \A i \in 1..(n - 1) : Asked(r, i)' = Asked(r, i + 1)
      BY <2>2, <3>1, <3>2 DEF Asked
    <3>5. 1..(a - n) \subseteq 1..(a - (n - 1)) /\ a - n + 1 \in 1..(a - (n - 1)) /\ n - 1 <= a
      <4> HIDE DEF a, n
      <4> QED BY <2>1
    <3>6. \A w \in req'[r].ins \cap Ports : \E i \in 1..(a - (n - 1)) : req[r].asks[i] = Tcp
      <4>1. \A w \in req[r].ins \cap Ports : \E i \in 1..(a - n) : req[r].asks[i] = Tcp
        BY <2>0 DEF StillAdds
      <4>2. v \in Ports => req[r].asks[a - n + 1] = Tcp
        BY <2>3 DEF Asked
      <4> HIDE DEF a, n, v
      <4> QED BY <3>1, <3>5, <4>1, <4>2
    <3>7. StillAdds(r)'
      <4> HIDE DEF a, n, v, t
      <4>1. Len(req'[r].adds) = n - 1 /\ Len(req'[r].asks) = a
        BY <2>2, <3>1 DEF a
      <4>2. Len(req'[r].adds) <= Len(req'[r].asks)
        BY <3>5, <4>1
      <4>3. \A i \in 1..Len(req'[r].adds) : req'[r].adds[i] = Asked(r, i)'
        BY <3>1, <3>3, <3>4, <4>1
      <4>4. \A w \in req'[r].ins \cap Ports :
              \E i \in 1..(Len(req'[r].asks) - Len(req'[r].adds)) : req'[r].asks[i] = Tcp
        BY <3>1, <3>6, <4>1
      <4> QED BY <4>2, <4>3, <4>4 DEF StillAdds
    <3> QED BY <3>1, <3>7
  <2> QED BY <1>5, <1>8, <2>4, Effects
<1>9. ASSUME NEW r \in Requests, Written(r) PROVE Asks1(r)'
  <2>1. req'[r].pc = "name"
    BY <1>9, Effects DEF IsNow
  <2> QED BY <1>4, <2>1
<1>10. ASSUME NEW r \in Requests, Name(r) PROVE Asks1(r)'
  <2>1. IsNow(req'[r], req[r].pc, req[r].adds, req[r].ins, req[r].rem, req[r].drops, Tail(req[r].dns))
    BY <1>10, Effects
  <2>2. req'[r].pc = "name"
    BY <1>10, <2>1 DEF IsNow, Name
  <2> QED BY <1>4, <2>2
<1>11. ASSUME NEW r \in Requests, Unname(r) PROVE Asks1(r)'
  <2>1. \E pc \in {"destroy", req[r].pc} : \E m : IsNow(req'[r], pc, req[r].adds, req[r].ins, req[r].rem, m, req[r].dns)
    BY <1>11, Effects
  <2>2. req'[r].pc \in {"destroy", "unname"}
    BY <1>11, <2>1 DEF IsNow, Unname
  <2> QED BY <1>4, <2>2
<1>12. ASSUME NEW r \in Requests, Deadlocked(r) \/ Commit(r) \/ Mismatch(r) \/ DestroyContainer(r)
       PROVE Asks1(r)'
  <2>1. req'[r] = Ended
    BY <1>12, Effects
  <2> QED BY <1>5, <2>1
<1>13. CASE UNCHANGED serviceVars
  <2>1. \A q \in Requests : Unmoved(req'[q], req[q])
    BY <1>13 DEF serviceVars, Unmoved
  <2> QED BY <1>1, <2>1 DEF RequestsAsk
<1> QED
  BY <1>2, <1>3, <1>6, <1>7, <1>8, <1>9, <1>10, <1>11, <1>12, <1>13 DEF ServicesNext, Goes

\* A set of naturals that is not empty has a least element.
LEMMA LeastNatural ==
  ASSUME NEW S \in SUBSET Nat, S # {}
  PROVE  \E n \in S : \A m \in S : n <= m
<1> DEFINE UpTo == {0..n : n \in S}
<1>1. UpTo # {} /\ UpTo \subseteq FiniteSubsetsOf(Nat)
  <2>1. ASSUME NEW n \in S
        PROVE  IsFiniteSet(0..n) /\ 0..n \subseteq Nat
    <3>1. n \in Nat
      OBVIOUS
    <3>2. 0 \in Int /\ n \in Int
      BY ONLY <3>1
    <3>3. IsFiniteSet(0..n)
      BY ONLY <3>2, FS_Interval
    <3>4. 0..n \subseteq Nat
      BY ONLY <3>1
    <3> QED BY ONLY <3>3, <3>4
  <2>2. \A n \in S : 0..n \in FiniteSubsetsOf(Nat)
    BY ONLY <2>1 DEF FiniteSubsetsOf
  <2>3. UpTo # {}
    <3>1. PICK n \in S : TRUE
      OBVIOUS
    <3>2. 0..n \in UpTo
      BY ONLY <3>1
    <3> QED BY ONLY <3>2
  <2> QED BY <2>2, <2>3
<1>2. PICK U \in UpTo : \A V \in UpTo : <<V, U>> \notin StrictSubsetOrdering(Nat)
  BY <1>1, FS_StrictSubsetOrderingWellFounded, WFMin
<1>3. PICK n \in S : U = 0..n
  BY <1>2
<1>4. ASSUME NEW m \in S, m < n PROVE FALSE
  <2>1. 0..m \in UpTo /\ 0..m \subseteq 0..n /\ n \in 0..n /\ n \notin 0..m
    BY <1>4
  <2>2. <<0..m, U>> \in StrictSubsetOrdering(Nat)
    BY <2>1, <1>3 DEF StrictSubsetOrdering
  <2> QED BY <1>2, <2>1, <2>2
<1> QED BY <1>4

LEMMA UndisturbedStep ==
  ASSUME ServicesTypeOK, RequestsPlaced, RequestsAsk, RequestsAlone, AloneUndisturbed,
         [ServicesNext]_serviceVars
  PROVE  AloneUndisturbed'
<1> DEFINE Quiet(r) ==
      Busy(r) /\ ~req[r].met =>
        /\ req[r].kind = "put" => req[r].of \in apps
        /\ req[r].pc = "insert" /\ req[r].adds[1] \in Ports =>
             req[r].adds[1] \notin Taken(r, req[r].kind = "post")
<1>0. \A r \in Requests : Quiet(r)
  BY DEF AloneUndisturbed
<1>1. ASSUME NEW r \in Requests, Begins(r) PROVE AloneUndisturbed'
  <2>1. PICK a \in Asks : /\ IF a.kind = "post" THEN a.of \notin apps ELSE a.of \in apps
                          /\ req'[r] = HasBegun(r, a)
                          /\ \A q \in Requests \ {r} : (Busy(q)' <=> Busy(q)) /\ (Busy(q) => req'[q].met)
                          /\ apps' = apps
    BY <1>1, BeginsFor
  <2>2. /\ req'[r].kind = a.kind /\ req'[r].of = a.of /\ req'[r].pc \in {"unname", "remove"}
    BY <2>1, BegunIs
  <2>3. Quiet(r)'
    BY <2>1, <2>2
  <2> QED BY <2>1, <2>3 DEF AloneUndisturbed
<1>2. ASSUME NEW r \in Requests, Goes(r), Quiet(r)' PROVE AloneUndisturbed'
  <2>1. \A q \in Requests \ {r} : Busy(q)' => req'[q].met
    BY <1>2, OthersGo DEF RequestsAlone
  <2> QED BY <1>2, <2>1 DEF AloneUndisturbed
<1>3. ASSUME NEW r \in Requests, req'[r] = Ended PROVE Quiet(r)'
  BY <1>3, EndedIs
<1>4. ASSUME NEW r \in Requests, Busy(r), Same(req'[r], req[r]), apps' = apps, req'[r].pc # "insert"
      PROVE  Quiet(r)'
  BY <1>0, <1>4 DEF Same
<1>5. ASSUME NEW r \in Requests, Choose(r) PROVE Quiet(r)'
  <2>0. Busy(r) /\ req[r].adds # <<>> /\ req[r].adds \in Seq(Values \cup {Tcp}) /\ req[r].pc = "add"
    BY <1>5 DEF Choose, Busy, ServicesTypeOK, ServiceRequest
  <2>1. ASSUME /\ Head(req[r].adds) # Tcp /\ Same(req'[r], req[r])
               /\ IsNow(req'[r], "insert", req[r].adds, req[r].ins, req[r].rem, req[r].drops, req[r].dns)
        PROVE  Quiet(r)'
    <3>1. req[r].adds[1] \notin Ports
      <4> DEFINE k == Len(req[r].asks) - Len(req[r].adds) + 1
                 u == req[r].asks
                 n == Len(req[r].adds)
      <4>1. StillAdds(r) /\ u \in Seq(Hosts \cup {Tcp}) /\ Len(u) \in Nat
        <5>1. StillAdds(r) /\ u \in Seq(Hosts \cup {Tcp})
          BY <2>0 DEF RequestsAsk, ServicesTypeOK, ServiceRequest
        <5> QED BY <5>1, LenProperties
      <4>2. n \in Nat \ {0} /\ n <= Len(u) /\ Head(req[r].adds) = req[r].adds[1] /\ 1 \in 1..n
        BY <2>0, <4>1, HeadIsFirst DEF StillAdds
      <4>3. req[r].adds[1] = u[k]
        BY <2>0, <4>1, <4>2 DEF StillAdds, Asked
      <4>4. k \in 1..Len(u)
        <5>1. k = Len(u) - n + 1
          OBVIOUS
        <5> HIDE DEF k, u, n
        <5> QED BY <4>1, <4>2, <5>1
      <4> HIDE DEF k, u
      <4>5. u[k] \in Hosts \cup {Tcp}
        BY <4>1, <4>4, ElementOfSeq
      <4> QED BY <2>1, <4>2, <4>3, <4>5
    <3>2. req'[r].adds = req[r].adds
      BY <2>1 DEF IsNow
    <3>3. apps' = apps
      BY <1>5, <2>1 DEF Choose
    <3> QED BY <1>0, <2>0, <2>1, <3>1, <3>2, <3>3 DEF Same
  <2>2. ASSUME NEW p \in NextPort(r), Head(req[r].adds) = Tcp, Same(req'[r], req[r]),
               IsNow(req'[r], "insert", <<p>> \o Tail(req[r].adds), req[r].ins, req[r].rem, req[r].drops, req[r].dns)
        PROVE  Quiet(r)'
    <3>1. req'[r].adds[1] = p
      <4>1. req'[r].adds = <<p>> \o Tail(req[r].adds)
        BY <2>2 DEF IsNow
      <4>2. Tail(req[r].adds) \in Seq(Values \cup {Tcp}) /\ <<p>> \in Seq(Values \cup {Tcp})
        BY <2>0, HeadTailProperties DEF NextPort, Values
      <4> DEFINE u == Tail(req[r].adds)
                 v == <<p>>
      <4>3. Len(v) = 1 /\ v[1] = p
        OBVIOUS
      <4> HIDE DEF u, v
      <4>4. v \in Seq(Values \cup {Tcp}) /\ u \in Seq(Values \cup {Tcp}) /\ Len(u) \in Nat
        <5>1. v \in Seq(Values \cup {Tcp}) /\ u \in Seq(Values \cup {Tcp})
          BY <4>2 DEF u, v
        <5> QED BY <5>1, LenProperties
      <4>5. \A i \in 1..(1 + Len(u)) : (v \o u)[i] = IF i <= 1 THEN v[i] ELSE u[i - 1]
        <5>1. /\ Len(v \o u) = Len(v) + Len(u)
              /\ \A i \in 1..(Len(v) + Len(u)) : (v \o u)[i] = IF i <= Len(v) THEN v[i] ELSE u[i - Len(v)]
          BY ONLY <4>4, ConcatProperties
        <5> QED BY ONLY <4>3, <5>1
      <4>6. (v \o u)[1] = p
        BY <4>3, <4>4, <4>5
      <4> QED BY <4>1, <4>6 DEF u, v
    <3>2. p \notin Taken(r, req[r].kind = "post")
      BY DEF NextPort
    <3>3. apps' = apps /\ has' = has
      <4>1. req'[r].pc = "insert"
        BY <2>2 DEF IsNow
      <4> QED BY <1>5, <2>2 DEF Choose, Rollback
    <3>4. Taken(r, req[r].kind = "post")' = Taken(r, req[r].kind = "post")
      BY <2>2, <3>3 DEF Taken, Same, IsNow
    <3>5. req'[r].kind = req[r].kind
      BY <2>2 DEF Same
    <3> QED BY <1>0, <2>0, <2>2, <3>1, <3>2, <3>3, <3>4, <3>5 DEF Same
  <2> QED BY <1>3, <1>5, <2>1, <2>2, Effects
<1>6. ASSUME NEW r \in Requests, Goes(r), ~Choose(r) PROVE Quiet(r)'
  <2>0. Busy(r)
    BY <1>6, OthersGo
  <2>1. CASE req'[r] = Ended
    BY <1>3, <2>1
  <2>2. CASE req'[r] # Ended
    <3>1. Same(req'[r], req[r]) /\ ~Commit(r) /\ ~DestroyContainer(r) /\ ~Mismatch(r) /\ ~Deadlocked(r)
      BY <1>6, <2>2, GoesOn, Effects
    <3>2. Remove(r) \/ InsertService(r) \/ Written(r) \/ Name(r) \/ Unname(r)
      BY <1>6, <3>1 DEF Goes
    <3>3. apps' = apps
      BY <3>2 DEF Remove, InsertService, Rollback, Written, Name, Unname
    <3>4. req'[r].pc # "insert"
      <4>1. CASE Remove(r)
        BY <4>1, Effects DEF IsNow
      <4>2. CASE InsertService(r)
        BY <2>2, <4>2, Effects DEF IsNow
      <4>3. CASE Written(r)
        BY <4>3, Effects DEF IsNow
      <4>4. CASE Name(r)
        <5>1. IsNow(req'[r], req[r].pc, req[r].adds, req[r].ins, req[r].rem, req[r].drops, Tail(req[r].dns))
          BY <4>4, Effects
        <5> QED BY <4>4, <5>1 DEF IsNow, Name
      <4>5. CASE Unname(r)
        <5>1. \E pc \in {"destroy", req[r].pc} : \E m : IsNow(req'[r], pc, req[r].adds, req[r].ins, req[r].rem, m, req[r].dns)
          BY <4>5, Effects
        <5> QED BY <4>5, <5>1 DEF IsNow, Unname
      <4> QED BY <3>2, <4>1, <4>2, <4>3, <4>4, <4>5
    <3> QED BY <1>4, <2>0, <3>1, <3>3, <3>4
  <2> QED BY <2>1, <2>2
<1>7. CASE UNCHANGED serviceVars
  BY <1>7 DEF serviceVars, AloneUndisturbed, Busy, Taken
<1> QED BY <1>1, <1>2, <1>5, <1>6, <1>7 DEF ServicesNext, Goes

\* No number of the range is free, if none is the least.
LEMMA NextPortIs == ASSUME NEW r, NextPort(r) = {} PROVE Ports \subseteq Taken(r, req[r].kind = "post")
<1> DEFINE F == Ports \ Taken(r, req[r].kind = "post")
<1>1. F \in SUBSET Nat
  OBVIOUS
<1>2. ~ \E p \in F : \A q \in F : p <= q
  BY DEF NextPort
<1> HIDE DEF F
<1>3. F = {}
  BY <1>1, <1>2, LeastNatural
<1> QED BY <1>3 DEF F

\* Why a request that has met no other is refused.
LEMMA CauseOf ==
  ASSUME ServicesInv, NEW r \in Requests, ~req[r].met, refused' = refused \cup {AskOf(r)},
         \/ /\ Choose(r) /\ NextPort(r) = {} /\ Head(req[r].adds) = Tcp
            /\ ~(Ports \subseteq Taken(r, TRUE))
         \/ InsertService(r) /\ Head(req[r].adds) \in Taken(r, TRUE) /\ Head(req[r].adds) \notin Hosts
         \/ Deadlocked(r)
         \/ Commit(r) /\ req[r].kind = "put" /\ req[r].of \notin apps
  PROVE  RefusedForCause'
<1> USE DEF ServicesInv
<1> DEFINE a == req[r].asks
           automatic == {i \in 1..Len(a) : a[i] = Tcp}
<1>0. /\ Busy(r) /\ RequestPlaced(req[r]) /\ req[r] \in ServiceRequest
      /\ a \in Seq(Hosts \cup {Tcp}) /\ Len(a) \in Nat /\ DOMAIN a = 1..Len(a)
  <2>1. Busy(r) /\ RequestPlaced(req[r]) /\ req[r] \in ServiceRequest
    BY DEF RequestsPlaced, ServicesTypeOK, Choose, InsertService, Deadlocked, Commit, Busy
  <2>2. a \in Seq(Hosts \cup {Tcp})
    BY <2>1 DEF ServiceRequest
  <2> QED BY <2>1, <2>2, LenProperties
<1>2. ASSUME req[r].kind = "put", automatic # {}, Cardinality(automatic) > 1 \/ \E p \in Ports : <<req[r].of, p>> \in req[r].dels
      PROVE  RefusedForCause'
  <2> DEFINE Cause(q) ==
        LET as == {i \in DOMAIN q.adds : q.adds[i] = Tcp} IN
        /\ q.kind = "put" /\ as # {}
        /\ Cardinality(as) > 1 \/ \E p \in Ports : <<q.of, p>> \in q.dels
  <2>1. /\ AskOf(r).kind = "put" /\ AskOf(r).dels = req[r].dels /\ AskOf(r).adds = a /\ AskOf(r).of = req[r].of
    BY <1>2 DEF AskOf
  <2>2. {i \in DOMAIN AskOf(r).adds : AskOf(r).adds[i] = Tcp} = automatic
    BY <1>0, <2>1
  <2>3. Cause(AskOf(r))
    BY <1>2, <2>1, <2>2
  <2>4. \A q \in refused : Cause(q)
    BY DEF RefusedForCause
  <2>5. \A q \in refused' : Cause(q)
    <3> HIDE DEF Cause
    <3> QED BY <2>3, <2>4
  <2> QED BY <2>5 DEF RefusedForCause
<1>3. CASE /\ Choose(r) /\ NextPort(r) = {} /\ Head(req[r].adds) = Tcp
           /\ ~(Ports \subseteq Taken(r, TRUE))
  <2>1. Ports \subseteq Taken(r, req[r].kind = "post") /\ ~(Ports \subseteq Taken(r, TRUE))
    BY <1>3, NextPortIs
  <2>2. req[r].kind # "post"
    BY <2>1
  <2>3. req[r].kind = "put"
    BY <1>0, <1>3, <2>2 DEF RequestPlaced, Choose, ServiceRequest, Busy
  <2>4. \E p \in Ports : <<req[r].of, p>> \in req[r].dels
    <3>1. PICK p \in Ports : p \notin Taken(r, TRUE) /\ p \in Taken(r, FALSE)
      BY <2>1, <2>3
    <3>2. p \in req[r].rem
      BY <3>1 DEF Taken
    <3> QED BY <1>0, <3>2 DEF RequestPlaced
  <2>5. automatic # {}
    <3>1. req[r].pc = "add" /\ req[r].adds # <<>> /\ StillAdds(r) /\ req[r].adds \in Seq(Values \cup {Tcp})
      BY <1>0, <1>3 DEF Choose, RequestsAsk, ServiceRequest
    <3> DEFINE n == Len(req[r].adds)
    <3>2. n \in Nat \ {0} /\ 1 \in 1..n /\ req[r].adds[1] = Tcp
      BY <1>3, <3>1, HeadIsFirst
    <3>3. n <= Len(a) /\ a[Len(a) - n + 1] = Tcp
      BY <3>1, <3>2 DEF StillAdds, Asked
    <3> HIDE DEF n, a
    <3>4. Len(a) - n + 1 \in 1..Len(a)
      BY <1>0, <3>2, <3>3
    <3> QED BY <3>3, <3>4
  <2> QED BY <1>2, <1>3, <2>3, <2>4, <2>5
<1>4. CASE InsertService(r) /\ Head(req[r].adds) \in Taken(r, TRUE) /\ Head(req[r].adds) \notin Hosts
  <2> DEFINE v == Head(req[r].adds)
             n == Len(req[r].adds)
  <2>1. /\ req[r].pc = "insert" /\ v = req[r].adds[1] /\ v \in Ports /\ v \in Taken(r, TRUE)
        /\ Asked(r, 1) = Tcp /\ Len(a) - n + 1 \in 1..Len(a)
    BY <1>4, InsertedIs DEF InsertService
  <2>2. v \notin Taken(r, req[r].kind = "post")
    BY <1>0, <1>4, <2>1 DEF AloneUndisturbed
  <2>3. req[r].kind # "post"
    BY <2>1, <2>2
  <2>4. req[r].kind = "put"
    BY <1>0, <2>1, <2>3 DEF RequestPlaced, ServiceRequest, Busy
  <2>5. v \in req[r].ins
    BY <2>1, <2>2, <2>4 DEF Taken
  <2>6. PICK i \in 1..(Len(a) - n) : a[i] = Tcp
    BY <2>1, <2>5 DEF RequestsAsk, StillAdds
  <2> DEFINE j == Len(a) - n + 1
  <2>7. a[j] = Tcp
    BY <2>1 DEF Asked
  <2>8. i \in automatic /\ j \in automatic /\ i # j
    <3>1. j \in 1..Len(a)
      BY <2>1
    <3>2. i \in 1..Len(a) /\ i # j
      <4>1. n \in Nat
        <5>1. req[r].adds \in Seq(Values \cup {Tcp})
          BY <1>0 DEF ServiceRequest
        <5> QED BY <5>1, LenProperties
      <4> HIDE DEF a, n
      <4> QED BY <1>0, <4>1
    <3> QED BY <2>6, <2>7, <3>1, <3>2
  <2>9. Cardinality(automatic) > 1
    <3> HIDE DEF automatic, j
    <3>1. IsFiniteSet(automatic)
      <4>1. IsFiniteSet(1..Len(a)) /\ automatic \in SUBSET (1..Len(a))
        BY <1>0, FS_Interval DEF automatic
      <4> QED BY <4>1, FS_Subset
    <3>2. Cardinality(automatic) \in Nat
      BY <3>1, FS_CardinalityType
    <3>3. Cardinality(automatic) # 0
      BY <2>8, <3>1, FS_EmptySet
    <3>4. Cardinality(automatic) # 1
      BY <2>8, <3>1, FS_Singleton
    <3> QED BY <3>2, <3>3, <3>4
  <2> QED BY <1>2, <1>4, <2>4, <2>8, <2>9
<1>5. CASE Deadlocked(r)
  <2>1. PICK q \in Holders(r, Head(req[r].adds)) : req[q].pc = "insert"
    BY <1>5 DEF Deadlocked
  <2>2. q \in Requests \ {r} /\ Busy(q)
    BY <2>1 DEF Holders, Busy
  <2> QED BY <1>0, <1>5, <2>2 DEF RequestsAlone
<1>6. CASE Commit(r) /\ req[r].kind = "put" /\ req[r].of \notin apps
  BY <1>0, <1>6 DEF AloneUndisturbed
<1> QED BY <1>3, <1>4, <1>5, <1>6

LEMMA CauseStep == ASSUME ServicesInv, [ServicesNext]_serviceVars PROVE RefusedForCause'
<1>1. ASSUME refused' = refused PROVE RefusedForCause'
  BY <1>1 DEF ServicesInv, RefusedForCause
<1>2. ASSUME NEW r \in Requests, Choose(r) PROVE RefusedForCause'
  <2>1. CASE Head(req[r].adds) = Tcp /\ NextPort(r) = {}
    <3>1. refused' = IF req[r].met \/ Ports \subseteq Taken(r, TRUE) THEN refused ELSE refused \cup {AskOf(r)}
      BY <1>2, <2>1 DEF Choose, Rollback
    <3> QED BY <1>1, <1>2, <2>1, <3>1, CauseOf
  <2> QED BY <1>1, <1>2, <2>1 DEF Choose
<1>3. ASSUME NEW r \in Requests, InsertService(r) PROVE RefusedForCause'
  <2>1. CASE Head(req[r].adds) \in Taken(r, TRUE)
    <3>1. refused' = IF req[r].met \/ Head(req[r].adds) \in Hosts THEN refused ELSE refused \cup {AskOf(r)}
      BY <1>3, <2>1 DEF InsertService, Rollback
    <3> QED BY <1>1, <1>3, <2>1, <3>1, CauseOf
  <2> QED BY <1>1, <1>3, <2>1 DEF InsertService
<1>4. ASSUME NEW r \in Requests, Deadlocked(r) PROVE RefusedForCause'
  <2>1. refused' = IF req[r].met THEN refused ELSE refused \cup {AskOf(r)}
    BY <1>4 DEF Deadlocked, Rollback
  <2> QED BY <1>1, <1>4, <2>1, CauseOf
<1>5. ASSUME NEW r \in Requests, Commit(r) PROVE RefusedForCause'
  <2>1. CASE req[r].kind = "put" /\ req[r].of \notin apps
    <3>1. refused' = IF req[r].met THEN refused ELSE refused \cup {AskOf(r)}
      BY <1>5, <2>1 DEF Commit, Rollback
    <3> QED BY <1>1, <1>5, <2>1, <3>1, CauseOf
  <2> QED BY <1>1, <1>5, <2>1 DEF Commit
<1>6. ASSUME NEW r \in Requests,
             Begins(r) \/ Remove(r) \/ Written(r) \/ Name(r) \/ Unname(r) \/ Mismatch(r) \/ DestroyContainer(r)
      PROVE  RefusedForCause'
  <2>1. refused' = refused
    BY <1>6 DEF Begins, Remove, Written, Name, Unname, Mismatch, DestroyContainer
  <2> QED BY <1>1, <2>1
<1>7. CASE UNCHANGED serviceVars
  BY <1>1, <1>7 DEF serviceVars
<1> QED BY <1>2, <1>3, <1>4, <1>5, <1>6, <1>7 DEF ServicesNext

\* What the rest of the calls of Cloudflare says.
LEMMA TailOfCalls ==
  ASSUME NEW s \in Seq({"create", "delete"} \X Hosts), s # <<>>, DeletesFirst(s)
  PROVE  /\ Head(s) \in {"create", "delete"} \X Hosts
         /\ DeletesFirst(Tail(s))
         /\ Head(s)[1] = "create" => \A i \in 1..Len(Tail(s)) : Tail(s)[i][1] = "create"
         /\ \A c : (\E i \in 1..Len(s) : s[i] = c) <=> (c = Head(s) \/ \E i \in 1..Len(Tail(s)) : Tail(s)[i] = c)
<1> DEFINE t == Tail(s)
           n == Len(s)
<1>1. /\ Head(s) \in {"create", "delete"} \X Hosts /\ Head(s) = s[1] /\ n \in Nat \ {0}
      /\ Len(t) = n - 1 /\ \A i \in 1..Len(t) : t[i] = s[i + 1]
  BY HeadTailProperties, HeadIsFirst
<1> HIDE DEF t, n
<1>2. /\ \A i \in 1..(n - 1) : i + 1 \in 1..n /\ i + 1 > 1
      /\ \A i \in 1..n : i # 1 => i - 1 \in 1..(n - 1) /\ (i - 1) + 1 = i
      /\ 1 \in 1..n
  BY <1>1
<1>3. \A i \in 1..(n - 1) : t[i] = s[i + 1]
  BY <1>1
<1>4. \A i \in 1..n : i # 1 => t[i - 1] = s[i]
  BY <1>2, <1>3
<1>5. \A i, j \in 1..n : i < j /\ s[i][1] = "create" => s[j][1] = "create"
  BY DEF DeletesFirst, n
<1>6. ASSUME NEW i \in 1..(n - 1), NEW j \in 1..(n - 1), i < j, t[i][1] = "create"
      PROVE  t[j][1] = "create"
  <2>1. i + 1 < j + 1 /\ i + 1 \in 1..n /\ j + 1 \in 1..n
    BY <1>2, <1>6
  <2>2. s[i + 1][1] = "create"
    BY <1>3, <1>6
  <2>3. s[j + 1][1] = "create"
    BY <1>5, <2>1, <2>2
  <2> QED BY <1>3, <2>3
<1>7. DeletesFirst(t)
  BY <1>1, <1>6 DEF DeletesFirst
<1>8. ASSUME Head(s)[1] = "create", NEW i \in 1..Len(t) PROVE t[i][1] = "create"
  <2>1. i \in 1..(n - 1) /\ i + 1 \in 1..n /\ 1 < i + 1
    BY <1>1, <1>2
  <2>2. s[i + 1][1] = "create"
    BY <1>1, <1>2, <1>5, <1>8, <2>1
  <2> QED BY <1>3, <2>1, <2>2
<1>9. ASSUME NEW c PROVE (\E i \in 1..n : s[i] = c) <=> (c = Head(s) \/ \E i \in 1..Len(t) : t[i] = c)
  <2>1. ASSUME NEW i \in 1..n, s[i] = c PROVE c = Head(s) \/ \E j \in 1..Len(t) : t[j] = c
    BY <1>1, <1>2, <1>4, <2>1
  <2>2. ASSUME NEW i \in 1..Len(t), t[i] = c PROVE \E j \in 1..n : s[j] = c
    BY <1>1, <1>2, <1>3, <2>2
  <2> QED BY <1>1, <1>2, <2>1, <2>2
<1> QED BY <1>1, <1>7, <1>8, <1>9 DEF t, n

\* The calls that are left of a PUT, when it writes its rows and after each call.
LEMMA CallsWritten ==
  ASSUME ServicesTypeOK, RequestsPlaced, NEW r \in Requests, Written(r)
  PROVE  /\ req'[r].pc = "name" /\ Same(req'[r], req[r]) /\ req'[r].ins = req[r].ins /\ req'[r].rem = req[r].rem
         /\ DeletesFirst(req'[r].dns) /\ Pending(r)' = req[r].ins \cup req[r].rem
         /\ \A h \in Hosts : /\ StillCalls(r, "create", h)' <=> h \in req[r].ins
                             /\ StillCalls(r, "delete", h)' <=> h \in req[r].drops
         /\ req[r].kind # "delete" /\ req'[r].drops = req[r].drops /\ stray' = stray
<1>0. RequestPlaced(req[r]) /\ Busy(r) /\ req[r] \in ServiceRequest /\ req[r].pc = "add"
  BY DEF RequestsPlaced, Written, Busy, ServicesTypeOK
<1>1. PICK s : /\ IF req[r].kind = "put" THEN s \in NamesOf(r) ELSE s = <<>>
               /\ Same(req'[r], req[r]) /\ IsNow(req'[r], "name", req[r].adds, req[r].ins, req[r].rem, req[r].drops, s)
  BY Effects
<1>2. /\ req'[r].pc = "name" /\ req'[r].ins = req[r].ins /\ req'[r].rem = req[r].rem /\ req'[r].dns = s
      /\ req'[r].drops = req[r].drops /\ stray' = stray /\ req[r].kind # "delete"
  BY <1>0, <1>1 DEF IsNow, Written, RequestPlaced
<1>3. Pending(r)' = req[r].ins \cup req[r].rem
  BY <1>2 DEF Pending, Busy
<1>4. /\ DeletesFirst(s)
      /\ \A h \in Hosts : (\E i \in 1..Len(s) : s[i] = <<"delete", h>>) <=> h \in req[r].drops
      /\ \A h \in Hosts : (\E i \in 1..Len(s) : s[i] = <<"create", h>>) <=> h \in req[r].ins
  <2>1. CASE req[r].kind = "put"
    BY <1>0, <1>1, <2>1, CallsOf DEF RequestPlaced
  <2>2. CASE req[r].kind # "put"
    <3>1. req[r].kind = "post"
      BY <1>0, <2>2 DEF RequestPlaced, ServiceRequest, Busy
    <3>2. s = <<>> /\ Len(s) = 0 /\ 1..0 = {}
      BY <1>1, <2>2
    <3>3. req[r].drops = {} /\ req[r].ins \cap Hosts = {}
      BY <1>0, <3>1 DEF RequestPlaced
    <3> QED BY <3>2, <3>3 DEF DeletesFirst
  <2> QED BY <2>1, <2>2
<1> QED BY <1>1, <1>2, <1>3, <1>4 DEF StillCalls

LEMMA CallsNamed ==
  ASSUME ServicesTypeOK, RequestsPlaced, CallsAreForRows, NEW r \in Requests, Name(r),
         NEW op, op = Head(req[r].dns)[1], NEW h, h = Head(req[r].dns)[2]
  PROVE  /\ op \in {"create", "delete"} /\ h \in Hosts /\ h \in Pending(r) \cup stray
         /\ Same(req'[r], req[r]) /\ req[r].pc = "name" /\ req'[r].pc = "name"
         /\ req'[r].ins = req[r].ins /\ req'[r].rem = req[r].rem
         /\ req[r].kind # "delete" /\ Pending(r)' = Pending(r)
         /\ DeletesFirst(req'[r].dns)
         /\ op = "create" => \A g : ~StillCalls(r, "delete", g)'
         /\ \A o, g : StillCalls(r, o, g) <=> (o = op /\ g = h) \/ StillCalls(r, o, g)'
<1> DEFINE s == req[r].dns
           t == Tail(s)
<1>0. /\ RequestPlaced(req[r]) /\ Busy(r) /\ req[r].pc = "name" /\ s # <<>> /\ DeletesFirst(s)
      /\ s \in Seq({"create", "delete"} \X Hosts)
  BY DEF RequestsPlaced, Name, Busy, ServicesTypeOK, ServiceRequest, CallsAreForRows
<1>1. Same(req'[r], req[r]) /\ IsNow(req'[r], req[r].pc, req[r].adds, req[r].ins, req[r].rem, req[r].drops, t)
  BY Effects
<1>2. /\ req'[r].pc = "name" /\ req'[r].ins = req[r].ins /\ req'[r].rem = req[r].rem /\ req'[r].dns = t
  BY <1>0, <1>1 DEF IsNow
<1>3. Pending(r)' = Pending(r) /\ req[r].kind # "delete"
  BY <1>0, <1>2 DEF Pending, Busy, RequestPlaced
<1>4. /\ Head(s) \in {"create", "delete"} \X Hosts
      /\ DeletesFirst(t)
      /\ Head(s)[1] = "create" => \A i \in 1..Len(t) : t[i][1] = "create"
      /\ \A c : (\E i \in 1..Len(s) : s[i] = c) <=> (c = Head(s) \/ \E i \in 1..Len(t) : t[i] = c)
  BY <1>0, TailOfCalls
<1> HIDE DEF s, t
<1>5. op \in {"create", "delete"} /\ h \in Hosts /\ Head(s) = <<op, h>>
  BY <1>4 DEF s
<1>6. ASSUME NEW o, NEW g PROVE StillCalls(r, o, g) <=> (o = op /\ g = h) \/ StillCalls(r, o, g)'
  <2>1. StillCalls(r, o, g) <=> \E i \in 1..Len(s) : s[i] = <<o, g>>
    BY DEF StillCalls, s
  <2>2. StillCalls(r, o, g)' <=> \E i \in 1..Len(t) : t[i] = <<o, g>>
    BY <1>2 DEF StillCalls
  <2>3. <<o, g>> = Head(s) <=> o = op /\ g = h
    BY <1>5
  <2> QED BY <1>4, <2>1, <2>2, <2>3
<1>7. h \in Pending(r) \cup stray
  BY <1>0, <1>5, <1>6 DEF CallsAreForRows
<1>8. op = "create" => \A g : ~StillCalls(r, "delete", g)'
  BY <1>2, <1>4, <1>5 DEF StillCalls
<1> QED BY <1>0, <1>1, <1>2, <1>3, <1>4, <1>5, <1>6, <1>7, <1>8

LEMMA StrayGrows == ASSUME [ServicesNext]_serviceVars PROVE stray \subseteq stray'
<1>1. ASSUME NEW r \in Requests, Remove(r) PROVE stray \subseteq stray'
  BY <1>1 DEF Remove
<1>4. ASSUME NEW r \in Requests, Begins(r) PROVE stray' = stray
  BY <1>4 DEF Begins
<1>2. ASSUME NEW r \in Requests, Goes(r), ~Remove(r) PROVE stray' = stray
  BY <1>2 DEF Goes, Choose, InsertService, Deadlocked, Written, Name, Commit, Unname,
              Mismatch, DestroyContainer, Rollback
<1>3. CASE UNCHANGED serviceVars
  BY <1>3 DEF serviceVars
<1> QED BY <1>1, <1>2, <1>3, <1>4 DEF ServicesNext, Goes

LEMMA DropsStep ==
  ASSUME ServicesTypeOK, RequestsPlaced, DropsAreForRows, [ServicesNext]_serviceVars
  PROVE  DropsAreForRows'
<1> DEFINE ForRows(r) ==
      req[r].kind # "delete" =>
        req[r].rem \cap Hosts \subseteq req[r].drops /\ req[r].drops \subseteq req[r].rem \cup stray
<1>0. (\A r \in Requests : ForRows(r)) /\ stray \subseteq stray'
  BY StrayGrows DEF DropsAreForRows
<1>1. ASSUME NEW q \in Requests, req'[q].kind = req[q].kind, req'[q].rem = req[q].rem,
             req'[q].drops = req[q].drops
      PROVE  ForRows(q)'
  BY <1>0, <1>1
<1>2. ASSUME NEW r \in Requests, Begins(r) PROVE DropsAreForRows'
  <2>1. PICK a \in Asks : /\ req'[r] = HasBegun(r, a)
                          /\ \A q \in Requests \ {r} : Unmoved(req'[q], req[q])
    BY <1>2, BeginsFor
  <2>2. ForRows(r)'
    BY <2>1, BegunIs
  <2>3. \A q \in Requests \ {r} : ForRows(q)'
    BY <1>1, <2>1 DEF Unmoved
  <2> QED BY <2>2, <2>3 DEF DropsAreForRows
<1>3. ASSUME NEW r \in Requests, Goes(r), ForRows(r)' PROVE DropsAreForRows'
  <2>1. \A q \in Requests \ {r} : ForRows(q)'
    BY <1>1, <1>3, OthersGo
  <2> QED BY <1>3, <2>1 DEF DropsAreForRows
<1>4. ASSUME NEW r \in Requests, req'[r] = Ended PROVE ForRows(r)'
  <2>1. req'[r].rem = {} /\ req'[r].drops = {}
    BY <1>4, EndedIs
  <2> QED BY <2>1
<1>5. ASSUME NEW r \in Requests, Remove(r) PROVE ForRows(r)'
  <2> DEFINE gone == {v \in Found(r) : has[v] = req[r].of}
             drops == Found(r) \cap Hosts
  <2>1. IsNow(req'[r], "add", req[r].adds, req[r].ins, gone, drops, req[r].dns)
    BY <1>5, Effects
  <2>2. stray' = stray \cup (drops \ gone) /\ gone \cap Hosts \subseteq drops
    BY <1>5 DEF Remove
  <2> HIDE DEF gone, drops
  <2>3. req'[r].rem = gone /\ req'[r].drops = drops
    BY <2>1 DEF IsNow
  <2> QED BY <2>2, <2>3
<1>6. ASSUME NEW r \in Requests, Choose(r) \/ InsertService(r) \/ Written(r) \/ Name(r) PROVE ForRows(r)'
  <2>1. \/ req'[r] = Ended
        \/ Same(req'[r], req[r]) /\ req'[r].rem = req[r].rem /\ req'[r].drops = req[r].drops
    BY <1>6, FieldsAfter
  <2> QED BY <1>1, <1>4, <2>1 DEF Same
<1>7. ASSUME NEW r \in Requests, Unname(r) PROVE ForRows(r)'
  <2>1. req[r].kind = "delete"
    <3>1. RequestPlaced(req[r]) /\ req[r].pc = "unname"
      BY <1>7 DEF RequestsPlaced, Unname
    <3> QED BY <3>1 DEF RequestPlaced
  <2>2. Same(req'[r], req[r])
    BY <1>7, FieldsAfter
  <2> QED BY <2>1, <2>2 DEF Same
<1>8. ASSUME NEW r \in Requests, Deadlocked(r) \/ Commit(r) \/ Mismatch(r) \/ DestroyContainer(r)
      PROVE  ForRows(r)'
  <2>1. req'[r] = Ended
    BY <1>8, Effects
  <2> QED BY <1>4, <2>1
<1>9. CASE UNCHANGED serviceVars
  BY <1>9 DEF serviceVars, DropsAreForRows
<1> HIDE DEF ForRows
<1> QED BY <1>2, <1>3, <1>5, <1>6, <1>7, <1>8, <1>9 DEF ServicesNext, Goes

LEMMA CallsStep ==
  ASSUME ServicesTypeOK, RequestsPlaced, DropsAreForRows, CallsAreForRows, [ServicesNext]_serviceVars
  PROVE  CallsAreForRows'
<1> DEFINE ForRows(r) ==
      req[r].pc = "name" =>
        /\ DeletesFirst(req[r].dns)
        /\ \A h \in Hosts \ stray : StillCalls(r, "create", h) \/ StillCalls(r, "delete", h) => h \in Pending(r)
<1>0. \A r \in Requests : ForRows(r)
  BY DEF CallsAreForRows
<1>11. stray \subseteq stray'
  BY StrayGrows
<1>1. ASSUME NEW q \in Requests, req'[q].pc = req[q].pc, req'[q].dns = req[q].dns, Pending(q)' = Pending(q)
      PROVE  ForRows(q)'
  <2>1. \A o, h : StillCalls(q, o, h)' <=> StillCalls(q, o, h)
    BY <1>1 DEF StillCalls
  <2> QED BY <1>0, <1>1, <1>11, <2>1
<1>2. ASSUME NEW r \in Requests, Begins(r) PROVE CallsAreForRows'
  <2>1. PICK a \in Asks : /\ req'[r] = HasBegun(r, a)
                          /\ \A q \in Requests \ {r} : Unmoved(req'[q], req[q]) /\ Pending(q)' = Pending(q)
    BY <1>2, BeginsFor
  <2>2. ForRows(r)'
    BY <2>1, BegunIs
  <2>3. \A q \in Requests \ {r} : ForRows(q)'
    BY <1>1, <2>1 DEF Unmoved
  <2> QED BY <2>2, <2>3 DEF CallsAreForRows
<1>3. ASSUME NEW r \in Requests, Goes(r), ForRows(r)' PROVE CallsAreForRows'
  <2>1. \A q \in Requests \ {r} : ForRows(q)'
    BY <1>1, <1>3, OthersGo
  <2> QED BY <1>3, <2>1 DEF CallsAreForRows
<1>4. ASSUME NEW r \in Requests, Written(r) PROVE ForRows(r)'
  <2>1. req[r].drops \subseteq req[r].rem \cup stray
    BY <1>4, CallsWritten DEF DropsAreForRows
  <2> QED BY <1>4, <2>1, CallsWritten
<1>5. ASSUME NEW r \in Requests, Name(r) PROVE ForRows(r)'
  <2> DEFINE op == Head(req[r].dns)[1]
             g == Head(req[r].dns)[2]
  <2>1. /\ DeletesFirst(req'[r].dns) /\ Pending(r)' = Pending(r) /\ req[r].pc = "name"
        /\ \A o, h : StillCalls(r, o, h) <=> (o = op /\ h = g) \/ StillCalls(r, o, h)'
    BY <1>5, CallsNamed
  <2> HIDE DEF op, g
  <2> QED BY <1>0, <1>11, <2>1
<1>6. ASSUME NEW r \in Requests, req'[r].pc # "name" PROVE ForRows(r)'
  BY <1>6
<1>7. ASSUME NEW r \in Requests, req'[r] = Ended PROVE ForRows(r)'
  BY <1>6, <1>7, EndedIs
<1>8. ASSUME NEW r \in Requests, Goes(r), ~Written(r), ~Name(r) PROVE ForRows(r)'
  <2>1. CASE Remove(r)
    BY <1>6, <2>1, Effects DEF IsNow
  <2>2. CASE Choose(r)
    <3>1. req'[r] = Ended \/ req'[r].pc = "insert"
      BY <2>2, FieldsAfter
    <3> QED BY <1>6, <1>7, <3>1
  <2>3. CASE InsertService(r)
    <3>1. req'[r] = Ended \/ req'[r].pc = "add"
      BY <2>3, FieldsAfter
    <3> QED BY <1>6, <1>7, <3>1
  <2>4. CASE Unname(r)
    <3>1. \E pc \in {"destroy", req[r].pc} : \E m : IsNow(req'[r], pc, req[r].adds, req[r].ins, req[r].rem, m, req[r].dns)
      BY <2>4, Effects
    <3>2. req'[r].pc # "name"
      BY <2>4, <3>1 DEF IsNow, Unname
    <3> QED BY <1>6, <3>2
  <2>5. CASE Deadlocked(r) \/ Commit(r) \/ Mismatch(r) \/ DestroyContainer(r)
    <3>1. req'[r] = Ended
      BY <2>5, Effects
    <3> QED BY <1>7, <3>1
  <2> QED BY <1>8, <2>1, <2>2, <2>3, <2>4, <2>5 DEF Goes
<1>9. CASE UNCHANGED serviceVars
  <2>1. \A q \in Requests : ForRows(q)'
    <3>1. \A q \in Requests : Pending(q)' = Pending(q)
      BY <1>9 DEF serviceVars, Pending, Busy
    <3> QED BY <1>1, <1>9, <3>1 DEF serviceVars
  <2> QED BY <2>1 DEF CallsAreForRows
<1> QED BY <1>2, <1>3, <1>4, <1>5, <1>8, <1>9 DEF ServicesNext, Goes

LEMMA OwnedStep ==
  ASSUME ServicesTypeOK, ServicesTypeOK', RequestsPlaced, ValuesLocked, RowsOwned, [ServicesNext]_serviceVars
  PROVE  RowsOwned'
<1> DEFINE Owns(r) == Busy(r) => OwnsRows(r)
<1> SUFFICES ASSUME ~tangled' PROVE /\ \A r, q \in Requests : (Busy(r) /\ Busy(q) /\ req[r].of = req[q].of)' => r = q
                                    /\ \A r \in Requests : Owns(r)'
  BY DEF RowsOwned
<1>0. \A q \in Requests : req[q] \in ServiceRequest /\ RequestPlaced(req[q])
  BY DEF ServicesTypeOK, RequestsPlaced
<1>1. ASSUME NEW r \in Requests, Begins(r)
      PROVE /\ \A p, q \in Requests : (Busy(p) /\ Busy(q) /\ req[p].of = req[q].of)' => p = q
            /\ \A p \in Requests : Owns(p)'
  <2>1. PICK a \in Asks :
           /\ IF a.kind = "post" THEN a.of \notin apps ELSE a.of \in apps
           /\ req'[r] = HasBegun(r, a)
           /\ tangled' = (tangled \/ \E q \in Requests : Busy(q) /\ req[q].of = a.of)
           /\ \A q \in Requests \ {r} : Unmoved(req'[q], req[q]) /\ (Busy(q)' <=> Busy(q))
           /\ UNCHANGED <<has, apps>>
    BY <1>1, BeginsFor
  <2>2. ~tangled /\ \A q \in Requests : ~(Busy(q) /\ req[q].of = a.of)
    BY <2>1
  <2>3. /\ req'[r].kind = a.kind /\ req'[r].of = a.of /\ req'[r].ins = {} /\ req'[r].rem = {}
        /\ (a.kind = "delete" => req'[r].drops = {v \in Hosts : has[v] = a.of})
    BY <2>1, BegunIs
  <2>4. Owns(r)'
    BY <2>1, <2>3 DEF OwnsRows
  <2>5. ASSUME NEW q \in Requests \ {r} PROVE Owns(q)'
    <3>1. Owns(q)
      BY <2>2 DEF RowsOwned
    <3>2. /\ req'[q].kind = req[q].kind /\ req'[q].of = req[q].of /\ req'[q].ins = req[q].ins
          /\ req'[q].rem = req[q].rem /\ req'[q].drops = req[q].drops
      BY <2>1 DEF Unmoved
    <3> QED BY <2>1, <3>1, <3>2 DEF OwnsRows
  <2>6. \A q \in Requests \ {r} : req'[q].of = req[q].of
    BY <2>1 DEF Unmoved
  <2>7. \A p, q \in Requests : (Busy(p) /\ Busy(q) /\ req[p].of = req[q].of) => p = q
    BY <2>2 DEF RowsOwned
  <2>8. \A p, q \in Requests : (Busy(p) /\ Busy(q) /\ req[p].of = req[q].of)' => p = q
    BY <2>1, <2>2, <2>3, <2>6, <2>7
  <2> HIDE DEF Owns
  <2> QED BY <2>4, <2>5, <2>8
<1>2. ASSUME NEW r \in Requests, Goes(r)
      PROVE /\ \A p, q \in Requests : (Busy(p) /\ Busy(q) /\ req[p].of = req[q].of)' => p = q
            /\ \A p \in Requests : Owns(p)'
  <2>1. /\ \A q \in Requests \ {r} : req'[q] = req[q] /\ (Busy(q)' <=> Busy(q)) /\ Pending(q)' = Pending(q)
        /\ Busy(r) /\ ~tangled
    BY <1>2, OthersGo
  <2>2. Busy(r)' => Same(req'[r], req[r])
    BY <1>2, GoesOn, EndedIs
  <2>3. /\ \A p, q \in Requests : (Busy(p) /\ Busy(q) /\ req[p].of = req[q].of) => p = q
        /\ \A p \in Requests : Owns(p)
    BY <2>1 DEF RowsOwned
  <2>4. \A p, q \in Requests : (Busy(p) /\ Busy(q) /\ req[p].of = req[q].of)' => p = q
    BY <2>1, <2>2, <2>3 DEF Same
  <2>5. ASSUME NEW q \in Requests \ {r}, Busy(q) PROVE OwnsRows(q)'
    <3>0. /\ OwnsRows(q) /\ OwnsRows(r) /\ req[q].of # req[r].of /\ req[q].of # "-" /\ req[r].of # "-"
          /\ req'[q] = req[q]
          /\ req[q].ins \subseteq Values /\ req[q].rem \subseteq Values /\ req[q].drops \subseteq Values
      <4>1. /\ OwnsRows(q) /\ OwnsRows(r) /\ req[q].of # req[r].of /\ req'[q] = req[q]
            /\ req[q] \in ServiceRequest /\ req[r] \in ServiceRequest
        BY <1>0, <2>1, <2>3, <2>5
      <4> QED BY <4>1 DEF ServiceRequest, Values, Apps
    <3> DEFINE ins == req[q].ins
               rem == req[q].rem
               names == req[q].drops
               of == req[q].of
               kind == req[q].kind
    <3>1. /\ req'[q].ins = ins /\ req'[q].rem = rem /\ req'[q].drops = names /\ req'[q].of = of
          /\ req'[q].kind = kind
      BY <3>0
    <3>2. /\ \A v \in rem : has[v] = of
          /\ \A v \in ins : has[v] = "-" \/ v \in rem
          /\ \A h \in names : kind = "delete" => has[h] = of
          /\ kind = "put" => of \in apps
      BY <3>0 DEF OwnsRows
    <3>3. ASSUME \A v \in rem \cup ins : has'[v] = has[v],
                 \A h \in names : has[h] = of => has'[h] = of,
                 of \in apps => of \in apps'
          PROVE  OwnsRows(q)'
      <4> HIDE DEF ins, rem, names, of, kind
      <4>1. /\ \A v \in rem : has'[v] = of
            /\ \A v \in ins : has'[v] = "-" \/ v \in rem
            /\ \A h \in names : kind = "delete" => has'[h] = of
            /\ kind = "put" => of \in apps'
        BY <3>2, <3>3
      <4> QED BY <3>1, <4>1 DEF OwnsRows
    <3>4. CASE UNCHANGED <<has, apps>>
      BY <3>3, <3>4
    <3>5. CASE Commit(r) /\ ~(req[r].kind = "put" /\ req[r].of \notin apps)
      <4>1. /\ has' = [v \in Values |-> IF v \in req[r].ins THEN req[r].of
                                        ELSE IF v \in req[r].rem THEN "-" ELSE has[v]]
            /\ apps' = apps \cup {req[r].of}
        BY <3>5 DEF Commit
      <4>2. Pending(q) \cap Pending(r) = {} /\ Pending(q) = ins \cup rem
            /\ Pending(r) = req[r].ins \cup req[r].rem
        BY <2>1, <2>5 DEF ValuesLocked, Pending
      <4>3. \A v \in rem \cup ins : has'[v] = has[v]
        BY <3>0, <4>1, <4>2
      <4>4. \A h \in names : has[h] = of => has'[h] = of
        <5>1. \A h \in names : has[h] = of => h \notin req[r].rem /\ h \notin req[r].ins
          BY <3>0 DEF OwnsRows
        <5> QED BY <3>0, <4>1, <5>1
      <4> QED BY <3>3, <4>1, <4>3, <4>4
    <3>6. CASE DestroyContainer(r)
      <4>1. /\ has' = [v \in Values |-> IF has[v] = req[r].of THEN "-" ELSE has[v]]
            /\ apps' = apps \ {req[r].of}
        BY <3>6 DEF DestroyContainer
      <4>2. \A v \in rem \cup ins : has'[v] = has[v]
        BY <3>0, <3>2, <4>1
      <4>3. \A h \in names : has[h] = of => has'[h] = of
        BY <3>0, <4>1
      <4>4. of \in apps => of \in apps'
        BY <3>0, <4>1
      <4> QED BY <3>3, <4>2, <4>3, <4>4
    <3>7. UNCHANGED <<has, apps>> \/ (Commit(r) /\ ~(req[r].kind = "put" /\ req[r].of \notin apps)) \/ DestroyContainer(r)
      BY <1>2 DEF Goes, Remove, Choose, InsertService, Deadlocked, Written, Name, Commit, Unname, Mismatch, Rollback
    <3> QED BY <3>4, <3>5, <3>6, <3>7
  <2>6. ASSUME Busy(r)' PROVE OwnsRows(r)'
    <3>0. OwnsRows(r) /\ Same(req'[r], req[r]) /\ req[r] \in ServiceRequest /\ RequestPlaced(req[r])
      BY <1>0, <2>1, <2>2, <2>3, <2>6
    <3>1. req'[r] # Ended
      BY <2>6, EndedIs
    <3>2. ~Commit(r) /\ ~DestroyContainer(r) /\ ~Mismatch(r) /\ ~Deadlocked(r)
      BY <3>1, Effects
    <3>3. /\ Remove(r) \/ Choose(r) \/ InsertService(r) \/ Written(r) \/ Name(r) \/ Unname(r)
          /\ UNCHANGED <<has, apps>>
      BY <1>2, <3>2 DEF Goes, Remove, Choose, InsertService, Written, Name, Unname, Rollback
    <3>4. ASSUME req'[r].ins = req[r].ins, req'[r].rem = req[r].rem, req'[r].drops \subseteq req[r].drops PROVE OwnsRows(r)'
      BY <3>0, <3>3, <3>4 DEF Same, OwnsRows
    <3>5. CASE Remove(r)
      <4> DEFINE gone == {v \in Found(r) : has[v] = req[r].of}
      <4>1. IsNow(req'[r], "add", req[r].adds, req[r].ins, gone, Found(r) \cap Hosts, req[r].dns)
        BY <3>5, Effects
      <4>2. req'[r].rem = gone /\ req'[r].ins = {} /\ req[r].kind # "delete"
        BY <3>0, <3>5, <4>1 DEF IsNow, RequestPlaced, Remove
      <4> QED BY <3>0, <3>3, <4>2 DEF Same, OwnsRows
    <3>6. CASE InsertService(r)
      <4> DEFINE v == Head(req[r].adds)
      <4>1. /\ v \notin Taken(r, TRUE) /\ Holders(r, v) = {}
            /\ IsNow(req'[r], "add", Tail(req[r].adds), req[r].ins \cup {v}, req[r].rem, req[r].drops, req[r].dns)
        BY <3>1, <3>6, Effects DEF InsertService
      <4>2. /\ req'[r].ins = req[r].ins \cup {v} /\ req'[r].rem = req[r].rem /\ req'[r].drops = req[r].drops
            /\ req'[r].ins \subseteq Values
        <5>1. req'[r] \in ServiceRequest
          BY DEF ServicesTypeOK
        <5> QED BY <4>1, <5>1 DEF IsNow, ServiceRequest
      <4>3. has[v] = "-" \/ v \in req[r].rem
        BY <4>1, <4>2 DEF Taken
      <4> QED BY <3>0, <3>3, <4>2, <4>3 DEF Same, OwnsRows
    <3>7. CASE Choose(r)
      BY <3>1, <3>4, <3>7, FieldsAfter
    <3>8. CASE Written(r)
      BY <3>4, <3>8, FieldsAfter
    <3>9. CASE Name(r)
      BY <3>4, <3>9, FieldsAfter
    <3>10. CASE Unname(r)
      BY <3>4, <3>10, FieldsAfter
    <3> QED BY <3>3, <3>5, <3>6, <3>7, <3>8, <3>9, <3>10
  <2>7. \A p \in Requests : Owns(p)'
    <3>1. \A q \in Requests \ {r} : Owns(q)'
      BY <2>1, <2>5
    <3>2. Owns(r)'
      BY <2>6
    <3> HIDE DEF Owns
    <3> QED BY <3>1, <3>2
  <2> QED BY <2>4, <2>7
<1>3. CASE UNCHANGED serviceVars
  BY <1>3 DEF serviceVars, RowsOwned, Busy, OwnsRows
<1> HIDE DEF Owns
<1> QED BY <1>1, <1>2, <1>3 DEF ServicesNext, Goes

\* Among requests that do not overlap on a container, one at most has a name to put right.
LEMMA OneTouches ==
  ASSUME ServicesTypeOK, RequestsPlaced, ValuesLocked, RowsOwned, ~tangled, NEW h \in Hosts,
         NEW r \in Requests, NEW q \in Requests, WillTouch(r, h), WillTouch(q, h)
  PROVE  r = q
<1>0. /\ \A p \in Requests : Busy(p) => OwnsRows(p) /\ Pending(p) = req[p].ins \cup req[p].rem /\ req[p].of # "-"
      /\ \A p \in Requests : req[p].pc = "name" => req[p].kind # "delete"
      /\ Busy(r) /\ Busy(q)
  <2>1. \A p \in Requests : req[p].of \in Apps /\ RequestPlaced(req[p])
    BY DEF ServicesTypeOK, ServiceRequest, RequestsPlaced
  <2>2. \A p \in Requests : req[p].of # "-"
    BY <2>1 DEF Apps
  <2>3. \A p \in Requests : req[p].pc = "name" => req[p].kind # "delete"
    BY <2>1 DEF RequestPlaced
  <2> QED BY <2>2, <2>3 DEF RowsOwned, WillTouch, Pending
<1>1. ASSUME NEW p \in Requests, Busy(p), h \in Pending(p) PROVE has[h] = req[p].of \/ has[h] = "-"
  BY <1>0, <1>1 DEF OwnsRows
<1>2. CASE h \in Pending(r) /\ h \in Pending(q)
  BY <1>2 DEF ValuesLocked
<1>3. ASSUME NEW p \in Requests, NEW o \in Requests, Busy(p), Busy(o), h \in Pending(p), has[h] = req[o].of
      PROVE  p = o
  <2>1. req[p].of = req[o].of
    BY <1>0, <1>1, <1>3
  <2> QED BY <1>3, <2>1 DEF RowsOwned
<1>4. CASE has[h] = req[r].of /\ has[h] = req[q].of
  BY <1>0, <1>4 DEF RowsOwned
<1> QED BY <1>0, <1>2, <1>3, <1>4 DEF WillTouch

\* What is planned for a name stays so when nothing it rests on changes.
LEMMA PlanStays ==
  ASSUME NEW h \in Hosts, RecordPlanned(h), h \in record' <=> h \in record, has'[h] = has[h],
         \A q \in Requests : WillTouch(q, h)' <=> WillTouch(q, h),
         \A q \in Requests : WillTouch(q, h) => /\ req'[q].kind = req[q].kind /\ req'[q].ins = req[q].ins
                                                /\ WillBeThere(q, h)' <=> WillBeThere(q, h)
  PROVE  RecordPlanned(h)'
BY DEF RecordPlanned

\* A name that a request has put right when nobody else has it to do.
LEMMA PlanEnds ==
  ASSUME NEW h \in Hosts, \A q \in Requests : ~WillTouch(q, h)', h \in record' <=> has'[h] # "-"
  PROVE  RecordPlanned(h)'
BY DEF RecordPlanned

\* What a name has before it when one request, and it alone, has it to put right.
LEMMA PlanOf ==
  ASSUME NEW h \in Hosts, NEW r \in Requests, WillTouch(r, h)', \A q \in Requests \ {r} : ~WillTouch(q, h)',
         IF req'[r].kind = "delete" THEN h \notin record' ELSE WillBeThere(r, h)' <=> h \in req'[r].ins
  PROVE  RecordPlanned(h)'
BY DEF RecordPlanned

LEMMA PlannedStep ==
  ASSUME ServicesInv, [ServicesNext]_serviceVars
  PROVE  RecordsPlanned'
<1> SUFFICES ASSUME ~tangled', troubles' = 0, NEW h \in Hosts, h \notin stray' PROVE RecordPlanned(h)'
  BY DEF RecordsPlanned
<1>7. h \notin stray
  BY StrayGrows
<1> USE DEF ServicesInv
<1>0. /\ \A q \in Requests : req[q] \in ServiceRequest /\ RequestPlaced(req[q]) /\ req[q].of # "-"
      /\ h \in Values
  <2>1. \A q \in Requests : req[q] \in ServiceRequest /\ RequestPlaced(req[q])
    BY DEF ServicesTypeOK, RequestsPlaced
  <2>2. \A q \in Requests : req[q].of # "-"
    BY <2>1 DEF ServiceRequest, Apps
  <2> QED BY <2>1, <2>2 DEF Values
<1>1. ASSUME NEW q \in Requests, Unmoved(req'[q], req[q]), Busy(q)' <=> Busy(q), Pending(q)' = Pending(q),
             has'[h] = has[h]
      PROVE  WillTouch(q, h)' <=> WillTouch(q, h)
  BY <1>1 DEF Unmoved, WillTouch
<1>2. ASSUME NEW q \in Requests, Unmoved(req'[q], req[q]), h \in record' <=> h \in record
      PROVE  WillBeThere(q, h)' <=> WillBeThere(q, h)
  BY <1>2 DEF Unmoved, WillBeThere, StillCalls
<1>3. ASSUME NEW q \in Requests, req'[q] = req[q] PROVE Unmoved(req'[q], req[q])
  BY <1>3 DEF Unmoved
<1>4. ASSUME NEW r \in Requests, Begins(r) PROVE RecordPlanned(h)'
  <2>1. PICK a \in Asks :
           /\ req'[r] = HasBegun(r, a)
           /\ tangled' = (tangled \/ \E q \in Requests : Busy(q) /\ req[q].of = a.of)
           /\ \A q \in Requests \ {r} :
                /\ Unmoved(req'[q], req[q]) /\ (Busy(q)' <=> Busy(q)) /\ Pending(q)' = Pending(q)
           /\ ~Busy(r) /\ UNCHANGED <<has, apps, record, stray, refused, troubles>>
    BY <1>4, BeginsFor
  <2>2. RecordPlanned(h)
    BY <1>7, <2>1 DEF RecordsPlanned
  <2>3. ~WillTouch(r, h)
    BY <2>1 DEF WillTouch
  <2>4. ~WillTouch(r, h)'
    <3>1. /\ req'[r].pc # "name" /\ req'[r].of = a.of /\ req'[r].kind = a.kind
          /\ a.kind = "delete" => req'[r].drops = {v \in Hosts : has[v] = a.of}
      BY <2>1, BegunIs
    <3> QED BY <2>1, <3>1 DEF WillTouch
  <2>5. \A q \in Requests \ {r} : WillTouch(q, h)' <=> WillTouch(q, h)
    BY <1>1, <2>1
  <2>6. \A q \in Requests \ {r} : /\ req'[q].kind = req[q].kind /\ req'[q].ins = req[q].ins
                                  /\ WillBeThere(q, h)' <=> WillBeThere(q, h)
    <3>1. \A q \in Requests \ {r} : req'[q].kind = req[q].kind /\ req'[q].ins = req[q].ins
      BY <2>1 DEF Unmoved
    <3> QED BY <1>2, <2>1, <3>1
  <2> QED BY <2>1, <2>2, <2>3, <2>4, <2>5, <2>6, PlanStays
<1>5. ASSUME NEW r \in Requests, Goes(r) PROVE RecordPlanned(h)'
  <2>0. /\ \A q \in Requests \ {r} : /\ req'[q] = req[q] /\ (Busy(q)' <=> Busy(q)) /\ Pending(q)' = Pending(q)
                                     /\ Unmoved(req'[q], req[q])
        /\ Busy(r) /\ ~tangled
    BY <1>3, <1>5, OthersGo
  <2>00. /\ \A p, q \in Requests : (Busy(p) /\ Busy(q) /\ req[p].of = req[q].of) => p = q
         /\ OwnsRows(r)
    BY <2>0 DEF RowsOwned
  \* A step that leaves the name alone, of a request that does not touch it or not otherwise than before.
  <2>1. ASSUME RecordPlanned(h), h \in record' <=> h \in record, has'[h] = has[h],
               \/ ~WillTouch(r, h) /\ ~WillTouch(r, h)'
               \/ /\ WillTouch(r, h) /\ WillTouch(r, h)' /\ req'[r].kind = req[r].kind /\ req'[r].ins = req[r].ins
                  /\ WillBeThere(r, h)' <=> WillBeThere(r, h)
        PROVE  RecordPlanned(h)'
    <3>1. \A q \in Requests \ {r} : /\ WillTouch(q, h)' <=> WillTouch(q, h)
                                    /\ req'[q].kind = req[q].kind /\ req'[q].ins = req[q].ins
                                    /\ WillBeThere(q, h)' <=> WillBeThere(q, h)
      BY <1>1, <1>2, <2>0, <2>1
    <3> QED BY <2>1, <3>1, PlanStays
  <2>2. troubles = 0 => RecordPlanned(h)
    BY <1>7, <2>0 DEF RecordsPlanned
  \* No transaction that is not at its calls of Cloudflare touches a name.
  <2>3. ASSUME req[r].pc # "name", req[r].kind # "delete" PROVE ~WillTouch(r, h)
    BY <2>3 DEF WillTouch
  <2>4. ASSUME req'[r].pc # "name", req'[r].kind # "delete" PROVE ~WillTouch(r, h)'
    BY <2>4 DEF WillTouch
  <2>5. ASSUME req'[r] = Ended PROVE ~WillTouch(r, h)'
    BY <2>4, <2>5, EndedIs
  <2>6. CASE Remove(r) \/ Choose(r) \/ InsertService(r) \/ Deadlocked(r)
    <3>1. UNCHANGED <<has, record, troubles>>
      BY <2>6 DEF Remove, Choose, InsertService, Deadlocked, Rollback
    <3>2. req[r].pc \in {"remove", "add", "insert"}
      BY <2>6 DEF Remove, Choose, InsertService, Deadlocked
    <3>3. req[r].kind # "delete"
      BY <1>0, <3>2 DEF RequestPlaced
    <3>4. req'[r] = Ended \/ (req'[r].pc \in {"add", "insert"} /\ Same(req'[r], req[r]))
      BY <2>6, FieldsAfter, Effects
    <3>5. ~WillTouch(r, h)'
      BY <2>4, <2>5, <3>3, <3>4 DEF Same
    <3>6. ~WillTouch(r, h)
      BY <2>3, <3>2, <3>3
    <3> QED BY <2>1, <2>2, <3>1, <3>5, <3>6
  <2>7. CASE Written(r)
    <3>1. UNCHANGED <<has, record, troubles>> /\ req[r].pc = "add"
      BY <2>7 DEF Written
    <3>2. req[r].kind # "delete"
      BY <1>0, <3>1 DEF RequestPlaced
    <3>3. ~WillTouch(r, h)
      BY <2>3, <3>1, <3>2
    <3>4. /\ req'[r].pc = "name" /\ Same(req'[r], req[r]) /\ req'[r].ins = req[r].ins
          /\ Pending(r)' = req[r].ins \cup req[r].rem
          /\ StillCalls(r, "create", h)' <=> h \in req[r].ins
          /\ StillCalls(r, "delete", h)' <=> h \in req[r].rem
      <4>1. h \in req[r].drops <=> h \in req[r].rem
        BY <1>7, <3>2 DEF DropsAreForRows
      <4> QED BY <2>7, <4>1, CallsWritten
    <3>5. req'[r].kind # "delete"
      BY <3>2, <3>4 DEF Same
    <3>6. CASE h \notin Pending(r)'
      <4>1. ~WillTouch(r, h)'
        BY <3>5, <3>6 DEF WillTouch
      <4> QED BY <2>1, <2>2, <3>1, <3>3, <4>1
    <3>7. CASE h \in Pending(r)'
      <4>0. h \in Pending(r) /\ Busy(r)'
        BY <2>0, <3>4, <3>7 DEF Pending, Busy
      <4>1. WillTouch(r, h)'
        BY <3>4, <3>7, <4>0 DEF WillTouch
      <4>2. ASSUME NEW q \in Requests \ {r} PROVE ~WillTouch(q, h)
        <5>1. h \notin Pending(q)
          BY <4>0 DEF ValuesLocked
        <5>2. Busy(q) => has[h] # req[q].of
          <6>1. has[h] = req[r].of \/ has[h] = "-"
            BY <2>00, <3>4, <3>7 DEF OwnsRows
          <6>2. Busy(q) => req[r].of # req[q].of /\ req[q].of # "-"
            BY <1>0, <2>0, <2>00
          <6> QED BY <6>1, <6>2
        <5> QED BY <5>1, <5>2 DEF WillTouch
      <4>3. \A q \in Requests \ {r} : ~WillTouch(q, h)'
        BY <1>1, <2>0, <3>1, <4>2
      <4>4. WillBeThere(r, h)' <=> h \in req'[r].ins
        BY <3>4, <3>7 DEF WillBeThere
      <4> QED BY <3>5, <4>1, <4>3, <4>4, PlanOf
    <3> QED BY <3>6, <3>7
  <2>8. CASE Name(r)
    <3> DEFINE op == Head(req[r].dns)[1]
               g == Head(req[r].dns)[2]
    <3>1. /\ op \in {"create", "delete"} /\ g \in Hosts /\ g \in Pending(r) \cup stray
          /\ Same(req'[r], req[r]) /\ req[r].pc = "name" /\ req'[r].pc = "name"
          /\ req'[r].ins = req[r].ins
          /\ req[r].kind # "delete" /\ Pending(r)' = Pending(r)
          /\ op = "create" => \A x : ~StillCalls(r, "delete", x)'
          /\ \A o, x : StillCalls(r, o, x) <=> (o = op /\ x = g) \/ StillCalls(r, o, x)'
      BY <2>8, CallsNamed
    <3>2. record' = Named(op, g) /\ troubles' = troubles /\ has' = has
      BY <2>8 DEF Name, Trouble, ServicesTypeOK
    <3> HIDE DEF op, g
    <3>3. RecordPlanned(h) /\ Busy(r)' /\ req'[r].kind = req[r].kind
      BY <2>2, <3>1, <3>2 DEF Busy, Same
    <3>4. WillTouch(r, h)' <=> WillTouch(r, h)
      BY <2>0, <3>1, <3>3 DEF WillTouch
    <3>5. CASE h # g
      <4>1. h \in record' <=> h \in record
        BY <3>2, <3>5 DEF Named
      <4>2. \A o : StillCalls(r, o, h)' <=> StillCalls(r, o, h)
        BY <3>1, <3>5
      <4>3. WillBeThere(r, h)' <=> WillBeThere(r, h)
        BY <4>1, <4>2 DEF WillBeThere
      <4> QED BY <2>1, <3>1, <3>2, <3>3, <3>4, <4>1, <4>3
    <3>6. CASE h = g
      <4>1. WillTouch(r, h)
        BY <1>7, <2>0, <3>1, <3>6 DEF WillTouch
      <4>2. \A q \in Requests \ {r} : ~WillTouch(q, h)
        BY <2>0, <4>1, OneTouches
      <4>3. \A q \in Requests \ {r} : ~WillTouch(q, h)'
        BY <1>1, <2>0, <3>2, <4>2
      <4>4. WillBeThere(r, h) <=> h \in req[r].ins
        BY <3>1, <3>3, <4>1 DEF RecordPlanned
      <4>5. WillBeThere(r, h)' <=> h \in req[r].ins
        <5>1. CASE op = "create"
          BY <3>1, <3>2, <3>6, <4>4, <5>1 DEF WillBeThere, Named
        <5>2. CASE op = "delete"
          BY <3>1, <3>2, <3>6, <4>4, <5>2 DEF WillBeThere, Named
        <5> QED BY <3>1, <5>1, <5>2
      <4> QED BY <3>1, <3>3, <3>4, <4>1, <4>3, <4>5, PlanOf
    <3> QED BY <3>5, <3>6
  <2>9. CASE Commit(r)
    <3>1. req[r].pc = "name" /\ req[r].dns = <<>> /\ req'[r] = Ended
      BY <2>9, Effects DEF Commit
    <3>2. req[r].kind # "delete" /\ (req[r].kind = "put" => req[r].of \in apps)
      BY <1>0, <2>00, <3>1 DEF RequestPlaced, OwnsRows
    <3>3. /\ has' = [v \in Values |-> IF v \in req[r].ins THEN req[r].of
                                      ELSE IF v \in req[r].rem THEN "-" ELSE has[v]]
          /\ UNCHANGED <<record, troubles>>
      BY <2>9, <3>2 DEF Commit
    <3>4. RecordPlanned(h) /\ Pending(r) = req[r].ins \cup req[r].rem
      BY <2>0, <2>2, <3>3 DEF Pending
    <3>5. CASE h \notin Pending(r)
      <4>1. has'[h] = has[h]
        BY <1>0, <3>3, <3>4, <3>5
      <4>2. ~WillTouch(r, h)
        BY <3>2, <3>5 DEF WillTouch
      <4> QED BY <2>1, <2>5, <3>1, <3>3, <3>4, <4>1, <4>2
    <3>6. CASE h \in Pending(r)
      <4>1. WillTouch(r, h)
        BY <2>0, <3>1, <3>6 DEF WillTouch
      <4>2. \A o : ~StillCalls(r, o, h)
        <5>1. Len(req[r].dns) = 0 /\ 1..0 = {}
          BY <3>1
        <5> QED BY <5>1 DEF StillCalls
      <4>3. h \in record <=> h \in req[r].ins
        BY <3>2, <3>4, <4>1, <4>2 DEF RecordPlanned, WillBeThere
      <4>4. h \in record' <=> has'[h] # "-"
        BY <1>0, <3>3, <3>4, <3>6, <4>3
      <4>5. ASSUME NEW q \in Requests \ {r} PROVE ~WillTouch(q, h)'
        <5>1. h \notin Pending(q)'
          BY <2>0, <3>6 DEF ValuesLocked
        <5>2. has'[h] = req[r].of \/ has'[h] = "-"
          BY <1>0, <3>3, <3>4, <3>6
        <5>3. Busy(q)' => req'[q].of # req[r].of /\ req'[q].of # "-"
          BY <1>0, <2>0, <2>00
        <5> QED BY <5>1, <5>2, <5>3 DEF WillTouch
      <4> QED BY <2>5, <3>1, <4>4, <4>5, PlanEnds
    <3> QED BY <3>5, <3>6
  <2>10. CASE Unname(r)
    <3>0. req[r].pc = "unname" /\ has' = has
      BY <2>10 DEF Unname
    <3>1. req[r].kind = "delete" /\ h \notin Pending(r)
      BY <1>0, <3>0 DEF RequestPlaced, Pending
    <3>2. CASE /\ req[r].drops = {} /\ UNCHANGED <<record, troubles>> /\ Same(req'[r], req[r])
               /\ IsNow(req'[r], "destroy", req[r].adds, req[r].ins, req[r].rem, req[r].drops, req[r].dns)
      <4>1. /\ req'[r].pc = "destroy" /\ req'[r].ins = req[r].ins /\ req'[r].drops = req[r].drops
            /\ req'[r].dns = req[r].dns /\ req'[r].kind = req[r].kind /\ req'[r].of = req[r].of
        BY <3>2 DEF Same, IsNow
      <4>2. WillTouch(r, h)' <=> WillTouch(r, h)
        BY <2>0, <3>0, <3>1, <4>1 DEF WillTouch, Busy
      <4>3. WillBeThere(r, h)' <=> WillBeThere(r, h)
        BY <3>2, <4>1 DEF WillBeThere, StillCalls
      <4> QED BY <2>1, <2>2, <3>0, <3>2, <4>1, <4>2, <4>3
    <3>3. ASSUME NEW g \in req[r].drops, Same(req'[r], req[r]),
                 IsNow(req'[r], req[r].pc, req[r].adds, req[r].ins, req[r].rem, req[r].drops \ {g}, req[r].dns),
                 \/ record' = Named("delete", g) /\ UNCHANGED troubles
                 \/ Trouble /\ UNCHANGED record
          PROVE  RecordPlanned(h)'
      <4>0. record' = record \ {g} /\ troubles' = troubles
        BY <3>3 DEF Named, Trouble, ServicesTypeOK
      <4>1. /\ req'[r].pc = "unname" /\ req'[r].ins = req[r].ins /\ req'[r].drops = req[r].drops \ {g}
            /\ req'[r].dns = req[r].dns /\ req'[r].kind = req[r].kind /\ req'[r].of = req[r].of
        BY <3>0, <3>3 DEF Same, IsNow
      <4>2. CASE h # g
        <5>1. WillTouch(r, h)' <=> WillTouch(r, h)
          BY <2>0, <3>0, <3>1, <4>1, <4>2 DEF WillTouch, Busy
        <5>2. h \in record' <=> h \in record
          BY <4>0, <4>2
        <5>3. WillBeThere(r, h)' <=> WillBeThere(r, h)
          BY <4>1, <5>2 DEF WillBeThere, StillCalls
        <5> QED BY <2>1, <2>2, <3>0, <4>0, <4>1, <5>1, <5>2, <5>3
      <4>3. CASE h = g
        <5>1. has[h] = req[r].of
          BY <2>00, <3>1, <3>3, <4>3 DEF OwnsRows
        <5>2. WillTouch(r, h)'
          BY <3>0, <3>1, <4>1, <4>3, <5>1 DEF WillTouch, Busy
        <5>3. ASSUME NEW q \in Requests \ {r} PROVE ~WillTouch(q, h)'
          <6>1. Busy(q) => req[q].of # req[r].of /\ OwnsRows(q) /\ req[r].of # "-"
            BY <1>0, <2>0, <2>00 DEF RowsOwned
          <6>2. Busy(q) => h \notin Pending(q)
            <7>1. ASSUME Busy(q) PROVE h \notin req[q].ins \cup req[q].rem
              BY <5>1, <6>1, <7>1 DEF OwnsRows
            <7> QED BY <7>1 DEF Pending
          <6>3. Busy(q)' => h \notin Pending(q)' /\ has'[h] # req'[q].of
            BY <2>0, <3>0, <5>1, <6>1, <6>2
          <6> QED BY <6>3 DEF WillTouch
        <5>4. h \notin record' /\ req'[r].kind = "delete"
          BY <3>1, <4>0, <4>1, <4>3
        <5> QED BY <5>2, <5>3, <5>4, PlanOf
      <4> QED BY <4>2, <4>3
    <3> QED BY <2>10, <3>2, <3>3, Effects
  <2>11. CASE Mismatch(r)
    <3>1. troubles' = troubles + 1 /\ troubles \in Nat
      BY <2>11 DEF Mismatch, Trouble, ServicesTypeOK
    <3> QED BY <3>1
  <2>12. CASE DestroyContainer(r)
    <3>0. req[r].pc = "destroy" /\ req'[r] = Ended
      BY <2>12, Effects DEF DestroyContainer
    <3>1. req[r].kind = "delete" /\ req[r].drops = {} /\ h \notin Pending(r)
      BY <1>0, <3>0 DEF RequestPlaced, Pending
    <3>2. /\ has' = [v \in Values |-> IF has[v] = req[r].of THEN "-" ELSE has[v]]
          /\ UNCHANGED <<record, troubles>>
      BY <2>12 DEF DestroyContainer
    <3>3. RecordPlanned(h)
      BY <2>2, <3>2
    <3>4. CASE has[h] # req[r].of
      <4>1. ~WillTouch(r, h)
        BY <3>1, <3>4 DEF WillTouch
      <4>2. has'[h] = has[h]
        BY <1>0, <3>2, <3>4
      <4> QED BY <2>1, <2>5, <3>0, <3>2, <3>3, <4>1, <4>2
    <3>5. CASE has[h] = req[r].of
      <4>1. WillTouch(r, h)
        BY <2>0, <3>1, <3>5 DEF WillTouch
      <4>2. h \notin record
        BY <3>1, <3>3, <4>1 DEF RecordPlanned
      <4>3. has'[h] = "-" /\ h \notin record'
        BY <1>0, <3>2, <3>5, <4>2
      <4>4. \A q \in Requests \ {r} : ~WillTouch(q, h)
        BY <2>0, <4>1, OneTouches
      <4>5. ASSUME NEW q \in Requests \ {r} PROVE ~WillTouch(q, h)'
        <5>1. ~(Busy(q)' /\ req'[q].pc = "name" /\ h \in Pending(q)')
          BY <2>0, <4>4 DEF WillTouch
        <5>2. has'[h] # req'[q].of
          BY <1>0, <2>0, <4>3
        <5> QED BY <5>1, <5>2 DEF WillTouch
      <4> QED BY <2>5, <3>0, <4>3, <4>5, PlanEnds
    <3> QED BY <3>4, <3>5
  <2> QED BY <1>5, <2>6, <2>7, <2>8, <2>9, <2>10, <2>11, <2>12 DEF Goes
<1>6. CASE UNCHANGED serviceVars
  <2>1. RecordPlanned(h)
    BY <1>6, <1>7 DEF serviceVars, RecordsPlanned
  <2> QED BY <1>6, <2>1 DEF serviceVars, RecordPlanned, WillTouch, WillBeThere, StillCalls, Pending, Busy
<1> QED BY <1>4, <1>5, <1>6 DEF ServicesNext, Goes

LEMMA ServicesInvStep == ServicesInv /\ [ServicesNext]_serviceVars => ServicesInv'
<1> SUFFICES ASSUME ServicesInv, [ServicesNext]_serviceVars PROVE ServicesInv'
  OBVIOUS
<1>1. /\ ServicesTypeOK /\ RequestsPlaced /\ ValuesLocked /\ RequestsAlone /\ RequestsAsk /\ AloneUndisturbed
      /\ DropsAreForRows /\ CallsAreForRows /\ RowsOwned
  BY DEF ServicesInv
<1>2. ServicesTypeOK'
  BY <1>1, ServicesTypeStep
<1> QED
  BY <1>1, <1>2, PlacedStep, LockedStep, AloneStep, AskStep, UndisturbedStep, CauseStep, DropsStep, CallsStep, OwnedStep,
     PlannedStep DEF ServicesInv

LEMMA ServicesInvMeans == ServicesInv => ServicesHold
<1> SUFFICES ASSUME ServicesInv PROVE ServicesHold
  OBVIOUS
<1>1. ASSUME \A r \in Requests : ~Busy(r), troubles = 0, ~tangled, NEW h \in Hosts \ stray
      PROVE  h \in record <=> has[h] # "-"
  <2>1. RecordPlanned(h)
    BY <1>1 DEF ServicesInv, RecordsPlanned
  <2> QED BY <1>1, <2>1 DEF RecordPlanned, WillTouch
<1> QED BY <1>1 DEF ServicesHold, RecordsFollowServices, ServicesInv

\* Whatever requests are made and however they overlap, the A records are those of the services
\* when none is under way, but for overlaps on one container, calls that fail, and hostnames
\* of other containers' services that a PUT has marked as deleted (the PUT and DELETE of
\* routers/api/v1/containers.js); and a request that met no other was refused for what it asked.
THEOREM ServicesAgree == ServicesSpec => []ServicesHold
<1>1. ServicesInit => ServicesInv
  BY ServicesInvInit
<1>2. ServicesInv /\ [ServicesNext]_serviceVars => ServicesInv'
  BY ServicesInvStep
<1>3. ServicesInv => ServicesHold
  BY ServicesInvMeans
<1> QED BY <1>1, <1>2, <1>3, PTL DEF ServicesSpec

===============================================================================
