------------------------- MODULE PeripheralsProofs -------------------------
(***************************************************************************)
(* What holds of the speaker, the camera and the privacy switch for every  *)
(* set of scenes, every kind of switch and every bound on the events.      *)
(*                                                                         *)
(* The types are proved in parts, one lemma each.  They hold together with *)
(* BeforeTypes: a preference is kept aside exactly while its lock is in    *)
(* force, so that no lock can end with nothing to go back to.  On them     *)
(* rest the invariants of the wake, of the camera and of the speaker.      *)
(***************************************************************************)
EXTENDS Peripherals, TLAPS

FlagTypes ==
  /\ muted \in BOOLEAN /\ disabled \in BOOLEAN /\ override \in BOOLEAN
  /\ running \in BOOLEAN /\ locked \in BOOLEAN /\ switch \in BOOLEAN
  /\ sleeping \in BOOLEAN /\ slept \in BOOLEAN /\ sleepDrain \in BOOLEAN
  /\ enroll \in BOOLEAN \cup {None} /\ snap \in {"no", "asked", "open", "kept"}

NoteTypes ==
  /\ wants \in [speaker : BOOLEAN, camera : BOOLEAN]
  /\ tangled \in BOOLEAN /\ torn \in BOOLEAN

BeforeTypes ==
  /\ before \in [speaker : BOOLEAN \cup {None}, camera : BOOLEAN \cup {None}]
  /\ IF SpeakerLocked THEN before.speaker \in BOOLEAN ELSE before.speaker = None
  /\ IF CameraLocked THEN before.camera \in BOOLEAN ELSE before.camera = None

FileTypes ==
  file \in [speaker : BOOLEAN, camera : BOOLEAN, override : BOOLEAN,
            sleeping : BOOLEAN, slept : BOOLEAN, scene : DOMAIN Scenes \cup {NoScene}]

SceneTypes ==
  /\ {scene, applying} \subseteq DOMAIN Scenes \cup {NoScene}
  /\ waiting \subseteq Drains /\ passed \subseteq Drains
  /\ pc["scene"] \in {"setCamera", "setSpeaker"} => applying \in DOMAIN Scenes

StageTypes ==
  pc \in [Threads -> {"idle", "wake", "sceneOff", "restore", "camera", "doze", "drain",
                      "setCamera", "setSpeaker", "unmute", "unlock", "sync"}]

EventTypes == events \in 0 .. MaxEvents

TypeInv ==
  /\ FlagTypes /\ NoteTypes /\ BeforeTypes /\ FileTypes
  /\ SceneTypes /\ StageTypes /\ EventTypes

-----------------------------------------------------------------------------
(* _auto_camera_off and _auto_camera_on leave flags, notes and files that  *)
(* are well-typed.                                                         *)
LEMMA AutoCameraTypes ==
  ASSUME TypeInv, NEW off \in BOOLEAN, AutoCamera(off)
  PROVE  /\ disabled' \in BOOLEAN /\ running' \in BOOLEAN /\ torn' \in BOOLEAN
         /\ wants' \in [speaker : BOOLEAN, camera : BOOLEAN]
         /\ FileTypes'
<1> USE DEF TypeInv, FlagTypes, NoteTypes, FileTypes
<1>1. CASE CameraLocked \/ override \/ disabled = off
  BY <1>1 DEF AutoCamera
<1>2. CASE ~(CameraLocked \/ override \/ disabled = off)
  <2>1. /\ disabled' = off /\ running' = ~off /\ torn' = (torn \/ snap = "open")
        /\ wants' = [wants EXCEPT !.camera = off]
        /\ file' = [file EXCEPT !.camera = off, !.override = override]
    BY <1>2 DEF AutoCamera, NoteCamera
  <2>2. disabled' \in BOOLEAN /\ running' \in BOOLEAN /\ torn' \in BOOLEAN
    BY <2>1
  <2>3. wants' \in [speaker : BOOLEAN, camera : BOOLEAN]
    BY <2>1
  <2>4. FileTypes'
    BY <2>1
  <2> QED BY <2>2, <2>3, <2>4
<1> QED BY <1>1, <1>2

(* The flags stay Boolean. *)
LEMMA FlagStep == TypeInv /\ [Next]_vars => FlagTypes'
<1> SUFFICES ASSUME TypeInv, [Next]_vars PROVE FlagTypes'
  OBVIOUS
<1> USE PeripheralConstants DEF PeripheralConstants, TypeInv, FlagTypes, device, mood, aside
<1>1. CASE MuteSpeaker
  BY <1>1 DEF MuteSpeaker
<1>2. CASE UnmuteSpeaker
  BY <1>2 DEF UnmuteSpeaker
<1>3. CASE DisableCamera
  BY <1>3 DEF DisableCamera
<1>4. CASE EnableCamera
  BY <1>4 DEF EnableCamera
<1>5. CASE FeelAwake
  BY <1>5 DEF FeelAwake, Rouse
<1>6. CASE FeelSleepy
  BY <1>6 DEF FeelSleepy
<1>7. CASE DozeCamera
  <2>1. AutoCamera(TRUE)
    BY <1>7 DEF DozeCamera
  <2> QED BY <1>7, <2>1, AutoCameraTypes DEF DozeCamera
<1>8. CASE DozeSpeaker
  BY <1>8 DEF DozeSpeaker
<1>9. CASE SceneCamera
  <2>1. AutoCamera(Scenes[applying] = "off")
    BY <1>9 DEF SceneCamera
  <2> QED BY <1>9, <2>1, AutoCameraTypes DEF SceneCamera
<1>10. CASE SceneUnmutes
  BY <1>10 DEF SceneUnmutes
<1>11. ASSUME NEW t \in Threads, Wake(t) PROVE FlagTypes'
  BY <1>11 DEF Wake
<1>12. ASSUME NEW t \in Threads, EmotionCamera(t) PROVE FlagTypes'
  <2>1. AutoCamera(FALSE)
    BY <1>12 DEF EmotionCamera
  <2> QED BY <1>12, <2>1, AutoCameraTypes DEF EmotionCamera
<1>13. ASSUME NEW t \in Threads, RestoreScene(t) PROVE FlagTypes'
  BY <1>13 DEF RestoreScene
<1>14. ASSUME NEW d \in Drains, DrainCommits(d) PROVE FlagTypes'
  <2>1. CASE StillWanted(d) /\ ~muted
    BY <1>14, <2>1 DEF DrainCommits
  <2>2. CASE ~(StillWanted(d) /\ ~muted)
    BY <1>14, <2>2 DEF DrainCommits
  <2> QED BY <2>1, <2>2
<1>15. CASE Flip
  BY <1>15 DEF Flip
<1>16. CASE SwitchLocks
  BY <1>16 DEF SwitchLocks, Lock
<1>17. CASE SwitchWakes
  BY <1>17 DEF SwitchWakes, Rouse
<1>18. CASE SwitchUnlocks
  BY <1>18 DEF SwitchUnlocks, Unlock, BeforeTypes
<1>19. CASE Enroll
  BY <1>19 DEF Enroll
<1>20. CASE EnrollEnds
  BY <1>20 DEF EnrollEnds
<1>21. CASE Snapshot
  BY <1>21 DEF Snapshot
<1>22. CASE SnapshotOpens
  BY <1>22 DEF SnapshotOpens, StartCamera
<1>23. CASE SnapshotEnds
  BY <1>23 DEF SnapshotEnds
<1>24. CASE Restart
  BY <1>24 DEF Restart, BeforeTypes, FileTypes
<1>25. CASE FirstSync
  <2>1. CASE switch
    BY <1>25, <2>1 DEF FirstSync, Lock
  <2>2. CASE ~switch
    <3>1. Unlock /\ override' = override
      BY <1>25, <2>2 DEF FirstSync
    <3>2. /\ before.speaker \in BOOLEAN \cup {None}
          /\ before.camera \in BOOLEAN \cup {None}
      BY DEF BeforeTypes
    <3>3. muted' \in BOOLEAN /\ disabled' \in BOOLEAN /\ running' \in BOOLEAN
      BY <3>1, <3>2 DEF Unlock
    <3>4. UNCHANGED <<switch, sleeping, slept, sleepDrain, enroll, snap>>
      BY <1>25 DEF FirstSync
    <3> QED BY <3>1, <3>3, <3>4 DEF Unlock
  <2> QED BY <2>1, <2>2
<1>26. CASE ActivateScene \/ SceneSpeaker \/ SceneOff \/ SceneReturns
  BY <1>26 DEF ActivateScene, SceneSpeaker, SceneOff, SceneReturns
<1>27. ASSUME NEW t \in Threads, LeaveScene(t) PROVE FlagTypes'
  BY <1>27 DEF LeaveScene
<1>28. ASSUME NEW d \in Drains, DrainPasses(d) PROVE FlagTypes'
  BY <1>28 DEF DrainPasses
<1>29. CASE UNCHANGED vars
  BY <1>29 DEF vars
<1> QED BY <1>1, <1>2, <1>3, <1>4, <1>5, <1>6, <1>7, <1>8, <1>9, <1>10, <1>11,
       <1>12, <1>13, <1>14, <1>15, <1>16, <1>17, <1>18, <1>19, <1>20, <1>21, <1>22,
       <1>23, <1>24, <1>25, <1>26, <1>27, <1>28, <1>29 DEF Next

(* The notes are well-typed. *)
LEMMA NoteStep == TypeInv /\ [Next]_vars => NoteTypes'
<1> SUFFICES ASSUME TypeInv, [Next]_vars PROVE NoteTypes'
  OBVIOUS
<1> USE DEF TypeInv, NoteTypes, ghosts
<1>1. CASE MuteSpeaker
  BY <1>1 DEF MuteSpeaker, NoteSpeaker
<1>2. CASE UnmuteSpeaker
  BY <1>2 DEF UnmuteSpeaker, NoteSpeaker
<1>3. CASE DisableCamera
  BY <1>3 DEF DisableCamera, NoteCamera, FlagTypes
<1>4. CASE EnableCamera
  BY <1>4 DEF EnableCamera, NoteCamera, FlagTypes
<1>5. CASE DozeCamera
  <2>1. AutoCamera(TRUE)
    BY <1>5 DEF DozeCamera
  <2> QED BY <1>5, <2>1, AutoCameraTypes DEF DozeCamera
<1>6. CASE SceneCamera
  <2>1. AutoCamera(Scenes[applying] = "off")
    BY <1>6 DEF SceneCamera
  <2> QED BY <1>6, <2>1, AutoCameraTypes DEF SceneCamera
<1>7. CASE SceneUnmutes
  BY <1>7 DEF SceneUnmutes
<1>8. ASSUME NEW t \in Threads, Wake(t) PROVE NoteTypes'
  BY <1>8 DEF Wake, NoteSpeaker
<1>9. ASSUME NEW t \in Threads, EmotionCamera(t) PROVE NoteTypes'
  <2>1. AutoCamera(FALSE)
    BY <1>9 DEF EmotionCamera
  <2> QED BY <1>9, <2>1, AutoCameraTypes DEF EmotionCamera
<1>10. ASSUME NEW t \in Threads, RestoreScene(t) PROVE NoteTypes'
  BY <1>10 DEF RestoreScene, NoteSpeaker, NoteCamera
<1>11. ASSUME NEW d \in Drains, DrainCommits(d) PROVE NoteTypes'
  BY <1>11 DEF DrainCommits, NoteSpeaker
<1>12. CASE SwitchLocks
  BY <1>12 DEF SwitchLocks, NoteSpeaker, NoteCamera
<1>13. CASE SwitchUnlocks
  BY <1>13 DEF SwitchUnlocks, NoteSpeaker, NoteCamera
<1>14. CASE Restart
  BY <1>14 DEF Restart
<1>15. CASE FeelAwake \/ FeelSleepy \/ DozeSpeaker \/ ActivateScene \/ SceneSpeaker \/ SceneOff
  BY <1>15 DEF FeelAwake, FeelSleepy, DozeSpeaker, ActivateScene, SceneSpeaker, SceneOff,
     Rouse
<1>16. CASE Flip \/ SwitchWakes \/ Enroll \/ EnrollEnds \/ Snapshot \/ SnapshotOpens
  BY <1>16 DEF Flip, SwitchWakes, Enroll, EnrollEnds, Snapshot, SnapshotOpens, Rouse
<1>17. CASE SnapshotEnds \/ FirstSync \/ SceneReturns
  BY <1>17 DEF SnapshotEnds, FirstSync, SceneReturns
<1>18. ASSUME NEW t \in Threads, LeaveScene(t) PROVE NoteTypes'
  BY <1>18 DEF LeaveScene
<1>19. ASSUME NEW d \in Drains, DrainPasses(d) PROVE NoteTypes'
  BY <1>19 DEF DrainPasses
<1>20. CASE UNCHANGED vars
  BY <1>20 DEF vars
<1> QED BY <1>1, <1>2, <1>3, <1>4, <1>5, <1>6, <1>7, <1>8, <1>9, <1>10, <1>11,
       <1>12, <1>13, <1>14, <1>15, <1>16, <1>17, <1>18, <1>19, <1>20 DEF Next

(* A preference is kept aside exactly while its lock is in force. *)
LEMMA BeforeStep == TypeInv /\ [Next]_vars => BeforeTypes'
<1> SUFFICES ASSUME TypeInv, [Next]_vars PROVE BeforeTypes'
  OBVIOUS
<1> USE PeripheralConstants DEF PeripheralConstants, TypeInv, BeforeTypes, FlagTypes,
        SpeakerLocked, CameraLocked, device, mood, aside
<1>1. CASE MuteSpeaker
  BY <1>1 DEF MuteSpeaker
<1>2. CASE UnmuteSpeaker
  BY <1>2 DEF UnmuteSpeaker
<1>3. CASE DisableCamera
  BY <1>3 DEF DisableCamera
<1>4. CASE SceneUnmutes
  BY <1>4 DEF SceneUnmutes
<1>5. ASSUME NEW t \in Threads, Wake(t) PROVE BeforeTypes'
  BY <1>5 DEF Wake
<1>6. ASSUME NEW t \in Threads, RestoreScene(t) PROVE BeforeTypes'
  BY <1>6 DEF RestoreScene
<1>7. CASE SwitchLocks
  BY <1>7 DEF SwitchLocks, Lock
<1>8. CASE SwitchUnlocks
  BY <1>8 DEF SwitchUnlocks, Unlock
<1>9. CASE Restart
  BY <1>9 DEF Restart, FileTypes
<1>10. CASE FirstSync
  BY <1>10 DEF FirstSync, Lock, Unlock
<1>11. CASE EnableCamera \/ FeelAwake \/ FeelSleepy \/ DozeCamera \/ DozeSpeaker \/ ActivateScene
  BY <1>11 DEF EnableCamera, FeelAwake, FeelSleepy, DozeCamera, DozeSpeaker,
     ActivateScene, Rouse, AutoCamera
<1>12. CASE SceneCamera \/ SceneSpeaker \/ SceneOff \/ Flip \/ SwitchWakes \/ Enroll
  BY <1>12 DEF SceneCamera, SceneSpeaker, SceneOff, Flip, SwitchWakes, Enroll, AutoCamera,
     Rouse
<1>13. CASE EnrollEnds \/ Snapshot \/ SnapshotOpens \/ SnapshotEnds \/ SceneReturns
  BY <1>13 DEF EnrollEnds, Snapshot, SnapshotOpens, SnapshotEnds, SceneReturns
<1>14. ASSUME NEW t \in Threads, EmotionCamera(t) \/ LeaveScene(t) PROVE BeforeTypes'
  BY <1>14 DEF EmotionCamera, LeaveScene, AutoCamera
<1>15. ASSUME NEW d \in Drains, DrainPasses(d) \/ DrainCommits(d) PROVE BeforeTypes'
  BY <1>15 DEF DrainPasses, DrainCommits
<1>16. CASE UNCHANGED vars
  BY <1>16 DEF vars
<1> QED BY <1>1, <1>2, <1>3, <1>4, <1>5, <1>6, <1>7, <1>8, <1>9, <1>10, <1>11,
       <1>12, <1>13, <1>14, <1>15, <1>16 DEF Next

(* The files are well-typed. *)
LEMMA FileStep == TypeInv /\ [Next]_vars => FileTypes'
<1> SUFFICES ASSUME TypeInv, [Next]_vars PROVE FileTypes'
  OBVIOUS
<1>a. FlagTypes' /\ BeforeTypes'
  BY FlagStep, BeforeStep
<1> USE PeripheralConstants DEF PeripheralConstants, TypeInv, FileTypes, BeforeTypes,
        FlagTypes, SpeakerLocked, CameraLocked
<1>1. CASE MuteSpeaker
  BY <1>1 DEF MuteSpeaker
<1>2. CASE UnmuteSpeaker
  BY <1>2 DEF UnmuteSpeaker, SaveSpeaker
<1>3. CASE DisableCamera
  BY <1>3 DEF DisableCamera
<1>4. CASE EnableCamera
  BY <1>4 DEF EnableCamera
<1>5. CASE FeelAwake
  BY <1>5 DEF FeelAwake, Rouse
<1>6. CASE FeelSleepy
  BY <1>6 DEF FeelSleepy
<1>7. CASE DozeCamera
  <2>1. AutoCamera(TRUE)
    BY <1>7 DEF DozeCamera
  <2> QED BY <1>7, <2>1, AutoCameraTypes DEF DozeCamera
<1>8. CASE ActivateScene
  BY <1>8 DEF ActivateScene, SceneTypes
<1>9. CASE SceneCamera
  <2>1. AutoCamera(Scenes[applying] = "off")
    BY <1>9 DEF SceneCamera
  <2> QED BY <1>9, <2>1, AutoCameraTypes DEF SceneCamera
<1>10. CASE SceneUnmutes
  BY <1>10 DEF SceneUnmutes, SaveSpeaker
<1>11. ASSUME NEW t \in Threads, Wake(t) PROVE FileTypes'
  BY <1>11 DEF Wake
<1>12. ASSUME NEW t \in Threads, EmotionCamera(t) PROVE FileTypes'
  <2>1. AutoCamera(FALSE)
    BY <1>12 DEF EmotionCamera
  <2> QED BY <1>12, <2>1, AutoCameraTypes DEF EmotionCamera
<1>13. ASSUME NEW t \in Threads, LeaveScene(t) PROVE FileTypes'
  BY <1>13 DEF LeaveScene
<1>14. ASSUME NEW t \in Threads, RestoreScene(t) PROVE FileTypes'
  BY <1>14 DEF RestoreScene
<1>15. ASSUME NEW d \in Drains, DrainCommits(d) PROVE FileTypes'
  BY <1>15 DEF DrainCommits
<1>16. CASE SwitchLocks
  <2>1. SaveBoth
    BY <1>16 DEF SwitchLocks
  <2> QED BY <2>1, <1>a DEF SaveBoth, FlagTypes, BeforeTypes, SpeakerLocked, CameraLocked
<1>17. CASE SwitchWakes
  BY <1>17 DEF SwitchWakes, Rouse
<1>18. CASE SwitchUnlocks
  <2>1. SaveBoth
    BY <1>18 DEF SwitchUnlocks
  <2> QED BY <2>1, <1>a DEF SaveBoth, FlagTypes, BeforeTypes, SpeakerLocked, CameraLocked
<1>19. CASE Restart
  <2>1. SaveBoth
    BY <1>19 DEF Restart
  <2> QED BY <2>1, <1>a DEF SaveBoth, FlagTypes, BeforeTypes, SpeakerLocked, CameraLocked
<1>20. CASE FirstSync
  <2>1. SaveBoth
    BY <1>20 DEF FirstSync
  <2> QED BY <2>1, <1>a DEF SaveBoth, FlagTypes, BeforeTypes, SpeakerLocked, CameraLocked
<1>21. CASE DozeSpeaker \/ SceneSpeaker \/ SceneOff \/ Flip \/ Enroll \/ EnrollEnds
  BY <1>21 DEF DozeSpeaker, SceneSpeaker, SceneOff, Flip, Enroll, EnrollEnds
<1>22. CASE Snapshot \/ SnapshotOpens \/ SnapshotEnds \/ SceneReturns
  BY <1>22 DEF Snapshot, SnapshotOpens, SnapshotEnds, SceneReturns
<1>23. ASSUME NEW d \in Drains, DrainPasses(d) PROVE FileTypes'
  BY <1>23 DEF DrainPasses
<1>24. CASE UNCHANGED vars
  BY <1>24 DEF vars
<1> QED BY <1>1, <1>2, <1>3, <1>4, <1>5, <1>6, <1>7, <1>8, <1>9, <1>10, <1>11,
       <1>12, <1>13, <1>14, <1>15, <1>16, <1>17, <1>18, <1>19, <1>20, <1>21, <1>22,
       <1>23, <1>24 DEF Next

(* Scenes and drains are well-typed; activate_scene has a scene at hand. *)
LEMMA SceneStep == TypeInv /\ [Next]_vars => SceneTypes'
<1> SUFFICES ASSUME TypeInv, [Next]_vars PROVE SceneTypes'
  OBVIOUS
<1> USE PeripheralConstants DEF PeripheralConstants, TypeInv, SceneTypes, StageTypes,
        Threads, device, mood, aside
<1>1. CASE UnmuteSpeaker
  BY <1>1 DEF UnmuteSpeaker
<1>2. CASE FeelAwake
  BY <1>2 DEF FeelAwake, Rouse, Goto
<1>3. CASE FeelSleepy
  BY <1>3 DEF FeelSleepy, Goto
<1>4. CASE DozeCamera
  BY <1>4 DEF DozeCamera, Goto
<1>5. CASE DozeSpeaker
  BY <1>5 DEF DozeSpeaker, Drains, Goto
<1>6. CASE ActivateScene
  BY <1>6 DEF ActivateScene, Goto
<1>7. CASE SceneCamera
  BY <1>7 DEF SceneCamera, Goto
<1>8. CASE SceneSpeaker
  BY <1>8 DEF SceneSpeaker, SceneDrain, Drains, Goto
<1>9. CASE SceneUnmutes
  BY <1>9 DEF SceneUnmutes, Goto
<1>10. CASE SceneOff
  BY <1>10 DEF SceneOff, Goto
<1>11. ASSUME NEW t \in Threads, Wake(t) PROVE SceneTypes'
  BY <1>11 DEF Wake, Goto
<1>12. ASSUME NEW t \in Threads, EmotionCamera(t) PROVE SceneTypes'
  BY <1>12 DEF EmotionCamera, Goto
<1>13. ASSUME NEW t \in Threads, LeaveScene(t) PROVE SceneTypes'
  BY <1>13 DEF LeaveScene, Goto
<1>14. ASSUME NEW t \in Threads, RestoreScene(t) PROVE SceneTypes'
  BY <1>14 DEF RestoreScene, Goto
<1>15. ASSUME NEW d \in Drains, DrainPasses(d) PROVE SceneTypes'
  BY <1>15 DEF DrainPasses
<1>16. ASSUME NEW d \in Drains, DrainCommits(d) PROVE SceneTypes'
  BY <1>16 DEF DrainCommits
<1>17. CASE SwitchWakes
  BY <1>17 DEF SwitchWakes, Rouse, Goto
<1>18. CASE SwitchUnlocks
  BY <1>18 DEF SwitchUnlocks, Goto
<1>19. CASE Restart
  BY <1>19 DEF Restart, FileTypes
<1>20. CASE FirstSync
  BY <1>20 DEF FirstSync, Goto
<1>21. CASE SceneReturns
  BY <1>21 DEF SceneReturns, FileTypes, Goto
<1>22. CASE MuteSpeaker \/ DisableCamera \/ EnableCamera \/ Flip \/ SwitchLocks \/ Enroll
  BY <1>22 DEF MuteSpeaker, DisableCamera, EnableCamera, Flip, SwitchLocks, Enroll
<1>23. CASE EnrollEnds \/ Snapshot \/ SnapshotOpens \/ SnapshotEnds
  BY <1>23 DEF EnrollEnds, Snapshot, SnapshotOpens, SnapshotEnds
<1>24. CASE UNCHANGED vars
  BY <1>24 DEF vars
<1> QED BY <1>1, <1>2, <1>3, <1>4, <1>5, <1>6, <1>7, <1>8, <1>9, <1>10, <1>11,
       <1>12, <1>13, <1>14, <1>15, <1>16, <1>17, <1>18, <1>19, <1>20, <1>21, <1>22,
       <1>23, <1>24 DEF Next

(* The stages of the handlers. *)
LEMMA StageStep == TypeInv /\ [Next]_vars => StageTypes'
<1> SUFFICES ASSUME TypeInv, [Next]_vars PROVE StageTypes'
  OBVIOUS
<1> USE DEF TypeInv, StageTypes, Threads, device, mood, aside
<1>1. CASE FeelAwake
  BY <1>1 DEF FeelAwake, Rouse, Goto
<1>2. CASE FeelSleepy
  BY <1>2 DEF FeelSleepy, Goto
<1>3. CASE DozeCamera
  BY <1>3 DEF DozeCamera, Goto
<1>4. CASE DozeSpeaker
  BY <1>4 DEF DozeSpeaker, Goto
<1>5. CASE ActivateScene
  BY <1>5 DEF ActivateScene, Goto
<1>6. CASE SceneCamera
  BY <1>6 DEF SceneCamera, Goto
<1>7. CASE SceneSpeaker
  BY <1>7 DEF SceneSpeaker, Goto
<1>8. CASE SceneUnmutes
  BY <1>8 DEF SceneUnmutes, Goto
<1>9. CASE SceneOff
  BY <1>9 DEF SceneOff, Goto
<1>10. ASSUME NEW t \in Threads, Wake(t) PROVE StageTypes'
  BY <1>10 DEF Wake, Goto
<1>11. ASSUME NEW t \in Threads, EmotionCamera(t) PROVE StageTypes'
  BY <1>11 DEF EmotionCamera, Goto
<1>12. ASSUME NEW t \in Threads, LeaveScene(t) PROVE StageTypes'
  BY <1>12 DEF LeaveScene, Goto
<1>13. ASSUME NEW t \in Threads, RestoreScene(t) PROVE StageTypes'
  BY <1>13 DEF RestoreScene, Goto
<1>14. CASE SwitchWakes
  BY <1>14 DEF SwitchWakes, Rouse, Goto
<1>15. CASE SwitchUnlocks
  BY <1>15 DEF SwitchUnlocks, Goto
<1>16. CASE Restart
  BY <1>16 DEF Restart
<1>17. CASE FirstSync
  BY <1>17 DEF FirstSync, Goto
<1>18. CASE SceneReturns
  BY <1>18 DEF SceneReturns, Goto
<1>19. CASE MuteSpeaker \/ UnmuteSpeaker \/ DisableCamera \/ EnableCamera \/ Flip \/ SwitchLocks
  BY <1>19 DEF MuteSpeaker, UnmuteSpeaker, DisableCamera, EnableCamera, Flip, SwitchLocks
<1>20. CASE Enroll \/ EnrollEnds \/ Snapshot \/ SnapshotOpens \/ SnapshotEnds
  BY <1>20 DEF Enroll, EnrollEnds, Snapshot, SnapshotOpens, SnapshotEnds
<1>21. ASSUME NEW d \in Drains, DrainPasses(d) \/ DrainCommits(d) PROVE StageTypes'
  BY <1>21 DEF DrainPasses, DrainCommits
<1>22. CASE UNCHANGED vars
  BY <1>22 DEF vars
<1> QED BY <1>1, <1>2, <1>3, <1>4, <1>5, <1>6, <1>7, <1>8, <1>9, <1>10, <1>11, <1>12,
           <1>13, <1>14, <1>15, <1>16, <1>17, <1>18, <1>19, <1>20, <1>21, <1>22 DEF Next

(* The bound on the events. *)
LEMMA EventStep == TypeInv /\ [Next]_vars => EventTypes'
<1> SUFFICES ASSUME TypeInv, [Next]_vars PROVE EventTypes'
  OBVIOUS
<1> USE PeripheralConstants DEF PeripheralConstants, TypeInv, EventTypes
<1>1. CASE MuteSpeaker
  BY <1>1 DEF MuteSpeaker, CountEvent
<1>2. CASE UnmuteSpeaker
  BY <1>2 DEF UnmuteSpeaker, CountEvent
<1>3. CASE DisableCamera
  BY <1>3 DEF DisableCamera, CountEvent
<1>4. CASE EnableCamera
  BY <1>4 DEF EnableCamera, CountEvent
<1>5. CASE FeelAwake
  BY <1>5 DEF FeelAwake, CountEvent
<1>6. CASE FeelSleepy
  BY <1>6 DEF FeelSleepy, CountEvent
<1>7. CASE ActivateScene
  BY <1>7 DEF ActivateScene, CountEvent
<1>8. CASE SceneOff
  BY <1>8 DEF SceneOff, CountEvent
<1>9. CASE Flip
  BY <1>9 DEF Flip, CountEvent
<1>10. CASE Enroll
  BY <1>10 DEF Enroll, CountEvent
<1>11. CASE Snapshot
  BY <1>11 DEF Snapshot, CountEvent
<1>12. CASE Restart
  BY <1>12 DEF Restart, CountEvent
<1>13. CASE DozeCamera \/ DozeSpeaker \/ SceneCamera \/ SceneSpeaker \/ SceneUnmutes \/ SwitchLocks
  BY <1>13 DEF DozeCamera, DozeSpeaker, SceneCamera, SceneSpeaker, SceneUnmutes,
     SwitchLocks
<1>14. CASE SwitchWakes \/ SwitchUnlocks \/ EnrollEnds \/ SnapshotOpens \/ SnapshotEnds \/ FirstSync
  BY <1>14 DEF SwitchWakes, SwitchUnlocks, EnrollEnds, SnapshotOpens, SnapshotEnds,
     FirstSync, Rouse
<1>15. CASE SceneReturns
  BY <1>15 DEF SceneReturns
<1>16. ASSUME NEW t \in Threads, Wake(t) \/ EmotionCamera(t) \/ LeaveScene(t) \/ RestoreScene(t) PROVE EventTypes'
  BY <1>16 DEF Wake, EmotionCamera, LeaveScene, RestoreScene
<1>17. ASSUME NEW d \in Drains, DrainPasses(d) \/ DrainCommits(d) PROVE EventTypes'
  BY <1>17 DEF DrainPasses, DrainCommits
<1>18. CASE UNCHANGED vars
  BY <1>18 DEF vars
<1> QED BY <1>1, <1>2, <1>3, <1>4, <1>5, <1>6, <1>7, <1>8, <1>9, <1>10, <1>11,
       <1>12, <1>13, <1>14, <1>15, <1>16, <1>17, <1>18 DEF Next

(* A restart at any moment, requests in any order: the state stays         *)
(* well-typed, and every lock has a preference to go back to.              *)
THEOREM TypeInvKept == Spec => []TypeInv
<1>1. Init => TypeInv
  <2> SUFFICES ASSUME Init PROVE TypeInv
    OBVIOUS
  <2> USE PeripheralConstants DEF PeripheralConstants, Init
  <2>1. FlagTypes /\ NoteTypes
    BY DEF FlagTypes, NoteTypes
  <2>2. BeforeTypes
    BY DEF BeforeTypes, SpeakerLocked, CameraLocked
  <2>3. FileTypes /\ EventTypes
    BY DEF FileTypes, EventTypes
  <2>4. SceneTypes /\ StageTypes
    BY DEF SceneTypes, StageTypes, Threads
  <2> QED BY <2>1, <2>2, <2>3, <2>4 DEF TypeInv
<1>2. TypeInv /\ [Next]_vars => TypeInv'
  BY FlagStep, NoteStep, BeforeStep, FileStep, SceneStep, StageStep, EventStep DEF TypeInv
<1> QED BY <1>1, <1>2, PTL DEF Spec

(* The type invariant of the run.                                          *)
THEOREM TypeOKKept == Spec => []TypeOK
<1>1. TypeInv => TypeOK
  BY DEF TypeInv, TypeOK, FlagTypes, NoteTypes, BeforeTypes, FileTypes, SceneTypes,
         StageTypes, EventTypes
<1> QED BY <1>1, TypeInvKept, PTL
-----------------------------------------------------------------------------
(* Wake is final (_mute_speaker_for_sleep looks again under the lock).     *)
(* No step of a handler or of a drain leaves sleep's mute behind an ended sleep. *)
LEMMA WakeStep == TypeInv /\ WakeIsFinal /\ [Next]_vars => WakeIsFinal'
<1> SUFFICES ASSUME TypeInv /\ WakeIsFinal, [Next]_vars PROVE WakeIsFinal'
  OBVIOUS
<1> USE DEF TypeInv, FlagTypes, FileTypes, StageTypes, Threads, WakeIsFinal, Waking, device,
        mood, aside
<1>1. CASE MuteSpeaker
  BY <1>1 DEF MuteSpeaker
<1>2. CASE FeelAwake
  BY <1>2 DEF FeelAwake, Rouse, Goto
<1>3. CASE FeelSleepy
  BY <1>3 DEF FeelSleepy, Goto
<1>4. CASE DozeCamera
  BY <1>4 DEF DozeCamera, Goto
<1>5. CASE DozeSpeaker
  BY <1>5 DEF DozeSpeaker, Goto
<1>6. CASE ActivateScene
  BY <1>6 DEF ActivateScene, Goto
<1>7. CASE SceneCamera
  BY <1>7 DEF SceneCamera, Goto
<1>8. CASE SceneSpeaker
  BY <1>8 DEF SceneSpeaker, Goto
<1>9. CASE SceneUnmutes
  BY <1>9 DEF SceneUnmutes, Goto
<1>10. CASE SceneOff
  BY <1>10 DEF SceneOff, Goto
<1>11. ASSUME NEW t \in Threads, Wake(t) PROVE WakeIsFinal'
  BY <1>11 DEF Wake, Goto
<1>12. ASSUME NEW t \in Threads, EmotionCamera(t) PROVE WakeIsFinal'
  BY <1>12 DEF EmotionCamera, Goto
<1>13. ASSUME NEW t \in Threads, LeaveScene(t) PROVE WakeIsFinal'
  BY <1>13 DEF LeaveScene, Goto
<1>14. ASSUME NEW t \in Threads, RestoreScene(t) PROVE WakeIsFinal'
  BY <1>14 DEF RestoreScene, Goto
<1>15. ASSUME NEW d \in Drains, DrainCommits(d) PROVE WakeIsFinal'
  BY <1>15 DEF DrainCommits, StillWanted, Drains
<1>16. CASE SwitchWakes
  BY <1>16 DEF SwitchWakes, Rouse, Goto
<1>17. CASE SwitchUnlocks
  BY <1>17 DEF SwitchUnlocks, Goto
<1>18. CASE Restart
  BY <1>18 DEF Restart
<1>19. CASE FirstSync
  BY <1>19 DEF FirstSync, Goto
<1>20. CASE SceneReturns
  BY <1>20 DEF SceneReturns, Goto
<1>21. CASE UnmuteSpeaker \/ DisableCamera \/ EnableCamera \/ Flip \/ SwitchLocks \/ Enroll
  BY <1>21 DEF UnmuteSpeaker, DisableCamera, EnableCamera, Flip, SwitchLocks, Enroll
<1>22. CASE EnrollEnds \/ Snapshot \/ SnapshotOpens \/ SnapshotEnds
  BY <1>22 DEF EnrollEnds, Snapshot, SnapshotOpens, SnapshotEnds
<1>23. ASSUME NEW d \in Drains, DrainPasses(d) PROVE WakeIsFinal'
  BY <1>23 DEF DrainPasses
<1>24. CASE UNCHANGED vars
  BY <1>24 DEF vars
<1> QED BY <1>1, <1>2, <1>3, <1>4, <1>5, <1>6, <1>7, <1>8, <1>9, <1>10, <1>11,
       <1>12, <1>13, <1>14, <1>15, <1>16, <1>17, <1>18, <1>19, <1>20, <1>21, <1>22,
       <1>23, <1>24 DEF Next

(* A device that is awake, and whose wake is done, is not muted by a drain *)
(* of the sleep before.                                                    *)
THEOREM WakeIsFinalAlways == Spec => []WakeIsFinal
<1>1. Init => WakeIsFinal
  BY DEF Init, WakeIsFinal
<1>2. TypeInv /\ WakeIsFinal /\ [Next]_vars => WakeIsFinal'
  BY WakeStep
<1> QED BY <1>1, <1>2, TypeInvKept, PTL DEF Spec

-----------------------------------------------------------------------------
(* The camera.  A snapshot that opened it found it disabled, unless the    *)
(* camera has changed hands since; until the first read of the pin the     *)
(* lock is in force and no snapshot is under way; and the file always      *)
(* holds what the camera goes back to.                                     *)

OpenedWasOff == ~torn /\ snap = "open" => disabled

SyncIsLocked == pc["button"] = "sync" => locked /\ (CameraLocks => snap = "no")

CameraSaved == file.camera = CameraPref /\ file.override = override

CameraBody ==
  /\ LockedCameraIsOff /\ (CameraLocked => disabled)
  /\ CameraFollowsFlag /\ OpenedWasOff /\ SyncIsLocked

CameraWord == CameraChoiceKept /\ CameraSaved

(* What _auto_camera_off and _auto_camera_on do, if anything.              *)
LEMMA AutoCameraEffect ==
  ASSUME TypeInv, NEW off \in BOOLEAN, AutoCamera(off)
  PROVE  \/ UNCHANGED <<disabled, running, file, wants, torn>>
         \/ /\ ~CameraLocked /\ ~override
            /\ disabled' = off /\ running' = ~off /\ torn' = (torn \/ snap = "open")
            /\ wants'.camera = off /\ file'.camera = off /\ file'.override = override
<1>1. CASE CameraLocked \/ override \/ disabled = off
  BY <1>1 DEF AutoCamera
<1>2. CASE ~(CameraLocked \/ override \/ disabled = off)
  <2>1. /\ disabled' = off /\ running' = ~off /\ torn' = (torn \/ snap = "open")
        /\ wants' = [wants EXCEPT !.camera = off]
        /\ file' = [file EXCEPT !.camera = off, !.override = override]
    BY <1>2 DEF AutoCamera, NoteCamera
  <2> QED BY <1>2, <2>1 DEF TypeInv, NoteTypes, FileTypes
<1> QED BY <1>1, <1>2

(* privacy.apply(False): the camera gets back what was kept aside for it.  *)
LEMMA UnlockEffect ==
  ASSUME TypeInv, CameraBody, Unlock
  PROVE  /\ locked' = FALSE /\ disabled' = CameraPref
         /\ running' = IF CameraLocked THEN ~disabled' ELSE running
<1> USE PeripheralConstants
    DEF PeripheralConstants, TypeInv, FlagTypes, BeforeTypes, CameraBody, LockedCameraIsOff,
        CameraPref, Unlock
<1>1. CASE CameraLocked
  BY <1>1
<1>2. CASE ~CameraLocked
  BY <1>2
<1> QED BY <1>1, <1>2

(* The capture loop through every step. *)
LEMMA BodyStep == TypeInv /\ CameraBody /\ [Next]_vars => CameraBody'
<1> SUFFICES ASSUME TypeInv /\ CameraBody, [Next]_vars PROVE CameraBody'
  OBVIOUS
<1> USE DEF TypeInv, FlagTypes, NoteTypes, BeforeTypes, FileTypes, StageTypes, Threads,
        CameraBody, LockedCameraIsOff, CameraFollowsFlag, OpenedWasOff, SyncIsLocked,
        CameraLocked, SpeakerLocked, device, mood, aside, ghosts
<1>1. CASE DisableCamera
  BY <1>1 DEF DisableCamera, NoteCamera
<1>2. CASE EnableCamera
  BY <1>2 DEF EnableCamera, NoteCamera
<1>3. CASE FeelAwake
  BY <1>3 DEF FeelAwake, Rouse, Goto
<1>4. CASE DozeCamera
  <2>1. AutoCamera(TRUE)
    BY <1>4 DEF DozeCamera
  <2> QED BY <1>4, <2>1, AutoCameraEffect DEF DozeCamera, Goto
<1>5. CASE SceneCamera
  <2>1. AutoCamera(Scenes[applying] = "off")
    BY <1>5 DEF SceneCamera
  <2> QED BY <1>5, <2>1, AutoCameraEffect DEF SceneCamera, Goto
<1>6. ASSUME NEW t \in Threads, Wake(t) PROVE CameraBody'
  BY <1>6 DEF Wake, Goto
<1>7. ASSUME NEW t \in Threads, EmotionCamera(t) PROVE CameraBody'
  <2>1. AutoCamera(FALSE)
    BY <1>7 DEF EmotionCamera
  <2> QED BY <1>7, <2>1, AutoCameraEffect DEF EmotionCamera, Goto
<1>8. ASSUME NEW t \in Threads, LeaveScene(t) PROVE CameraBody'
  BY <1>8 DEF LeaveScene, Goto
<1>9. ASSUME NEW t \in Threads, RestoreScene(t) PROVE CameraBody'
  BY <1>9 DEF RestoreScene, NoteCamera, Goto
<1>10. CASE SwitchLocks
  BY <1>10 DEF SwitchLocks, Lock, NoteCamera
<1>11. CASE SwitchWakes
  BY <1>11 DEF SwitchWakes, Rouse, Goto
<1>12. CASE SwitchUnlocks
  BY <1>12, UnlockEffect DEF SwitchUnlocks, NoteCamera, Goto, CameraPref
<1>13. CASE Snapshot
  BY <1>13 DEF Snapshot
<1>14. CASE SnapshotOpens
  BY <1>14 DEF SnapshotOpens, StartCamera
<1>15. CASE SnapshotEnds
  BY <1>15 DEF SnapshotEnds
<1>16. CASE Restart
  BY <1>16 DEF Restart
<1>17. CASE FirstSync
  <2>1. CASE switch
    BY <1>17, <2>1 DEF FirstSync, Lock, Goto, CameraPref
  <2>2. CASE ~switch
    BY <1>17, <2>2, UnlockEffect DEF FirstSync, Goto, CameraPref
  <2> QED BY <2>1, <2>2
<1>18. CASE MuteSpeaker \/ UnmuteSpeaker \/ FeelSleepy \/ DozeSpeaker \/ ActivateScene \/ SceneSpeaker
  BY <1>18 DEF MuteSpeaker, UnmuteSpeaker, FeelSleepy, DozeSpeaker, ActivateScene,
     SceneSpeaker, Goto
<1>19. CASE SceneUnmutes \/ SceneOff \/ Flip \/ Enroll \/ EnrollEnds \/ SceneReturns
  BY <1>19 DEF SceneUnmutes, SceneOff, Flip, Enroll, EnrollEnds, SceneReturns, Goto
<1>20. ASSUME NEW d \in Drains, DrainPasses(d) \/ DrainCommits(d) PROVE CameraBody'
  BY <1>20 DEF DrainPasses, DrainCommits
<1>21. CASE UNCHANGED vars
  BY <1>21 DEF vars
<1> QED BY <1>1, <1>2, <1>3, <1>4, <1>5, <1>6, <1>7, <1>8, <1>9, <1>10, <1>11,
       <1>12, <1>13, <1>14, <1>15, <1>16, <1>17, <1>18, <1>19, <1>20, <1>21 DEF Next

(* What the camera goes back to, and its file, through every step. *)
LEMMA WordStep == TypeInv /\ CameraBody /\ CameraWord /\ [Next]_vars => CameraWord'
<1> SUFFICES ASSUME TypeInv /\ CameraBody /\ CameraWord, [Next]_vars PROVE CameraWord'
  OBVIOUS
<1> USE DEF TypeInv, FlagTypes, NoteTypes, BeforeTypes, FileTypes, CameraBody, CameraWord,
        CameraChoiceKept, CameraSaved, CameraPref, CameraLocked, SpeakerLocked, device,
        mood, aside, ghosts
<1>1. CASE MuteSpeaker
  BY <1>1 DEF MuteSpeaker
<1>2. CASE UnmuteSpeaker
  BY <1>2 DEF UnmuteSpeaker, SaveSpeaker
<1>3. CASE DisableCamera
  BY <1>3 DEF DisableCamera, NoteCamera
<1>4. CASE EnableCamera
  BY <1>4 DEF EnableCamera, NoteCamera
<1>5. CASE FeelAwake
  BY <1>5 DEF FeelAwake, Rouse
<1>6. CASE FeelSleepy
  BY <1>6 DEF FeelSleepy
<1>7. CASE DozeCamera
  <2>1. AutoCamera(TRUE)
    BY <1>7 DEF DozeCamera
  <2> QED BY <1>7, <2>1, AutoCameraEffect DEF DozeCamera
<1>8. CASE ActivateScene
  BY <1>8 DEF ActivateScene
<1>9. CASE SceneCamera
  <2>1. AutoCamera(Scenes[applying] = "off")
    BY <1>9 DEF SceneCamera
  <2> QED BY <1>9, <2>1, AutoCameraEffect DEF SceneCamera
<1>10. CASE SceneUnmutes
  BY <1>10 DEF SceneUnmutes, SaveSpeaker
<1>11. ASSUME NEW t \in Threads, Wake(t) PROVE CameraWord'
  BY <1>11 DEF Wake
<1>12. ASSUME NEW t \in Threads, EmotionCamera(t) PROVE CameraWord'
  <2>1. AutoCamera(FALSE)
    BY <1>12 DEF EmotionCamera
  <2> QED BY <1>12, <2>1, AutoCameraEffect DEF EmotionCamera
<1>13. ASSUME NEW t \in Threads, LeaveScene(t) PROVE CameraWord'
  BY <1>13 DEF LeaveScene
<1>14. ASSUME NEW t \in Threads, RestoreScene(t) PROVE CameraWord'
  BY <1>14 DEF RestoreScene, NoteCamera
<1>15. ASSUME NEW d \in Drains, DrainCommits(d) PROVE CameraWord'
  BY <1>15 DEF DrainCommits
<1>16. CASE SwitchLocks
  BY <1>16 DEF SwitchLocks, Lock, SaveBoth, NoteCamera
<1>17. CASE SwitchWakes
  BY <1>17 DEF SwitchWakes, Rouse
<1>18. CASE SwitchUnlocks
  BY <1>18, UnlockEffect DEF SwitchUnlocks, NoteCamera, SaveBoth
<1>19. CASE Restart
  BY <1>19 DEF Restart, SaveBoth
<1>20. CASE FirstSync
  <2>1. CASE switch
    BY <1>20, <2>1 DEF FirstSync, Lock, SaveBoth
  <2>2. CASE ~switch
    BY <1>20, <2>2, UnlockEffect DEF FirstSync, SaveBoth
  <2> QED BY <2>1, <2>2
<1>21. CASE DozeSpeaker \/ SceneSpeaker \/ SceneOff \/ Flip \/ Enroll \/ EnrollEnds
  BY <1>21 DEF DozeSpeaker, SceneSpeaker, SceneOff, Flip, Enroll, EnrollEnds
<1>22. CASE Snapshot \/ SnapshotOpens \/ SnapshotEnds \/ SceneReturns
  BY <1>22 DEF Snapshot, SnapshotOpens, SnapshotEnds, SceneReturns
<1>23. ASSUME NEW d \in Drains, DrainPasses(d) PROVE CameraWord'
  BY <1>23 DEF DrainPasses
<1>24. CASE UNCHANGED vars
  BY <1>24 DEF vars
<1> QED BY <1>1, <1>2, <1>3, <1>4, <1>5, <1>6, <1>7, <1>8, <1>9, <1>10, <1>11,
       <1>12, <1>13, <1>14, <1>15, <1>16, <1>17, <1>18, <1>19, <1>20, <1>21, <1>22,
       <1>23, <1>24 DEF Next

(* Both parts of the invariant of the camera.                               *)
THEOREM CameraKept == Spec => [](CameraBody /\ CameraWord)
<1>1. Init => CameraBody /\ CameraWord
  <2> SUFFICES ASSUME Init PROVE CameraBody /\ CameraWord
    OBVIOUS
  <2>1. CameraBody
    BY DEF Init, CameraBody, LockedCameraIsOff, CameraFollowsFlag, OpenedWasOff,
       SyncIsLocked, CameraLocked, Threads
  <2>2. CameraWord
    BY DEF Init, CameraWord, CameraChoiceKept, CameraSaved, CameraPref, CameraLocked
  <2> QED BY <2>1, <2>2
<1>2. TypeInv /\ (CameraBody /\ CameraWord) /\ [Next]_vars => (CameraBody /\ CameraWord)'
  BY BodyStep, WordStep
<1> QED BY <1>1, <1>2, TypeInvKept, PTL DEF Spec

(* While the switch locks the camera its capture loop does not run,        *)
(* whichever snapshot is between its look at the lock and its start        *)
(* (GuardedCamera).                                                        *)
THEOREM LockedCameraIsOffAlways == Spec => []LockedCameraIsOff
<1>1. CameraBody => LockedCameraIsOff
  BY DEF CameraBody
<1> QED BY <1>1, CameraKept, PTL

(* The capture loop follows the flag of the camera, through locks, scenes, *)
(* sleep and restarts, unless the camera changed hands under a snapshot.   *)
THEOREM CameraFollowsFlagAlways == Spec => []CameraFollowsFlag
<1>1. CameraBody => CameraFollowsFlag
  BY DEF CameraBody
<1> QED BY <1>1, CameraKept, PTL

(* The camera goes back to the last word on it, and the user's own disable *)
(* keeps it off: under the lock, in the file and after a restart.          *)
THEOREM CameraChoiceKeptAlways == Spec => []CameraChoiceKept
<1>1. CameraWord => CameraChoiceKept
  BY DEF CameraWord
<1> QED BY <1>1, CameraKept, PTL

-----------------------------------------------------------------------------
(* The speaker.  Three overlays lie over the user's choice, sleep, the     *)
(* switch and an enrollment, each of which keeps aside what it found;      *)
(* between the two halves of a wake or of leaving a scene the choice is    *)
(* only owed.                                                              *)

(* What the speaker's mute is beneath sleep, the switch and an enrollment. *)
Beneath == IF SpeakerLocked THEN before.speaker
           ELSE IF enroll # None THEN enroll ELSE muted

(* A handler is still to restore the speaker of the scene it leaves.       *)
RestorePending ==
  \E t \in Threads : \/ pc[t] \in {"sceneOff", "restore"}
                     \/ pc[t] = "wake" /\ scene # NoScene

(* The file of sleep is never behind, and a sleeping device would come     *)
(* back from a restart with the mute of its sleep.                         *)
SleepSaved == file.sleeping = sleeping /\ (sleeping => file.slept = slept)

(* The lock and an enrollment mute, and the file holds what the mute is    *)
(* beneath them, but for sleep's own mute.                                 *)
SpeakerBody ==
  ~tangled => /\ SpeakerLocked => muted
              /\ enroll # None => muted /\ ~SpeakerLocked
              /\ ~slept => file.speaker = Beneath

(* What the speaker goes back to is the last word on it, or a scene that   *)
(* is being left is about to say so.                                       *)
SpeakerWord ==
  ~tangled => (IF slept THEN FALSE ELSE Beneath) = wants.speaker \/ RestorePending

(* The file of sleep through every step.                                   *)
LEMMA SleepSavedStep == TypeInv /\ SleepSaved /\ [Next]_vars => SleepSaved'
<1> SUFFICES ASSUME TypeInv /\ SleepSaved, [Next]_vars PROVE SleepSaved'
  OBVIOUS
<1> USE DEF TypeInv, FlagTypes, FileTypes, SleepSaved, device, mood, aside
<1>1. CASE MuteSpeaker
  BY <1>1 DEF MuteSpeaker
<1>2. CASE UnmuteSpeaker
  BY <1>2 DEF UnmuteSpeaker, SaveSpeaker
<1>3. CASE DisableCamera \/ EnableCamera
  BY <1>3 DEF DisableCamera, EnableCamera
<1>4. CASE FeelAwake
  BY <1>4 DEF FeelAwake, Rouse
<1>5. CASE FeelSleepy
  BY <1>5 DEF FeelSleepy
<1>6. ASSUME NEW off \in BOOLEAN, AutoCamera(off), UNCHANGED <<sleeping, slept>>
      PROVE  SleepSaved'
  BY <1>6 DEF AutoCamera
<1>7. CASE DozeCamera \/ SceneCamera
  BY <1>6, <1>7 DEF DozeCamera, SceneCamera
<1>8. CASE ActivateScene
  BY <1>8 DEF ActivateScene
<1>9. CASE SceneUnmutes
  BY <1>9 DEF SceneUnmutes, SaveSpeaker
<1>10. ASSUME NEW t \in Threads, Wake(t) PROVE SleepSaved'
  BY <1>10 DEF Wake
<1>11. ASSUME NEW t \in Threads, EmotionCamera(t) PROVE SleepSaved'
  BY <1>6, <1>11 DEF EmotionCamera
<1>12. ASSUME NEW t \in Threads, LeaveScene(t) \/ RestoreScene(t) PROVE SleepSaved'
  BY <1>12 DEF LeaveScene, RestoreScene
<1>13. ASSUME NEW d \in Drains, DrainCommits(d) PROVE SleepSaved'
  BY <1>13 DEF DrainCommits, StillWanted
<1>14. CASE SwitchLocks \/ SwitchUnlocks \/ FirstSync
  BY <1>14 DEF SwitchLocks, SwitchUnlocks, FirstSync, SaveBoth
<1>15. CASE SwitchWakes
  BY <1>15 DEF SwitchWakes, Rouse
<1>16. CASE Restart
  BY <1>16 DEF Restart, SaveBoth
<1>17. CASE DozeSpeaker \/ SceneSpeaker \/ SceneOff \/ Flip \/ Enroll \/ EnrollEnds
  BY <1>17 DEF DozeSpeaker, SceneSpeaker, SceneOff, Flip, Enroll, EnrollEnds
<1>18. CASE Snapshot \/ SnapshotOpens \/ SnapshotEnds \/ SceneReturns
  BY <1>18 DEF Snapshot, SnapshotOpens, SnapshotEnds, SceneReturns
<1>19. ASSUME NEW d \in Drains, DrainPasses(d) PROVE SleepSaved'
  BY <1>19 DEF DrainPasses
<1>20. CASE UNCHANGED vars
  BY <1>20 DEF vars
<1> QED BY <1>1, <1>2, <1>3, <1>4, <1>5, <1>7, <1>8, <1>9, <1>10, <1>11, <1>12, <1>13,
           <1>14, <1>15, <1>16, <1>17, <1>18, <1>19, <1>20 DEF Next

(* Before the first read of the pin nobody enrolls.                        *)
SyncAlone == pc["button"] = "sync" => enroll = None

(* An enrollment starts while the switch locks nothing, a boot with the    *)
(* lock.                                                                   *)
LEMMA SyncAloneStep == TypeInv /\ SyncIsLocked /\ SyncAlone /\ [Next]_vars => SyncAlone'
<1> SUFFICES ASSUME TypeInv /\ SyncIsLocked /\ SyncAlone, [Next]_vars, pc'["button"] = "sync"
             PROVE  enroll' = None
  BY DEF SyncAlone
<1>1. CASE Restart
  BY <1>1 DEF Restart
<1>2. CASE ~Restart
  <2>1. pc["button"] = "sync"
    <3> USE DEF TypeInv, StageTypes, Threads, Goto, aside
    <3>1. CASE FeelAwake \/ FeelSleepy \/ DozeCamera \/ DozeSpeaker \/ ActivateScene
      BY <3>1 DEF FeelAwake, FeelSleepy, DozeCamera, DozeSpeaker, ActivateScene
    <3>2. CASE SceneCamera \/ SceneSpeaker \/ SceneUnmutes \/ SceneOff \/ SceneReturns
      BY <3>2 DEF SceneCamera, SceneSpeaker, SceneUnmutes, SceneOff, SceneReturns
    <3>3. ASSUME NEW t \in Threads,
                 Wake(t) \/ EmotionCamera(t) \/ LeaveScene(t) \/ RestoreScene(t)
          PROVE  pc["button"] = "sync"
      BY <3>3 DEF Wake, EmotionCamera, LeaveScene, RestoreScene
    <3>4. CASE SwitchWakes \/ SwitchUnlocks \/ FirstSync
      BY <3>4 DEF SwitchWakes, SwitchUnlocks, FirstSync
    <3>5. CASE UNCHANGED pc
      BY <3>5
    <3>6. CASE MuteSpeaker \/ UnmuteSpeaker \/ DisableCamera \/ EnableCamera \/ Flip
      BY <3>5, <3>6 DEF MuteSpeaker, UnmuteSpeaker, DisableCamera, EnableCamera, Flip
    <3>7. CASE SwitchLocks \/ Enroll \/ EnrollEnds \/ Snapshot \/ SnapshotOpens \/ SnapshotEnds
      BY <3>5, <3>7 DEF SwitchLocks, Enroll, EnrollEnds, Snapshot, SnapshotOpens,
         SnapshotEnds
    <3>8. ASSUME NEW d \in Drains, DrainPasses(d) \/ DrainCommits(d)
          PROVE  pc["button"] = "sync"
      BY <3>5, <3>8 DEF DrainPasses, DrainCommits
    <3>9. CASE UNCHANGED vars
      BY <3>5, <3>9 DEF vars
    <3> QED BY <1>2, <3>1, <3>2, <3>3, <3>4, <3>6, <3>7, <3>8, <3>9 DEF Next
  <2>2. locked /\ enroll = None
    BY <2>1 DEF SyncIsLocked, SyncAlone
  <2>3. ~Enroll
    BY <2>2 DEF Enroll
  <2>4. enroll' \in {enroll, None}
    <3> USE DEF aside
    <3>1. CASE FeelAwake \/ FeelSleepy \/ DozeCamera \/ DozeSpeaker \/ ActivateScene
      BY <3>1 DEF FeelAwake, FeelSleepy, DozeCamera, DozeSpeaker, ActivateScene, Rouse
    <3>2. CASE SceneCamera \/ SceneSpeaker \/ SceneUnmutes \/ SceneOff \/ SceneReturns
      BY <3>2 DEF SceneCamera, SceneSpeaker, SceneUnmutes, SceneOff, SceneReturns
    <3>3. ASSUME NEW t \in Threads,
                 Wake(t) \/ EmotionCamera(t) \/ LeaveScene(t) \/ RestoreScene(t)
          PROVE  enroll' \in {enroll, None}
      BY <3>3 DEF Wake, EmotionCamera, LeaveScene, RestoreScene
    <3>4. CASE SwitchWakes \/ SwitchUnlocks \/ FirstSync \/ SwitchLocks
      BY <3>4 DEF SwitchWakes, SwitchUnlocks, FirstSync, SwitchLocks, Rouse
    <3>5. CASE MuteSpeaker \/ UnmuteSpeaker \/ DisableCamera \/ EnableCamera \/ Flip
      BY <3>5 DEF MuteSpeaker, UnmuteSpeaker, DisableCamera, EnableCamera, Flip
    <3>6. CASE EnrollEnds \/ Snapshot \/ SnapshotOpens \/ SnapshotEnds
      BY <3>6 DEF EnrollEnds, Snapshot, SnapshotOpens, SnapshotEnds
    <3>7. ASSUME NEW d \in Drains, DrainPasses(d) \/ DrainCommits(d)
          PROVE  enroll' \in {enroll, None}
      BY <3>7 DEF DrainPasses, DrainCommits
    <3>8. CASE UNCHANGED vars
      BY <3>8 DEF vars
    <3> QED BY <1>2, <2>3, <3>1, <3>2, <3>3, <3>4, <3>5, <3>6, <3>7, <3>8 DEF Next
  <2> QED BY <2>2, <2>4
<1> QED BY <1>1, <1>2

(* All that the steps of the speaker need to know.                         *)
SpeakerInv ==
  /\ TypeInv /\ WakeIsFinal /\ SyncIsLocked /\ SyncAlone /\ SleepSaved
  /\ SpeakerBody /\ SpeakerWord


(* The mute, the lock and the file through every step.                     *)
LEMMA SpeakerBodyStep == SpeakerInv /\ [Next]_vars => SpeakerBody'
<1> SUFFICES ASSUME SpeakerInv, [Next]_vars, ~tangled'
             PROVE  /\ SpeakerLocked' => muted'
                    /\ enroll' # None => muted' /\ ~SpeakerLocked'
                    /\ ~slept' => file'.speaker = Beneath'
  BY DEF SpeakerBody
<1> USE PeripheralConstants
    DEF PeripheralConstants, SpeakerInv, TypeInv, FlagTypes, FileTypes, BeforeTypes, NoteTypes,
        SpeakerBody, Beneath, SpeakerLocked, CameraLocked, device, mood, aside, ghosts
<1>1. CASE MuteSpeaker
  BY <1>1 DEF MuteSpeaker, NoteSpeaker
<1>2. CASE UnmuteSpeaker
  BY <1>2 DEF UnmuteSpeaker, SaveSpeaker, NoteSpeaker
<1>3. CASE DisableCamera
  BY <1>3 DEF DisableCamera
<1>4. CASE EnableCamera
  BY <1>4 DEF EnableCamera
<1>5. CASE FeelAwake
  BY <1>5 DEF FeelAwake, Rouse
<1>6. CASE FeelSleepy
  BY <1>6 DEF FeelSleepy
<1>7. ASSUME NEW off \in BOOLEAN, AutoCamera(off) PROVE file'.speaker = file.speaker
  BY <1>7 DEF AutoCamera
<1>8. CASE DozeCamera
  BY <1>7, <1>8 DEF DozeCamera
<1>9. CASE SceneCamera
  BY <1>7, <1>9 DEF SceneCamera
<1>10. CASE ActivateScene
  BY <1>10 DEF ActivateScene
<1>11. CASE SceneUnmutes
  BY <1>11 DEF SceneUnmutes, SaveSpeaker
<1>12. ASSUME NEW t \in Threads, Wake(t)
       PROVE  /\ SpeakerLocked' => muted'
              /\ enroll' # None => muted' /\ ~SpeakerLocked'
              /\ ~slept' => file'.speaker = Beneath'
  BY <1>12 DEF Wake, NoteSpeaker
<1>13. ASSUME NEW t \in Threads, EmotionCamera(t)
       PROVE  /\ SpeakerLocked' => muted'
              /\ enroll' # None => muted' /\ ~SpeakerLocked'
              /\ ~slept' => file'.speaker = Beneath'
  BY <1>7, <1>13 DEF EmotionCamera
<1>14. ASSUME NEW t \in Threads, LeaveScene(t)
       PROVE  /\ SpeakerLocked' => muted'
              /\ enroll' # None => muted' /\ ~SpeakerLocked'
              /\ ~slept' => file'.speaker = Beneath'
  BY <1>14 DEF LeaveScene
<1>15. ASSUME NEW t \in Threads, RestoreScene(t)
       PROVE  /\ SpeakerLocked' => muted'
              /\ enroll' # None => muted' /\ ~SpeakerLocked'
              /\ ~slept' => file'.speaker = Beneath'
  BY <1>15 DEF RestoreScene, NoteSpeaker
<1>16. ASSUME NEW d \in Drains, DrainCommits(d)
       PROVE  /\ SpeakerLocked' => muted'
              /\ enroll' # None => muted' /\ ~SpeakerLocked'
              /\ ~slept' => file'.speaker = Beneath'
  BY <1>16 DEF DrainCommits, NoteSpeaker
<1>17. CASE SwitchLocks
  BY <1>17 DEF SwitchLocks, Lock, SaveBoth, NoteSpeaker
<1>18. CASE SwitchUnlocks
  BY <1>18 DEF SwitchUnlocks, Unlock, SaveBoth, NoteSpeaker
<1>19. CASE SwitchWakes
  BY <1>19 DEF SwitchWakes, Rouse
<1>20. CASE Restart
  BY <1>20 DEF Restart, SaveBoth
<1>21. CASE FirstSync
  <2>1. CASE switch
    BY <1>21, <2>1 DEF FirstSync, Lock, SaveBoth, SyncIsLocked, SyncAlone
  <2>2. CASE ~switch
    BY <1>21, <2>2 DEF FirstSync, Unlock, SaveBoth, SyncIsLocked, SyncAlone
  <2> QED BY <2>1, <2>2
<1>22. CASE Enroll
  BY <1>22 DEF Enroll
<1>23. CASE EnrollEnds
  BY <1>23 DEF EnrollEnds
<1>24. CASE DozeSpeaker \/ SceneSpeaker \/ SceneOff \/ Flip
  BY <1>24 DEF DozeSpeaker, SceneSpeaker, SceneOff, Flip
<1>25. CASE Snapshot \/ SnapshotOpens \/ SnapshotEnds \/ SceneReturns
  BY <1>25 DEF Snapshot, SnapshotOpens, SnapshotEnds, SceneReturns
<1>26. ASSUME NEW d \in Drains, DrainPasses(d)
       PROVE  /\ SpeakerLocked' => muted'
              /\ enroll' # None => muted' /\ ~SpeakerLocked'
              /\ ~slept' => file'.speaker = Beneath'
  BY <1>26 DEF DrainPasses
<1>27. CASE UNCHANGED vars
  BY <1>27 DEF vars
<1> QED BY <1>1, <1>2, <1>3, <1>4, <1>5, <1>6, <1>8, <1>9, <1>10, <1>11, <1>12, <1>13,
           <1>14, <1>15, <1>16, <1>17, <1>18, <1>19, <1>20, <1>21, <1>22, <1>23, <1>24,
           <1>25, <1>26, <1>27 DEF Next

(* What the speaker goes back to through every step.  The drain of a scene *)
(* that mutes while a wake is half done finds that wake about to leave the *)
(* scene.                                                                  *)
LEMMA SpeakerWordStep == SpeakerInv /\ [Next]_vars => SpeakerWord'
<1> SUFFICES ASSUME SpeakerInv, [Next]_vars, ~tangled', ~RestorePending'
             PROVE  (IF slept' THEN FALSE ELSE Beneath') = wants'.speaker
  BY DEF SpeakerWord
<1> USE PeripheralConstants
    DEF PeripheralConstants, SpeakerInv, TypeInv, FlagTypes, FileTypes, BeforeTypes, NoteTypes,
        SceneTypes, StageTypes, Threads, SpeakerBody, SpeakerWord, RestorePending, Beneath,
        SpeakerLocked, CameraLocked, device, mood, aside, ghosts
<1> DEFINE Kept == (IF slept' THEN FALSE ELSE Beneath') = wants'.speaker
<1>1. CASE MuteSpeaker
  BY <1>1 DEF MuteSpeaker, NoteSpeaker
<1>2. CASE UnmuteSpeaker
  BY <1>2 DEF UnmuteSpeaker, NoteSpeaker
<1>3. CASE DisableCamera
  BY <1>3 DEF DisableCamera
<1>4. CASE EnableCamera
  BY <1>4 DEF EnableCamera
<1>5. CASE FeelAwake
  BY <1>5 DEF FeelAwake, Rouse, Goto
<1>6. CASE FeelSleepy
  BY <1>6 DEF FeelSleepy, Goto
<1>7. ASSUME NEW off \in BOOLEAN, AutoCamera(off) PROVE wants'.speaker = wants.speaker
  BY <1>7 DEF AutoCamera
<1>8. CASE DozeCamera
  BY <1>7, <1>8 DEF DozeCamera, Goto
<1>9. CASE SceneCamera
  BY <1>7, <1>9 DEF SceneCamera, Goto
<1>10. CASE ActivateScene
  BY <1>10 DEF ActivateScene, Goto
<1>11. CASE SceneUnmutes
  BY <1>11 DEF SceneUnmutes, Goto
<1>12. ASSUME NEW t \in Threads, Wake(t) PROVE Kept
  BY <1>12 DEF Wake, NoteSpeaker, Goto
<1>13. ASSUME NEW t \in Threads, EmotionCamera(t) PROVE Kept
  BY <1>7, <1>13 DEF EmotionCamera, Goto
<1>14. ASSUME NEW t \in Threads, LeaveScene(t) PROVE Kept
  BY <1>14 DEF LeaveScene, Goto
<1>15. ASSUME NEW t \in Threads, RestoreScene(t) PROVE Kept
  BY <1>15 DEF RestoreScene, NoteSpeaker
<1>16. ASSUME NEW d \in Drains, DrainCommits(d) PROVE Kept
  <2>1. CASE ~(StillWanted(d) /\ ~muted)
    BY <1>16, <2>1 DEF DrainCommits
  <2>2. CASE (StillWanted(d) /\ ~muted) /\ d = "sleep"
    BY <1>16, <2>2 DEF DrainCommits, NoteSpeaker, StillWanted
  <2>3. CASE (StillWanted(d) /\ ~muted) /\ d # "sleep"
    <3>1. scene = d /\ d \in DOMAIN Scenes /\ ~sleeping
      BY <2>3 DEF StillWanted, Drains
    <3>2. ~RestorePending
      BY <1>16 DEF DrainCommits
    <3>3. ~slept
      BY <3>1, <3>2 DEF WakeIsFinal, Waking
    <3> QED BY <1>16, <2>3, <3>3 DEF DrainCommits, NoteSpeaker
  <2> QED BY <2>1, <2>2, <2>3
<1>17. CASE SwitchLocks
  BY <1>17 DEF SwitchLocks, Lock, NoteSpeaker
<1>18. CASE SwitchUnlocks
  BY <1>18 DEF SwitchUnlocks, Unlock, NoteSpeaker, Goto
<1>19. CASE SwitchWakes
  BY <1>19 DEF SwitchWakes, Rouse, Goto
<1>20. CASE Restart
  BY <1>20 DEF Restart, SleepSaved, Leaving, Waking, WakeIsFinal
<1>21. CASE FirstSync
  <2>1. CASE switch
    BY <1>21, <2>1 DEF FirstSync, Lock, SyncIsLocked, SyncAlone, Goto
  <2>2. CASE ~switch
    BY <1>21, <2>2 DEF FirstSync, Unlock, SyncIsLocked, SyncAlone, Goto
  <2> QED BY <2>1, <2>2
<1>22. CASE Enroll
  BY <1>22 DEF Enroll
<1>23. CASE EnrollEnds
  BY <1>23 DEF EnrollEnds
<1>24. CASE DozeSpeaker \/ SceneSpeaker \/ SceneOff \/ Flip
  <2>1. CASE DozeSpeaker
    BY <2>1 DEF DozeSpeaker, Goto
  <2>2. CASE SceneSpeaker
    BY <2>2 DEF SceneSpeaker, Goto
  <2>3. CASE SceneOff
    BY <2>3 DEF SceneOff, Goto
  <2>4. CASE Flip
    BY <2>4 DEF Flip
  <2> QED BY <1>24, <2>1, <2>2, <2>3, <2>4
<1>25. CASE Snapshot \/ SnapshotOpens \/ SnapshotEnds \/ SceneReturns
  <2>1. CASE Snapshot \/ SnapshotOpens \/ SnapshotEnds
    <3>1. UNCHANGED <<pc, scene, slept, wants, locked, before, muted, enroll, tangled>>
      BY <2>1 DEF Snapshot, SnapshotOpens, SnapshotEnds
    <3> QED BY <3>1
  <2>2. CASE SceneReturns
    <3>1. RestorePending => RestorePending'
      BY <2>2 DEF SceneReturns, Goto
    <3>2. ~RestorePending
      BY <3>1
    <3> QED BY <2>2, <3>2 DEF SceneReturns
  <2> QED BY <1>25, <2>1, <2>2
<1>26. ASSUME NEW d \in Drains, DrainPasses(d) PROVE Kept
  BY <1>26 DEF DrainPasses
<1>27. CASE UNCHANGED vars
  BY <1>27 DEF vars
<1> QED BY <1>1, <1>2, <1>3, <1>4, <1>5, <1>6, <1>8, <1>9, <1>10, <1>11, <1>12, <1>13,
           <1>14, <1>15, <1>16, <1>17, <1>18, <1>19, <1>20, <1>21, <1>22, <1>23, <1>24,
           <1>25, <1>26, <1>27 DEF Next

(* The parts of the invariant of the speaker.                              *)
THEOREM SpeakerKept == Spec => [](SyncAlone /\ SleepSaved /\ SpeakerBody /\ SpeakerWord)
<1> DEFINE Speaker == SyncAlone /\ SleepSaved /\ SpeakerBody /\ SpeakerWord
<1>1. Init => Speaker
  <2> SUFFICES ASSUME Init PROVE Speaker
    OBVIOUS
  <2>1. SyncAlone /\ SleepSaved
    BY DEF Init, SyncAlone, SleepSaved
  <2>2. SpeakerBody /\ SpeakerWord
    BY DEF Init, SpeakerBody, SpeakerWord, Beneath, SpeakerLocked
  <2> QED BY <2>1, <2>2
<1>2. TypeInv /\ WakeIsFinal /\ SyncIsLocked /\ Speaker /\ [Next]_vars => Speaker'
  BY SyncAloneStep, SleepSavedStep, SpeakerBodyStep, SpeakerWordStep DEF SpeakerInv
<1>3. CameraBody => SyncIsLocked
  BY DEF CameraBody
<1> HIDE DEF Speaker
<1>4. Spec => []Speaker
  BY <1>1, <1>2, <1>3, TypeInvKept, WakeIsFinalAlways, CameraKept, PTL DEF Spec
<1> QED BY <1>4 DEF Speaker

(* The speaker goes back to what the user or a scene last made of it,      *)
(* beneath the switch, through sleep, scenes and restarts, unless a        *)
(* request met an enrollment or a crash a half-done wake (app_state,       *)
(* privacy.apply, _wake_sleepy_peripherals, deactivate_scene).             *)
THEOREM SpeakerChoiceKeptAlways == Spec => []SpeakerChoiceKept
<1>1. SpeakerBody /\ SpeakerWord => SpeakerChoiceKept
  BY DEF SpeakerBody, SpeakerWord, SpeakerChoiceKept, RestorePending, Leaving, Waking,
     Beneath, SpeakerPref
<1> QED BY <1>1, SpeakerKept, PTL
=============================================================================
