------------------------------ MODULE Devices -------------------------------
(***************************************************************************)
(* The drivers of the character devices, the clocks, the disk and the      *)
(* controllers.  They share no state: a behaviour exercises one of them,   *)
(* and the others stay as they start.                                      *)
(***************************************************************************)
EXTENDS Keyboard, Console, Screen, Serial, Ps2, Clock, Ata, Controllers

VARIABLE device

devicesVars == <<device, kbVars, conVars, screenVars, serialVars, ps2Vars, mouseVars, rtcVars, pitVars, ataVars,
                 controllersVars>>

\* The choices of the device that is exercised, or the one of a device that is not
ChoicesOf(d, choices, none) == IF device = d THEN choices ELSE {none}

DevicesInit ==
  /\ device \in {"keyboard", "console", "screen", "serial", "ps2", "mouse", "rtc", "pit", "ata", "pic", "ioapic",
                "dma"}
  /\ KbInit /\ ConInit /\ ScreenInit
  /\ SerialInit(ChoicesOf("serial", BOOLEAN, TRUE))
  /\ Ps2Init(ChoicesOf("ps2", {<<"ps2", 1>>, <<"ps2", 2>>, <<"mouse", 2>>}, <<"ps2", 2>>))
  /\ MouseInit
  /\ RtcInit(ChoicesOf("rtc", Moments, At(7, 1, 1, 0, 0, 0)),
             ChoicesOf("rtc", [is_binary : BOOLEAN, is_24h : BOOLEAN], [is_binary |-> TRUE, is_24h |-> TRUE]))
  /\ PitInit /\ AtaInit
  /\ ControllersInit(ChoicesOf("pic", BootMasks, 255), ChoicesOf("ioapic", Vectors, MASKED), ChoicesOf("dma", {0, 1}, 0))

DevicesNext ==
  /\ UNCHANGED device
  /\ \/ device = "keyboard" /\ KbNext
        /\ UNCHANGED <<conVars, screenVars, serialVars, ps2Vars, mouseVars, rtcVars, pitVars, ataVars, controllersVars>>
     \/ device = "console" /\ ConNext
        /\ UNCHANGED <<kbVars, screenVars, serialVars, ps2Vars, mouseVars, rtcVars, pitVars, ataVars, controllersVars>>
     \/ device = "screen" /\ ScreenNext
        /\ UNCHANGED <<kbVars, conVars, serialVars, ps2Vars, mouseVars, rtcVars, pitVars, ataVars, controllersVars>>
     \/ device = "serial" /\ SerialNext
        /\ UNCHANGED <<kbVars, conVars, screenVars, ps2Vars, mouseVars, rtcVars, pitVars, ataVars, controllersVars>>
     \/ device = "ps2" /\ Ps2Next
        /\ UNCHANGED <<kbVars, conVars, screenVars, serialVars, mouseVars, rtcVars, pitVars, ataVars, controllersVars>>
     \/ device = "mouse" /\ MouseNext
        /\ UNCHANGED <<kbVars, conVars, screenVars, serialVars, ps2Vars, rtcVars, pitVars, ataVars, controllersVars>>
     \/ device = "rtc" /\ RtcNext
        /\ UNCHANGED <<kbVars, conVars, screenVars, serialVars, ps2Vars, mouseVars, pitVars, ataVars, controllersVars>>
     \/ device = "pit" /\ PitNext
        /\ UNCHANGED <<kbVars, conVars, screenVars, serialVars, ps2Vars, mouseVars, rtcVars, ataVars, controllersVars>>
     \/ device = "ata" /\ AtaNext
        /\ UNCHANGED <<kbVars, conVars, screenVars, serialVars, ps2Vars, mouseVars, rtcVars, pitVars, controllersVars>>
     \/ ControllersNext(device)
        /\ UNCHANGED <<kbVars, conVars, screenVars, serialVars, ps2Vars, mouseVars, rtcVars, pitVars, ataVars>>

\* The main loop runs on, and the interrupts of the timer do not stop
DevicesSpec ==
  /\ DevicesInit /\ [][DevicesNext]_devicesVars
  /\ WF_kbVars(KbStep)
=============================================================================
