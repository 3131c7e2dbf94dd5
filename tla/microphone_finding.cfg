SPECIFICATION ListenerSpec
CONSTANTS
  Calls = {c1, c2}
  NoCall = NoCall
  MaxVoiceActs = 4
INVARIANT MicrophoneFollowsTheSwitch
CHECK_DEADLOCK FALSE
