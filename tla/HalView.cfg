\* Two threads of the plugin and the HAL.  Seven raw values over 36 decibels:
\* the transfer function applies, and 3 * 25 >= 2 * 6 * 6.
SPECIFICATION Spec
CONSTANTS
  Threads = {t1, t2}
  Plugin = P
  Home = D
  Device2 = E
  Stream = S
  Volume = V
  Mute = M
  Objects <- Everything
  Watchable <- Watched
  DeviceUIDs <- UIDs
  Hal = Hal
  NoObject = NoObject
  NoThread = NoThread
  CustomSelector = Custom
  MinRaw <- Lowest
  MaxRaw = 5
  MinDB <- MinusThirty
  MaxDB = 6
  Unit = 25
INVARIANTS AnswersAgree RepliesFit TreeIsWhole ListsAgree
PROPERTIES HalCatchesUp KeepsTreeContract SettingBackIsSilent
