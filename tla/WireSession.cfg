CONSTANTS
  Sessions = {usb, spi}
  Callers = {"off", "ble", "usb", "button"}
SPECIFICATION Spec
INVARIANTS AllCancelled
PROPERTIES AckEnds
