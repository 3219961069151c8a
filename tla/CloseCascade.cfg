SPECIFICATION Spec
CONSTANTS
  t1 = t1
  t2 = t2
  t3 = t3
  t4 = t4
  Tasks = {t1, t2, t3, t4}
  Boot = {t1}
  usb = usb
  ble = ble
  Ifaces = {usb, ble}
  None = None
SYMMETRY Symmetry
INVARIANTS
  NoDoubleResume
  NoLostTask
  NoGhost
  NoOrphan
  WaiterIsCalledBack
PROPERTIES
  ChildrenEndFirst
  CascadeAsCoded
