SPECIFICATION Spec
CONSTANTS
    acme = acme  globex = globex
    root = root  ana = ana  eva = eva  max = max
    red = red  blue = blue
    shoes = shoes  nike = nike  hats = hats
    air = air  cap = cap  old = old  gone = gone
    q1 = q1  q2 = q2  q3 = q3
    Requests = {q1, q2}
    Calls <- MCCalls
    FirstCompanies <- MCCompanies
    FirstUsers <- MCUsers
    Names = {red, blue, acme, globex}
    Emails = {red, blue, root, ana, eva, max}
    SlugOf <- MCSlugOf
    FirstLabels <- MCLabels
    FirstProducts <- MCProducts
    FirstFiles = {old}
    NoFiles = {gone}
    Skus = {red, blue}
    NoRow = NoRow
    NoCall = NoCall
    NoOne = NoOne
    NoCompany = NoCompany
    Unset = Unset
PROPERTY
    BrandsInUseStay
